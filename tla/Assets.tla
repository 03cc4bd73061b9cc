------------------------------- MODULE Assets --------------------------------
(***************************************************************************)
(* Static assets (bindings/static-assets.ts) and their place beside a      *)
(* worker (generation.ts _dispatchFetch).  Files are looked up one await   *)
(* at a time while a build may rewrite the directory; the _redirects and   *)
(* _headers files are parsed again when their stamp has changed.           *)
(***************************************************************************)
EXTENDS Naturals, Sequences, FiniteSets

CONSTANTS
  MaxDiskChanges,  \* bounds of what happens on disk ...
  MaxRuleEdits,
  MaxFetches       \* ... and of the requests, one after the other

ASSUME AssetsAssumption == {MaxDiskChanges, MaxRuleEdits, MaxFetches} \subseteq Nat

Urls == {"/", "/p", "/p/", "/f.txt"}
AssetFiles == {"index", "p/index", "p.html", "f.txt", "404"}
RuleFiles == {"redirects", "headers"}
RuleVersions == 0..MaxRuleEdits          \* of a rule file; 0 is no file
NoCache == [stamp |-> MaxRuleEdits + 1, rules |-> 0]
NoFetch == [at |-> "idle", kind |-> "get", url |-> "/", path |-> "/", left |-> <<>>, last |-> <<>>,
            status |-> 200, by |-> "none", file |-> "none", began |-> [r \in RuleFiles |-> 0],
            used |-> [r \in RuleFiles |-> 0], refused |-> FALSE]

VARIABLES
  html,       \* html_handling
  notFound,   \* not_found_handling
  script,     \* whether the worker has one
  first,      \* run_worker_first
  moves,      \* what each version of _redirects does with /p: nothing, 302 or 200 to /f.txt
  disk,       \* the files that exist
  ruleDisk,   \* the version of each rule file
  ruleCache,
  fetch,      \* the request
  missing,    \* files that were missing at some time since it began
  changes, fetches

assetVars == <<html, notFound, script, first, moves, disk, ruleDisk, ruleCache, fetch, missing, changes, fetches>>
assetConfig == <<html, notFound, script, first, moves>>

AssetsType ==
  /\ disk \subseteq AssetFiles /\ missing \subseteq AssetFiles
  /\ ruleDisk \in [RuleFiles -> RuleVersions]
  /\ changes \in 0..MaxDiskChanges /\ fetches \in 0..MaxFetches

AssetsInit ==
  /\ html \in {"none", "auto-trailing-slash", "force-trailing-slash", "drop-trailing-slash"}
  /\ notFound \in {"none", "404-page", "single-page-application"}
  /\ script \in BOOLEAN /\ first \in {{}, {"/p", "/p/"}}
  /\ ~script => first = {}
  /\ moves \in {m \in [RuleVersions -> {"none", "redirect", "rewrite"}] : m[0] = "none"}
  /\ disk \in {{"index", "404", "p.html"}, {"index", "p/index", "p.html", "f.txt"}}
  /\ ruleDisk = [r \in RuleFiles |-> 0] /\ ruleCache = [r \in RuleFiles |-> NoCache]
  /\ fetch = NoFetch /\ missing = {} /\ changes = 0 /\ fetches = 0

-----------------------------------------------------------------------------
(* The disk.                                                               *)

DiskChanges == changes < MaxDiskChanges /\ changes' = changes + 1

FileChanges(f) ==
  /\ DiskChanges
  /\ disk' = IF f \in disk THEN disk \ {f} ELSE disk \cup {f}
  /\ missing' = IF f \in disk /\ fetch.at # "idle" THEN missing \cup {f} ELSE missing
  /\ UNCHANGED <<assetConfig, ruleDisk, ruleCache, fetch, fetches>>

\* A version is written once: the stamp has the mtime in nanoseconds.
Later(r) == {v \in RuleVersions : v > ruleDisk[r]}

RuleEdited(r, v) ==
  /\ v \in Later(r) /\ DiskChanges
  /\ ruleDisk' = [ruleDisk EXCEPT ![r] = v]
  /\ UNCHANGED <<assetConfig, disk, ruleCache, fetch, missing, fetches>>

-----------------------------------------------------------------------------
(* The asset layer.                                                        *)

CanServeAssets(kind) == kind = "get"

\* The stamp is taken, then the file is read: an editor may write in between.
Consulted_StampsAfter(r, v) ==
  IF ruleCache[r].stamp = ruleDisk[r] THEN ruleCache[r]
  ELSE [stamp |-> v, rules |-> ruleDisk[r]]
Consulted(r, v) ==
  IF ruleCache[r].stamp = ruleDisk[r] THEN ruleCache[r]
  ELSE [stamp |-> ruleDisk[r], rules |-> IF ruleDisk[r] = 0 THEN 0 ELSE v]

Consults(r, v) ==
  /\ \/ v = ruleDisk[r] /\ UNCHANGED changes
     \/ v \in Later(r) /\ DiskChanges
  /\ ruleDisk' = [ruleDisk EXCEPT ![r] = v]
  /\ ruleCache' = [ruleCache EXCEPT ![r] = Consulted(r, v)]

\* force- and drop-trailing-slash, for a path without an extension.
Moved(path) ==
  CASE html = "force-trailing-slash" /\ path = "/p"  -> "/p/"
    [] html = "drop-trailing-slash" /\ path = "/p/" -> "/p"
    [] OTHER -> path

\* resolveFile; the files of /f.txt/ and of /p itself never exist here.
Candidates(path) ==
  CASE path = "/"      -> <<"index">>
    [] path = "/f.txt" -> <<"f.txt">>
    [] OTHER           -> IF html = "none" THEN <<>> ELSE <<"p/index", "p.html">>

\* The files that are tried when none is found, and their status.
LastResort ==
  CASE notFound = "single-page-application" -> <<"index">>
    [] notFound = "404-page"                -> <<"404">>
    [] OTHER                                -> <<>>
LastStatus == IF notFound = "404-page" THEN 404 ELSE 200

Answer(status, by) == fetch' = [fetch EXCEPT !.at = "done", !.status = status, !.by = by]

\* _redirects, then the redirects of html_handling.
AssetsBegin(v) ==
  /\ fetch.at = "assets"
  /\ Consults("redirects", v)
  /\ LET used == ruleCache'["redirects"].rules
         path == IF moves[used] = "rewrite" /\ fetch.url = "/p" THEN "/f.txt" ELSE fetch.url
         asked == [fetch EXCEPT !.path = path, !.used["redirects"] = used]
     IN IF moves[used] = "redirect" /\ fetch.url = "/p"
          THEN fetch' = [asked EXCEPT !.at = "done", !.status = 302, !.by = "asset"]
        ELSE IF Moved(path) # path
          THEN fetch' = [asked EXCEPT !.at = "done", !.status = 307, !.by = "asset"]
        ELSE fetch' = [asked EXCEPT !.at = "looking", !.left = Candidates(path), !.last = LastResort]
  /\ UNCHANGED <<assetConfig, disk, missing, fetches>>

\* A rules file that vanishes between its stat and its read.
RulesGone(r) ==
  /\ fetch.at = (IF r = "redirects" THEN "assets" ELSE "found")
  /\ ruleDisk[r] # 0 /\ ruleCache[r].stamp # ruleDisk[r]
  /\ ruleDisk' = [ruleDisk EXCEPT ![r] = 0]
  /\ DiskChanges
  /\ Answer(500, "error")
  /\ UNCHANGED <<assetConfig, disk, ruleCache, missing, fetches>>

\* One exists() after the other.
Found ==
  /\ fetch.at = "looking" /\ fetch.left \o fetch.last # <<>>
  /\ LET f == Head(fetch.left \o fetch.last) IN
     /\ f \in disk
     /\ fetch' = [fetch EXCEPT !.at = "found", !.file = f,
                               !.status = IF fetch.left = <<>> THEN LastStatus ELSE 200]
  /\ UNCHANGED <<assetConfig, disk, ruleDisk, ruleCache, missing, changes, fetches>>

NotThere ==
  /\ fetch.at = "looking" /\ fetch.left \o fetch.last # <<>>
  /\ Head(fetch.left \o fetch.last) \notin disk
  /\ fetch' = IF fetch.left # <<>> THEN [fetch EXCEPT !.left = Tail(@)] ELSE [fetch EXCEPT !.last = Tail(@)]
  /\ UNCHANGED <<assetConfig, disk, ruleDisk, ruleCache, missing, changes, fetches>>

\* The asset layer has a 404: the worker is asked, unless it has been.
NextAfter(answer) ==
  IF answer.status = 404 /\ script /\ ~answer.refused
    THEN [answer EXCEPT !.at = "worker"]
    ELSE [answer EXCEPT !.at = "done", !.by = "asset"]

NothingFound ==
  /\ fetch.at = "looking" /\ fetch.left \o fetch.last = <<>>
  /\ fetch' = NextAfter([fetch EXCEPT !.status = 404])
  /\ UNCHANGED <<assetConfig, disk, ruleDisk, ruleCache, missing, changes, fetches>>

\* serveFile with the rules of _headers.
ServeFile(v) ==
  /\ fetch.at = "found"
  /\ Consults("headers", v)
  /\ fetch' = NextAfter([fetch EXCEPT !.used["headers"] = ruleCache'["headers"].rules])
  /\ UNCHANGED <<assetConfig, disk, missing, fetches>>

-----------------------------------------------------------------------------
(* The generation.                                                         *)

FetchArrives(kind, url) ==
  /\ fetch.at = "idle" /\ fetches < MaxFetches
  /\ fetches' = fetches + 1
  /\ missing' = AssetFiles \ disk
  /\ fetch' = [NoFetch EXCEPT !.kind = kind, !.url = url, !.path = url, !.began = ruleDisk, !.used = ruleDisk,
       !.at = IF script /\ (url \in first \/ ~CanServeAssets(kind)) THEN "worker"
              ELSE IF CanServeAssets(kind) THEN "assets" ELSE "rejected"]
  /\ UNCHANGED <<assetConfig, disk, ruleDisk, ruleCache, changes>>

\* assetsOnlyRejection: nobody can take a write or an upgrade.
Reject ==
  /\ fetch.at = "rejected"
  /\ Answer(IF fetch.kind = "upgrade" THEN 400 ELSE 405, "server")
  /\ UNCHANGED <<assetConfig, disk, ruleDisk, ruleCache, missing, changes, fetches>>

\* A worker that runs first and answers 404 leaves the request to the assets.
WorkerAnswers(status) ==
  /\ fetch.at = "worker"
  /\ IF status = 404 /\ fetch.url \in first /\ CanServeAssets(fetch.kind)
       THEN fetch' = [fetch EXCEPT !.at = "assets", !.refused = TRUE]
       ELSE Answer(status, "worker")
  /\ UNCHANGED <<assetConfig, disk, ruleDisk, ruleCache, missing, changes, fetches>>

FetchOver ==
  /\ fetch.at = "done"
  /\ fetch' = NoFetch /\ missing' = {}
  /\ UNCHANGED <<assetConfig, disk, ruleDisk, ruleCache, changes, fetches>>

AssetsNext ==
  \/ \E f \in AssetFiles : FileChanges(f)
  \/ \E r \in RuleFiles : RulesGone(r) \/ \E v \in RuleVersions : RuleEdited(r, v)
  \/ \E v \in RuleVersions : AssetsBegin(v) \/ ServeFile(v)
  \/ Found \/ NotThere \/ NothingFound
  \/ \E kind \in {"get", "post", "upgrade"}, url \in Urls : FetchArrives(kind, url)
  \/ Reject \/ (\E status \in {200, 404} : WorkerAnswers(status)) \/ FetchOver

AssetsSpec == AssetsInit /\ [][AssetsNext]_assetVars
-----------------------------------------------------------------------------
Wanted == {Candidates(fetch.path)[i] : i \in DOMAIN Candidates(fetch.path)}
Before(f) == {Candidates(fetch.path)[i] : i \in {j \in DOMAIN Candidates(fetch.path) :
                \A k \in 1..j : Candidates(fetch.path)[k] # f}}

\* Only reads are answered by a file, and only reads from the right worker: one that
\* runs first has been asked and said 404, one that does not is asked only when every
\* file that would do was missing at some time.  A file that is served is the best one
\* that was there all along; a redirect of html_handling is not redirected again and
\* means the same files.  Rules are never older than the request (ruleFileStamp).
AssetsTrue == fetch.at = "done" =>
  /\ fetch.by = "asset" =>
       /\ CanServeAssets(fetch.kind)
       /\ script /\ fetch.url \in first => fetch.refused
       /\ fetch.file \in Wanted => Before(fetch.file) \subseteq missing
       /\ fetch.status \in {200, 404} /\ fetch.file \notin Wanted => Wanted \subseteq missing
       /\ fetch.status = 307 => /\ Moved(Moved(fetch.path)) = Moved(fetch.path)
                                /\ Candidates(Moved(fetch.path)) = Candidates(fetch.path)
  /\ fetch.by = "worker" /\ fetch.url \notin first /\ CanServeAssets(fetch.kind) => Wanted \subseteq missing
  /\ \A r \in RuleFiles : fetch.by # "error" => fetch.used[r] >= fetch.began[r]
=============================================================================
