---------------------------- MODULE ObjectStore ----------------------------
(***************************************************************************)
(* R2 (bindings/r2.ts), the S3 proxy over it (s3/proxy.ts) and what the    *)
(* dashboard does to the same bucket (api/handlers/r2.ts).                 *)
(*                                                                         *)
(* An object is a row of r2_objects and a file under the object's own name.*)
(* Worker threads, main's proxy and the dashboard write both without a     *)
(* lock: first the file, over several awaits, then the row.  Content is    *)
(* "put" (what some put wrote) or "parts" (what a multipart upload was     *)
(* completed from); a file that was written by two requests at a time, or  *)
(* by one that failed, is Torn: partial, mixed or gone.                    *)
(***************************************************************************)
EXTENDS Naturals, FiniteSets

CONSTANTS
  Keys,      \* 1..n: the order of list()
  Requests   \* requests under way at a time

ASSUME StoreAssumption == IsFiniteSet(Keys) /\ Keys # {} /\ Keys = 1..Cardinality(Keys)

Absent == "absent"
Torn == "torn"
BigKey == 1    \* the key of the one multipart upload
Upload == 0    \* it and its part, among what requests touch

VARIABLES
  object,    \* r2_objects: the etag says which content
  file,      \* the file of each key
  tagged,    \* keys whose row has tags
  upload,    \* whether r2_multipart_uploads holds the upload
  partRow,   \* its part in r2_multipart_parts ...
  partFile,  \* ... and on disk
  request

storeVars == <<object, file, tagged, upload, partRow, partFile, request>>

NoRequest == [kind |-> "none", key |-> Upload, from |-> Upload, at |-> "start",
              clean |-> TRUE, offset |-> 0, seen |-> {}]
Kinds == {"none", "put", "delete", "copy", "rename", "tag", "part", "complete", "abort", "list", "get"}

StoreType ==
  /\ object \in [Keys -> {Absent, "put", "parts"}]
  /\ file \in [Keys -> {Absent, Torn, "put", "parts"}]
  /\ tagged \subseteq Keys
  /\ upload \in BOOLEAN /\ partRow \in BOOLEAN
  /\ partFile \in {Absent, Torn, "put"}
  /\ request \in [Requests ->
       [kind : Kinds, key : Keys \cup {Upload}, from : Keys \cup {Upload},
        at : {"start", "recorded"}, clean : BOOLEAN,
        offset : Keys \cup {0}, seen : SUBSET Keys]]

StoreInit ==
  /\ object = [k \in Keys |-> Absent] /\ file = [k \in Keys |-> Absent]
  /\ tagged = {}
  /\ upload = FALSE /\ partRow = FALSE /\ partFile = Absent
  /\ request = [r \in Requests |-> NoRequest]

-----------------------------------------------------------------------------
(* What a request writes and what it relies on.  A request is clean as long *)
(* as nobody writes what it relies on.                                      *)

Writes(q) ==
  CASE q.kind \in {"put", "delete", "copy"} -> {q.key}
    [] q.kind = "rename" -> {q.key, q.from}
    [] q.kind = "complete" -> {q.key, Upload}
    [] q.kind \in {"part", "abort"} -> {Upload}
    [] OTHER -> {}

Uses(q) ==
  CASE q.kind = "list" -> Keys
    [] q.kind = "get" -> {q.key}
    [] q.kind \in {"copy", "rename", "tag"} -> {q.key, q.from}
    [] OTHER -> Writes(q)

Busy(x) == \E r \in Requests : x \in Writes(request[r])

Starts(r, q) ==
  request' = [s \in Requests |->
    IF s = r
    THEN [q EXCEPT !.clean = q.key # q.from /\ \A t \in Requests : Writes(request[t]) \cap Uses(q) = {}]
    ELSE [request[s] EXCEPT !.clean = @ /\ Writes(q) \cap Uses(request[s]) = {}]]

(* Requests take the lowest free place.                                     *)
TakesPlace(r) == /\ request[r].kind = "none"
           /\ \A s \in Requests : s < r => request[s].kind # "none"
At(r, kind, place) == request[r].kind = kind /\ request[r].at = place
Moves(r, place) == request' = [request EXCEPT ![r].at = place]
Ends(r) == request' = [request EXCEPT ![r] = NoRequest]

(* The file of k once r has written it.                                     *)
Leaves(r, k, content) == file' = [file EXCEPT ![k] = IF request[r].clean THEN content ELSE Torn]

-----------------------------------------------------------------------------
(* put: the file is truncated at once and the row written last.                *)

PutStarts(r, k) ==
  /\ TakesPlace(r)
  /\ Starts(r, [NoRequest EXCEPT !.kind = "put", !.key = k, !.from = Upload])
  /\ file' = [file EXCEPT ![k] = Torn]
  /\ UNCHANGED <<object, tagged, upload, partRow, partFile>>

\* INSERT OR REPLACE, which clears the tags.  A digest that does not match the
\* Content-MD5 header is noticed now: the proxy goes on to delete the object.
PutEnds(r) ==
  LET k == request[r].key IN
  /\ At(r, "put", "start")
  /\ object' = [object EXCEPT ![k] = "put"]
  /\ Leaves(r, k, "put")
  /\ tagged' = tagged \ {k}
  /\ \/ Ends(r)
     \/ request' = [request EXCEPT ![r].kind = "delete"]
  /\ UNCHANGED <<upload, partRow, partFile>>

\* The body fails while it is written, or the source of a copy is gone.
WriteFails(r) ==
  /\ \/ At(r, "put", "start")
     \/ At(r, "copy", "start") /\ (~request[r].clean \/ file[request[r].from] = Torn)
     \/ At(r, "complete", "start") /\ (~request[r].clean \/ partFile = Torn)
  /\ Ends(r)
  /\ UNCHANGED <<object, file, tagged, upload, partRow, partFile>>

DeleteStarts(r, k) ==
  /\ TakesPlace(r)
  /\ Starts(r, [NoRequest EXCEPT !.kind = "delete", !.key = k])
  /\ UNCHANGED <<object, file, tagged, upload, partRow, partFile>>

DeleteRow(r) ==
  /\ At(r, "delete", "start")
  /\ object' = [object EXCEPT ![request[r].key] = Absent]
  /\ tagged' = tagged \ {request[r].key}
  /\ Moves(r, "recorded")
  /\ UNCHANGED <<file, upload, partRow, partFile>>

DeleteFile(r) ==
  /\ At(r, "delete", "recorded")
  /\ Leaves(r, request[r].key, Absent)
  /\ Ends(r)
  /\ UNCHANGED <<object, tagged, upload, partRow, partFile>>

-----------------------------------------------------------------------------
(* CopyObject streams the source's file into the target's; the etag is that *)
(* of what was read.  A copy onto itself truncates its own source.          *)

CopyStarts(r, from, k) ==
  /\ TakesPlace(r)
  /\ object[from] # Absent
  /\ Starts(r, [NoRequest EXCEPT !.kind = "copy", !.key = k, !.from = from])
  /\ file' = [file EXCEPT ![k] = Torn]
  /\ UNCHANGED <<object, tagged, upload, partRow, partFile>>

CopyEnds(r) ==
  LET k == request[r].key
      read == file[request[r].from]
  IN
  /\ At(r, "copy", "start")
  /\ object' = [object EXCEPT ![k] = IF request[r].clean /\ read \notin {Torn, Absent} THEN read ELSE "put"]
  /\ Leaves(r, k, read)
  /\ tagged' = tagged \ {k}
  /\ Ends(r)
  /\ UNCHANGED <<upload, partRow, partFile>>

\* The dashboard renames: it copies the file, moves the row and removes the old
\* file.  The UPDATE is rejected when the new key has a row.
RenameStarts(r, from, k) ==
  /\ TakesPlace(r)
  /\ file[from] # Absent
  /\ Starts(r, [NoRequest EXCEPT !.kind = "rename", !.key = k, !.from = from])
  /\ UNCHANGED <<object, file, tagged, upload, partRow, partFile>>

RenameEnds(r) ==
  LET k == request[r].key
      from == request[r].from
  IN
  /\ At(r, "rename", "start")
  /\ Ends(r)
  /\ IF object[k] # Absent /\ k # from
     THEN file' = [file EXCEPT ![k] = Torn] /\ UNCHANGED <<object, tagged>>
     ELSE /\ file' = [file EXCEPT ![k] = IF request[r].clean THEN file[from] ELSE Torn,
                                  ![from] = IF request[r].clean THEN Absent ELSE Torn]
          /\ object' = [[object EXCEPT ![from] = Absent] EXCEPT ![k] = object[from]]
          /\ tagged' = IF from \in tagged THEN (tagged \ {from}) \cup {k} ELSE tagged
  /\ UNCHANGED <<upload, partRow, partFile>>

\* The tags of a request that is still being read go to whatever row is there then.
TagStarts(r, k) ==
  /\ TakesPlace(r)
  /\ object[k] # Absent
  /\ Starts(r, [NoRequest EXCEPT !.kind = "tag", !.key = k])
  /\ UNCHANGED <<object, file, tagged, upload, partRow, partFile>>

TagSet(r) ==
  /\ At(r, "tag", "start")
  /\ \/ tagged' = IF object[request[r].key] # Absent THEN tagged \cup {request[r].key} ELSE tagged
     \/ tagged' = tagged \ {request[r].key}
  /\ Ends(r)
  /\ UNCHANGED <<object, file, upload, partRow, partFile>>

-----------------------------------------------------------------------------
(* Multipart uploads.                                                       *)

CreateUpload ==
  /\ ~upload /\ ~Busy(Upload)
  /\ upload' = TRUE /\ partRow' = FALSE /\ partFile' = Absent
  /\ UNCHANGED <<object, file, tagged, request>>

LeavesPart(r, content) == partFile' = IF request[r].clean THEN content ELSE Torn

PartStarts(r) ==
  /\ TakesPlace(r)
  /\ upload
  /\ Starts(r, [NoRequest EXCEPT !.kind = "part", !.from = BigKey])
  /\ partFile' = Torn
  /\ UNCHANGED <<object, file, tagged, upload, partRow>>

PartEnds(r) ==
  /\ At(r, "part", "start")
  /\ LeavesPart(r, "put")
  /\ partRow' = TRUE
  /\ Ends(r)
  /\ UNCHANGED <<object, file, tagged, upload>>

CompleteStarts(r) ==
  /\ TakesPlace(r)
  /\ upload /\ partRow
  /\ Starts(r, [NoRequest EXCEPT !.kind = "complete", !.key = BigKey])
  /\ file' = [file EXCEPT ![BigKey] = Torn]
  /\ UNCHANGED <<object, tagged, upload, partRow, partFile>>

CompleteEnds_KeepsUpload(r) ==
  /\ At(r, "complete", "start")
  /\ object' = [object EXCEPT ![BigKey] = "parts"]
  /\ Leaves(r, BigKey, IF partFile = Torn THEN Torn ELSE "parts")
  /\ tagged' = tagged \ {BigKey}
  /\ Moves(r, "recorded")
  /\ UNCHANGED <<upload, partRow, partFile>>

\* One transaction for the object and the rows of the upload.
CompleteEnds(r) ==
  /\ At(r, "complete", "start")
  /\ object' = [object EXCEPT ![BigKey] = "parts"]
  /\ Leaves(r, BigKey, IF partFile = Torn THEN Torn ELSE "parts")
  /\ tagged' = tagged \ {BigKey}
  /\ upload' = FALSE /\ partRow' = FALSE
  /\ Moves(r, "recorded")
  /\ UNCHANGED partFile

AbortStarts(r) ==
  /\ TakesPlace(r)
  /\ Starts(r, [NoRequest EXCEPT !.kind = "abort", !.from = BigKey, !.at = "recorded"])
  /\ upload' = FALSE /\ partRow' = FALSE
  /\ UNCHANGED <<object, file, tagged, partFile>>

PartsRemoved(r) ==
  /\ At(r, "complete", "recorded") \/ At(r, "abort", "recorded")
  /\ LeavesPart(r, Absent)
  /\ Ends(r)
  /\ UNCHANGED <<object, file, tagged, upload, partRow>>

-----------------------------------------------------------------------------
(* get reads the row; its body opens the file when somebody reads it.       *)

GetStarts(r, k) ==
  /\ TakesPlace(r)
  /\ object[k] # Absent
  /\ Starts(r, [NoRequest EXCEPT !.kind = "get", !.key = k])
  /\ UNCHANGED <<object, file, tagged, upload, partRow, partFile>>

BodyRead(r) ==
  LET k == request[r].key IN
  /\ At(r, "get", "start")
  /\ request' = [request EXCEPT ![r].at = "recorded",
                   ![r].seen = IF file[k] \in {object[k], Torn} THEN {k} ELSE {}]
  /\ UNCHANGED <<object, file, tagged, upload, partRow, partFile>>

(* list: pages of one, from an offset into the rows there are by then.      *)

Rows == {k \in Keys : object[k] # Absent}
AtOffset(n) == {k \in Rows : Cardinality({j \in Rows : j < k}) = n}

ListStarts(r) ==
  /\ TakesPlace(r)
  /\ Starts(r, [NoRequest EXCEPT !.kind = "list", !.key = BigKey])
  /\ UNCHANGED <<object, file, tagged, upload, partRow, partFile>>

ListPage(r) ==
  LET n == request[r].offset IN
  /\ At(r, "list", "start")
  /\ request' = [request EXCEPT ![r].seen = @ \cup AtOffset(n),
                                ![r].offset = IF AtOffset(n + 1) # {} THEN n + 1 ELSE n,
                                ![r].at = IF AtOffset(n + 1) # {} THEN "start" ELSE "recorded"]
  /\ UNCHANGED <<object, file, tagged, upload, partRow, partFile>>

ReadEnds(r) ==
  /\ At(r, "list", "recorded") \/ At(r, "get", "recorded")
  /\ Ends(r)
  /\ UNCHANGED <<object, file, tagged, upload, partRow, partFile>>

\* The process exits in the middle of what it does.
StoreExit ==
  /\ \E r \in Requests : request[r].kind # "none"
  /\ request' = [r \in Requests |-> NoRequest]
  /\ file' = [k \in Keys |-> IF Busy(k) THEN Torn ELSE file[k]]
  /\ partFile' = IF Busy(Upload) THEN Torn ELSE partFile
  /\ UNCHANGED <<object, tagged, upload, partRow>>

StoreNext ==
  \/ CreateUpload \/ StoreExit
  \/ \E r \in Requests :
       \/ \E k \in Keys : PutStarts(r, k) \/ DeleteStarts(r, k) \/ TagStarts(r, k) \/ GetStarts(r, k)
       \/ \E k, from \in Keys : CopyStarts(r, from, k) \/ RenameStarts(r, from, k)
       \/ PutEnds(r) \/ WriteFails(r) \/ DeleteRow(r) \/ DeleteFile(r)
       \/ CopyEnds(r) \/ RenameEnds(r) \/ TagSet(r)
       \/ PartStarts(r) \/ PartEnds(r)
       \/ CompleteStarts(r) \/ CompleteEnds(r)
       \/ AbortStarts(r) \/ PartsRemoved(r)
       \/ ListStarts(r) \/ ListPage(r)
       \/ BodyRead(r) \/ ReadEnds(r)

StoreSpec == StoreInit /\ [][StoreNext]_storeVars

\* Whatever is done to a bucket, the row and the file of an object agree again as
\* soon as one request had it for itself, all its steps included: puts, copies,
\* renames, deletes, rejected digests and completed uploads (FileR2Bucket,
\* handlePutObject).  Rows that are gone leave no tags, an upload that is over
\* leaves no parts, and a listing that nobody disturbs shows every object, as a body
\* that nobody overwrites is the one its metadata tells of.
ObjectsWhole ==
  /\ \A k \in Keys : Busy(k) \/ file[k] \in {object[k], Torn}
  /\ tagged \subseteq Rows
  /\ Busy(Upload) \/ partFile = Torn \/ (upload /\ partRow <=> partFile = "put")
  /\ \A r \in Requests : At(r, "list", "recorded") /\ request[r].clean => request[r].seen = Rows
  /\ \A r \in Requests :
       At(r, "get", "recorded") /\ request[r].clean => request[r].key \in request[r].seen
=============================================================================
