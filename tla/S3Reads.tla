------------------------------- MODULE S3Reads -------------------------------
(***************************************************************************)
(* Ranges and preconditions of the S3 proxy (s3/headers.ts; the handlers   *)
(* of GET, HEAD and PUT in s3/proxy.ts; FileR2Bucket.get): what a client   *)
(* is answered that asks for a part of an object, or for the object only   *)
(* if it has changed.  Files and rows are in ObjectStore.                  *)
(*                                                                         *)
(* Time counts half seconds; the dates of HTTP have whole ones.            *)
(***************************************************************************)
EXTENDS Integers

CONSTANTS
  MaxSize,    \* bound: bytes of an object
  MaxUploaded \* bound: half seconds

ASSUME S3ReadsAssumption == MaxSize \in Nat /\ MaxUploaded \in Nat

VARIABLES
  entity,     \* the object under the key, or NoObject
  asked,      \* what the client asks
  headed,     \* the handler has called r2.head, which said ...
  head,       \* ... this
  answer      \* of the handler

readVars == <<entity, asked, headed, head, answer>>

NoObject == [size |-> 0, etag |-> "none", uploaded |-> 0]
Objects == [size : 0..MaxSize, etag : {"old", "new"}, uploaded : 0..MaxUploaded]

Omitted == -1  \* a number or a date that is left out
Dates == {d \in 0..MaxUploaded : d % 2 = 0} \cup {Omitted}
Tags == {{}, {"old"}, {"*"}}    \* If-Match and If-None-Match; {} when there is none
Bounds == 0..(MaxSize + 1) \cup {Omitted}

NoConditions == [ifMatch |-> {}, ifNoneMatch |-> {}, ifModifiedSince |-> Omitted,
                 ifUnmodifiedSince |-> Omitted]
Conditions == [ifMatch : Tags, ifNoneMatch : Tags, ifModifiedSince : Dates, ifUnmodifiedSince : Dates]

\* bytes=<first>-<last>; a request without a Range header leaves out both.
Wholes == [first |-> Omitted, last |-> Omitted]

\* One of the two is interesting at a time.
ReadRequests ==
  [method : {"GET"}, range : [first : Bounds, last : Bounds], cond : {NoConditions}]
    \cup [method : {"GET", "HEAD", "PUT"}, range : {Wholes}, cond : Conditions]
NoQuestion == [method |-> "none", range |-> Wholes, cond |-> NoConditions]

NoAnswer == [status |-> 0, from |-> 0, to |-> 0, contentRange |-> Wholes, total |-> 0, length |-> 0]

ReadInit ==
  /\ entity = NoObject /\ asked = NoQuestion
  /\ headed = FALSE /\ head = NoObject /\ answer = NoAnswer

\* A client asks for an object that is there, or for one that is not.
ClientAsks ==
  /\ asked = NoQuestion /\ asked' \in ReadRequests
  /\ entity' \in {o \in Objects : o.etag = "old"} \cup {NoObject}
  /\ UNCHANGED <<headed, head, answer>>

-----------------------------------------------------------------------------
\* An R2Range, or null (which has neither offset nor suffix).
Null == [offset |-> Omitted, length |-> Omitted, suffix |-> Omitted]
\* Mutant: the last byte is taken for the first one that is not selected.
ParseRange_HalfOpen(range) ==
  IF range.first = Omitted
    THEN IF range.last = Omitted THEN Null ELSE [Null EXCEPT !.suffix = range.last]
    ELSE [Null EXCEPT !.offset = range.first,
                      !.length = IF range.last = Omitted THEN Omitted ELSE range.last - range.first]

ParseRange(range) ==
  IF range.first = Omitted
    THEN IF range.last = Omitted THEN Null ELSE [Null EXCEPT !.suffix = range.last]
    ELSE [Null EXCEPT !.offset = range.first,
                      !.length = IF range.last = Omitted THEN Omitted ELSE range.last - range.first + 1]

TagsMatch(tags, o) == tags \cap {"*", o.etag} # {}
Second(t) == (t \div 2) * 2

\* Mutant: the time of the upload is compared as it is.
EvaluateConditional_Exact(c, o, method) ==
  CASE c.ifMatch # {} /\ ~TagsMatch(c.ifMatch, o) -> "precondition-failed"
    [] OTHER ->
  CASE c.ifUnmodifiedSince # Omitted /\ o.uploaded > c.ifUnmodifiedSince -> "precondition-failed"
    [] OTHER ->
  CASE c.ifNoneMatch # {} /\ TagsMatch(c.ifNoneMatch, o) ->
         IF method = "read" THEN "not-modified" ELSE "precondition-failed"
    [] OTHER ->
  CASE c.ifModifiedSince # Omitted /\ method = "read" /\ o.uploaded <= c.ifModifiedSince -> "not-modified"
    [] OTHER -> "match"

EvaluateConditional(c, o, method) ==
  LET uploaded == Second(o.uploaded) IN
  CASE c.ifMatch # {} /\ ~TagsMatch(c.ifMatch, o) -> "precondition-failed"
    [] OTHER ->
  CASE c.ifUnmodifiedSince # Omitted /\ uploaded > c.ifUnmodifiedSince -> "precondition-failed"
    [] OTHER ->
  CASE c.ifNoneMatch # {} /\ TagsMatch(c.ifNoneMatch, o) ->
         IF method = "read" THEN "not-modified" ELSE "precondition-failed"
    [] OTHER ->
  CASE c.ifModifiedSince # Omitted /\ method = "read" /\ uploaded <= c.ifModifiedSince -> "not-modified"
    [] OTHER -> "match"

\* FileR2Bucket.get: the part of a file of that size, length below 0 included.
PartOf(range, size) ==
  IF range.suffix # Omitted
    THEN LET offset == IF size > range.suffix THEN size - range.suffix ELSE 0
         IN [offset |-> offset, length |-> size - offset]
    ELSE LET offset == IF range.offset = Omitted THEN 0 ELSE range.offset
             length == IF range.length = Omitted THEN size - offset ELSE range.length
         IN [offset |-> offset, length |-> IF offset + length > size THEN size - offset ELSE length]

\* slice(from, to) of the file.
Clip(n, size) == IF n > size THEN size ELSE n
Says(status) == answer' = [NoAnswer EXCEPT !.status = status]

-----------------------------------------------------------------------------
HeadFirst ==
  /\ asked # NoQuestion /\ ~headed /\ headed' = TRUE
  /\ head' = entity
  /\ UNCHANGED <<entity, asked, answer>>

\* Meanwhile somebody else writes the object.
Overwritten ==
  /\ headed /\ entity.etag = "old"
  /\ entity' \in {o \in Objects : o.etag = "new" /\ o.uploaded >= entity.uploaded} \cup {NoObject}
  /\ UNCHANGED <<asked, headed, head, answer>>

GetObject ==
  LET range == ParseRange(asked.range)
      result == EvaluateConditional(asked.cond, head, "read")
      partial == PartOf(range, entity.size)
      from == Clip(partial.offset, entity.size)
      to == Clip(partial.offset + partial.length, entity.size) IN
  /\ asked.method = "GET"
  /\ CASE head = NoObject -> Says(404)
       [] head # NoObject /\ result = "precondition-failed" -> Says(412)
       [] head # NoObject /\ result = "not-modified" -> Says(304)
       [] head # NoObject /\ result = "match" /\ entity = NoObject -> Says(404)
       [] head # NoObject /\ result = "match" /\ entity # NoObject /\ range = Null ->
            answer' = [NoAnswer EXCEPT !.status = 200, !.to = entity.size, !.length = entity.size]
       [] head # NoObject /\ result = "match" /\ entity # NoObject /\ range # Null ->
            answer' = [status |-> 206, from |-> from, to |-> IF to < from THEN from ELSE to,
                       contentRange |-> [first |-> partial.offset,
                                         last |-> partial.offset + partial.length - 1],
                       total |-> head.size, length |-> partial.length]

HeadObject ==
  LET result == EvaluateConditional(asked.cond, head, "read") IN
  /\ asked.method = "HEAD"
  /\ CASE head = NoObject -> Says(404)
       [] head # NoObject /\ result = "precondition-failed" -> Says(412)
       [] head # NoObject /\ result = "not-modified" -> Says(304)
       [] head # NoObject /\ result = "match" ->
            answer' = [NoAnswer EXCEPT !.status = 200, !.length = head.size]

PutObject ==
  LET c == asked.cond IN
  /\ asked.method = "PUT"
  /\ CASE c.ifMatch = {} /\ c.ifNoneMatch = {} /\ c.ifUnmodifiedSince = Omitted -> Says(200)
       [] OTHER ->
     IF head = NoObject THEN Says(IF c.ifMatch # {} THEN 412 ELSE 200)
     ELSE Says(IF EvaluateConditional(c, head, "write") = "match" THEN 200 ELSE 412)

ReadNext ==
  /\ answer.status = 0
  /\ \/ ClientAsks \/ HeadFirst \/ Overwritten
     \/ /\ headed /\ (GetObject \/ HeadObject \/ PutObject)
        /\ UNCHANGED <<entity, asked, headed, head>>

ReadSpec == ReadInit /\ [][ReadNext]_readVars

-----------------------------------------------------------------------------
ReadType ==
  /\ entity \in Objects \cup {NoObject} /\ head \in Objects \cup {NoObject}
  /\ asked \in ReadRequests \cup {NoQuestion} /\ headed \in BOOLEAN /\ answer.status \in {0, 200, 206, 304, 404, 412}

\* RFC 7232, section 6: If-Unmodified-Since counts only without If-Match, and
\* If-Modified-Since only without If-None-Match; a date is compared in seconds.
Unchanged(o, d) == o.uploaded \div 2 <= d \div 2
Proceeds(c, o) ==
  /\ c.ifMatch # {} => TagsMatch(c.ifMatch, o)
  /\ c.ifMatch = {} /\ c.ifUnmodifiedSince # Omitted => Unchanged(o, c.ifUnmodifiedSince)
NotModified(c, o) ==
  \/ c.ifNoneMatch # {} /\ TagsMatch(c.ifNoneMatch, o)
  \/ c.ifNoneMatch = {} /\ c.ifModifiedSince # Omitted /\ Unchanged(o, c.ifModifiedSince)
Combined(c) ==
  \/ c.ifMatch # {} /\ c.ifUnmodifiedSince # Omitted
  \/ c.ifNoneMatch # {} /\ c.ifModifiedSince # Omitted

\* The positions a satisfiable range names in an object.
Positions(range, size) ==
  {i \in 0..(size - 1) :
     IF range.first = Omitted THEN i >= size - range.last
     ELSE i >= range.first /\ (range.last = Omitted \/ i <= range.last)}

\* What is given, the preconditions allow.
GivenTrue ==
  LET c == asked.cond IN
  answer.status \in {200, 206} /\ head # NoObject =>
    Proceeds(c, head) /\ ~(asked.method # "PUT" /\ NotModified(c, head))

\* The status a single condition asks for.
Status(c, o, read) ==
  CASE ~Proceeds(c, o) -> {412}
    [] Proceeds(c, o) /\ read -> IF NotModified(c, o) THEN {304} ELSE {200, 206}
    [] OTHER -> IF c.ifNoneMatch # {} /\ TagsMatch(c.ifNoneMatch, o) THEN {412} ELSE {200}
StatusTrue ==
  answer.status # 0 /\ head # NoObject /\ entity = head /\ ~Combined(asked.cond) =>
    answer.status \in Status(asked.cond, head, asked.method # "PUT")

\* The part of the object that is named and sent.
PartTrue ==
  LET selected == Positions(asked.range, entity.size) IN
  answer.status # 0 /\ asked.method = "GET" /\ asked.range # Wholes /\ head = entity /\ selected # {} =>
    /\ answer.status = 206
    /\ answer.from..(answer.to - 1) = selected
    /\ answer.contentRange.first..answer.contentRange.last = selected
    /\ answer.length = answer.to - answer.from /\ answer.total = entity.size

\* What is asked for under a condition is given only where RFC 7232 gives it, and always,
\* unless two conditions are combined of which one does not count; a range that selects
\* bytes gives these, and Content-Range and Content-Length name them, as long as nobody
\* writes the object meanwhile (parseRange, evaluateConditional, handleGetObject, get).
ReadsTrue == ReadType /\ GivenTrue /\ StatusTrue /\ PartTrue
=============================================================================
