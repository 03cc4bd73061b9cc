---------------------------- MODULE ServiceProofs ----------------------------
(*****************************************************************************)
(* What holds of the bindings and servers that MCServices runs, for any      *)
(* number of callers, objects, keys, migrations and clients, and for objects *)
(* of any size.                                                              *)
(*****************************************************************************)
EXTENDS S3Reads, Transactions, ObjectStore, ObjectSockets, Cron, ViteServer, Bindings, Watching,
        Artifacts, KeyStore, Tracing, FiniteSetTheorems, SequenceTheorems, WellFoundedInduction, TLAPS

\* Every set of numbers that is not empty has a least one.
LEMMA LeastNumber ==
  ASSUME NEW T, T \subseteq Nat, T # {}
  PROVE  \E m \in T : \A n \in T : m <= n
<1> DEFINE R == OpToRel(<, Nat)
<1>1. IsWellFoundedOn(R, Nat)
  BY NatLessThanWellFounded, Zenon
<1>2. \A n, m \in Nat : n < m => <<n, m>> \in R
  BY DEF OpToRel
<1> HIDE DEF R
<1>3. PICK m \in T : \A n \in T : ~(<<n, m>> \in R)
  BY <1>1, WFMin, Zenon
<1>4. \A n \in T : ~(n < m)
  BY <1>2, <1>3
<1> QED BY <1>4

\* A set of numbers that is bounded has a greatest one.
LEMMA GreatestNumber ==
  ASSUME NEW b \in Nat, NEW T, T \subseteq 0..b, T # {}
  PROVE  \E m \in T : \A n \in T : n <= m
<1> DEFINE U == {b - t : t \in T}
<1>1. U \subseteq Nat /\ U # {}
  <2>1. \A t \in 0..b : b - t \in Nat
    OBVIOUS
  <2>2. \A t \in T : b - t \in Nat
    BY <2>1
  <2> QED BY <2>2
<1>2. PICK u \in U : \A n \in U : u <= n
  <2> HIDE DEF U
  <2> QED BY <1>1, LeastNumber
<1>3. PICK m \in T : u = b - m
  BY <1>2
<1>4. \A n \in T : u <= b - n
  BY <1>2
<1>5. ASSUME NEW n \in T PROVE n <= m
  BY <1>3, <1>4
<1> QED BY <1>5

-----------------------------------------------------------------------------
(* Reads and conditional requests of R2 (S3Reads).                         *)

\* A request has either conditions or a range.
LEMMA RequestShape ==
  ASSUME NEW q \in ReadRequests \cup {NoQuestion}
  PROVE  /\ q.cond \in Conditions
         /\ q.range \in [first : Bounds, last : Bounds]
         /\ q.range = Wholes \/ (q.cond = NoConditions /\ q.method = "GET")
<1>1. Omitted \in Dates /\ Omitted \in Bounds /\ {} \in Tags
  BY DEF Dates, Bounds, Tags
<1>2. NoConditions \in Conditions /\ Wholes \in [first : Bounds, last : Bounds]
  BY <1>1 DEF NoConditions, Conditions, Wholes
<1>3. QED
  BY <1>2 DEF ReadRequests, NoQuestion

\* Rounding the time of the upload down compares dates as HTTP does.
LEMMA SecondsCompare ==
  ASSUME NEW t \in Nat, NEW d \in Nat, d % 2 = 0
  PROVE  Second(t) <= d <=> t \div 2 <= d \div 2
BY DEF Second

\* evaluateConditional says what RFC 7232 says of conditions that are not combined,
\* and is never more generous.
LEMMA EvaluatesConditions ==
  ASSUME NEW c \in Conditions, NEW o \in Objects, NEW method \in {"read", "write"}
  PROVE  LET result == EvaluateConditional(c, o, method) IN
         /\ result \in {"match", "not-modified", "precondition-failed"}
         /\ result = "not-modified" => method = "read"
         /\ result = "match" => Proceeds(c, o) /\ (method = "read" => ~NotModified(c, o))
         /\ ~Combined(c) =>
              /\ ~Proceeds(c, o) => result = "precondition-failed"
              /\ Proceeds(c, o) /\ method = "read" => result # "precondition-failed"
              /\ Proceeds(c, o) /\ method = "read" /\ ~NotModified(c, o) => result = "match"
              /\ Proceeds(c, o) /\ method = "write" =>
                   (result = "match" <=> ~(c.ifNoneMatch # {} /\ TagsMatch(c.ifNoneMatch, o)))
<1>1. o.uploaded \in Nat
  BY S3ReadsAssumption DEF Objects
<1>2. /\ c.ifUnmodifiedSince # Omitted =>
           (Second(o.uploaded) > c.ifUnmodifiedSince <=> ~Unchanged(o, c.ifUnmodifiedSince))
      /\ c.ifModifiedSince # Omitted =>
           (Second(o.uploaded) <= c.ifModifiedSince <=> Unchanged(o, c.ifModifiedSince))
  <2>1. \A d \in Dates : d # Omitted => d \in Nat /\ d % 2 = 0
    BY S3ReadsAssumption DEF Dates
  <2>2. c.ifUnmodifiedSince \in Dates /\ c.ifModifiedSince \in Dates
    BY DEF Conditions
  <2>3. Second(o.uploaded) \in Int
    BY <1>1 DEF Second
  <2>4. QED
    BY <1>1, <2>1, <2>2, <2>3, SecondsCompare DEF Unchanged
<1>3. QED
  BY <1>2, Zenon DEF EvaluateConditional, Proceeds, NotModified, Combined

\* A range that selects bytes of an object becomes an offset and a length within it.
LEMMA RangeSelects ==
  ASSUME NEW range \in [first : Bounds, last : Bounds], range # Wholes,
         NEW size \in Nat, Positions(range, size) # {}
  PROVE  LET part == PartOf(ParseRange(range), size) IN
         /\ ParseRange(range) # Null
         /\ part.offset \in Nat /\ part.length \in Nat \ {0}
         /\ part.offset + part.length <= size
         /\ part.offset..(part.offset + part.length - 1) = Positions(range, size)
<1> DEFINE r == ParseRange(range)
           part == PartOf(r, size)
<1>1. /\ range = [first |-> range.first, last |-> range.last]
      /\ range.first \in Nat \cup {-1} /\ range.last \in Nat \cup {-1}
  BY S3ReadsAssumption DEF Bounds, Omitted
<1>2. PICK i \in Positions(range, size) : TRUE
  OBVIOUS
<1>3. i \in 0..(size - 1)
  BY <1>2 DEF Positions
<1>4. CASE range.first = -1
  <2>1. range.last \in Nat
    BY <1>1, <1>4 DEF Wholes, Omitted
  <2>2. r = [offset |-> -1, length |-> -1, suffix |-> range.last]
    BY <1>4, <2>1 DEF ParseRange, Null, Omitted
  <2>3. i >= size - range.last
    BY <1>2, <1>4 DEF Positions, Omitted
  <2>4. part = [offset |-> IF size > range.last THEN size - range.last ELSE 0,
                length |-> size - (IF size > range.last THEN size - range.last ELSE 0)]
    BY <2>1, <2>2 DEF PartOf, Omitted
  <2>5. Positions(range, size) = {j \in 0..(size - 1) : j >= size - range.last}
    BY <1>4 DEF Positions, Omitted
  <2>6. QED
    BY <1>3, <2>1, <2>2, <2>3, <2>4, <2>5 DEF Null, Omitted
<1>5. CASE range.first \in Nat /\ range.last = -1
  <2>1. r = [offset |-> range.first, length |-> -1, suffix |-> -1]
    BY <1>5 DEF ParseRange, Null, Omitted
  <2>2. Positions(range, size) = {j \in 0..(size - 1) : j >= range.first}
    BY <1>5 DEF Positions, Omitted
  <2>3. part = [offset |-> range.first, length |-> size - range.first]
    BY <1>5, <2>1 DEF PartOf, Omitted
  <2>4. QED
    BY <1>2, <1>3, <1>5, <2>1, <2>2, <2>3 DEF Null, Omitted
<1>6. CASE range.first \in Nat /\ range.last \in Nat
  <2>0. range.first # Omitted /\ range.last # Omitted
    BY <1>6 DEF Omitted
  <2>1. r = [offset |-> range.first, length |-> range.last - range.first + 1, suffix |-> -1]
    BY <2>0, Zenon DEF ParseRange, Null, Omitted
  <2>2. Positions(range, size) = {j \in 0..(size - 1) : j >= range.first /\ j <= range.last}
    BY <1>6 DEF Positions, Omitted
  <2>3. range.last - range.first + 1 > 0
    BY <1>2, <1>3, <1>6, <2>2
  <2>4. part = [offset |-> range.first,
                length |-> IF range.last + 1 > size THEN size - range.first
                           ELSE range.last - range.first + 1]
    BY <1>6, <2>1, <2>3 DEF PartOf, Omitted
  <2>5. QED
    BY <1>2, <1>3, <1>6, <2>1, <2>2, <2>3, <2>4 DEF Null, Omitted
<1>7. QED
  BY <1>1, <1>4, <1>5, <1>6

LEMMA SaysStatus ==
  ASSUME NEW status, Says(status)
  PROVE  answer'.status = status
BY DEF Says, NoAnswer

\* What it takes for an answer to be true, once it is given.
LEMMA AnswerJudged ==
  ASSUME ReadType', UNCHANGED <<entity, asked, headed, head>>,
         LET c == asked.cond
             reading == asked.method # "PUT"
             selected == Positions(asked.range, entity.size) IN
         /\ answer'.status \in {200, 206} /\ head # NoObject =>
              Proceeds(c, head) /\ ~(reading /\ NotModified(c, head))
         /\ head # NoObject /\ entity = head /\ ~Combined(c) =>
              /\ ~Proceeds(c, head) => answer'.status = 412
              /\ Proceeds(c, head) /\ reading /\ NotModified(c, head) => answer'.status = 304
              /\ Proceeds(c, head) /\ reading /\ ~NotModified(c, head) => answer'.status \in {200, 206}
              /\ Proceeds(c, head) /\ ~reading /\ c.ifNoneMatch # {} /\ TagsMatch(c.ifNoneMatch, head) =>
                   answer'.status = 412
              /\ Proceeds(c, head) /\ ~reading /\ ~(c.ifNoneMatch # {} /\ TagsMatch(c.ifNoneMatch, head)) =>
                   answer'.status = 200
         /\ asked.range # Wholes /\ head = entity /\ selected # {} /\ asked.method = "GET" =>
              /\ answer'.status = 206
              /\ answer'.from..(answer'.to - 1) = selected
              /\ answer'.contentRange.first..answer'.contentRange.last = selected
              /\ answer'.length = answer'.to - answer'.from /\ answer'.total = entity.size
  PROVE  ReadsTrue'
<1>1. entity' = entity /\ asked' = asked /\ head' = head
  OBVIOUS
<1>2. GivenTrue'
  BY <1>1 DEF GivenTrue
<1>3. StatusTrue'
  BY <1>1 DEF StatusTrue, Status
<1>4. PartTrue'
  BY <1>1 DEF PartTrue
<1>5. QED
  BY <1>2, <1>3, <1>4 DEF ReadsTrue

\* The answer of HEAD.
LEMMA HeadAnswersTrue ==
  ASSUME ReadType, answer.status = 0, HeadObject, UNCHANGED <<entity, asked, headed, head>>
  PROVE  ReadsTrue'
<1> DEFINE c == asked.cond
           result == EvaluateConditional(c, head, "read")
<1>1. asked \in ReadRequests \cup {NoQuestion} /\ asked.method = "HEAD"
  BY DEF HeadObject, ReadType
<1>2. c \in Conditions /\ asked.range = Wholes
  BY <1>1, RequestShape
<1>3. head = NoObject \/ head \in Objects
  BY DEF ReadType
<1>4. CASE head = NoObject
  <2>1. answer'.status = 404
    BY <1>4 DEF HeadObject, Says, NoAnswer
  <2>2. QED
    <3>1. ReadType'
      BY <2>1 DEF ReadType
    <3>2. QED
      BY <1>1, <1>2, <1>4, <2>1, <3>1, AnswerJudged
<1>5. CASE head # NoObject
  <2>1. head \in Objects
    BY <1>3, <1>5
  <2>2. /\ result \in {"match", "not-modified", "precondition-failed"}
        /\ result = "match" => Proceeds(c, head) /\ ~NotModified(c, head)
        /\ ~Combined(c) =>
             /\ ~Proceeds(c, head) => result = "precondition-failed"
             /\ Proceeds(c, head) => result # "precondition-failed"
             /\ Proceeds(c, head) /\ ~NotModified(c, head) => result = "match"
    BY <1>2, <2>1, EvaluatesConditions
  <2>3. /\ result = "precondition-failed" => Says(412)
        /\ result = "not-modified" => Says(304)
        /\ result = "match" => answer' = [NoAnswer EXCEPT !.status = 200, !.length = head.size]
    <3> HIDE DEF result
    <3>1. CASE result = "precondition-failed"
      BY <1>5, <3>1 DEF HeadObject, result
    <3>2. CASE result = "not-modified"
      BY <1>5, <3>2 DEF HeadObject, result
    <3>3. CASE result = "match"
      BY <1>5, <3>3 DEF HeadObject, result
    <3>4. QED
      BY <2>2, <3>1, <3>2, <3>3
  <2> HIDE DEF result
  <2>4. answer'.status \in {200, 304, 412} /\ (answer'.status = 200 <=> result = "match")
          /\ (answer'.status = 304 <=> result = "not-modified")
    <3>1. result = "precondition-failed" => answer'.status = 412
      BY <2>3, SaysStatus
    <3>2. result = "not-modified" => answer'.status = 304
      BY <2>3, SaysStatus
    <3>3. result = "match" => answer'.status = 200
      <4>1. [NoAnswer EXCEPT !.status = 200, !.length = head.size].status = 200
        BY DEF NoAnswer
      <4>2. QED
        BY <2>3, <4>1, Zenon
    <3>4. QED
      BY <2>2, <3>1, <3>2, <3>3
  <2>5. ReadType'
    BY <2>4 DEF ReadType
  <2>6. QED
    BY <1>1, <1>2, <1>5, <2>2, <2>4, <2>5, AnswerJudged
<1>6. QED
  BY <1>4, <1>5

\* The answer of PUT.
LEMMA PutAnswersTrue ==
  ASSUME ReadType, answer.status = 0, PutObject, UNCHANGED <<entity, asked, headed, head>>
  PROVE  ReadsTrue'
<1> DEFINE c == asked.cond
           result == EvaluateConditional(c, head, "write")
           free == c.ifMatch = {} /\ c.ifNoneMatch = {} /\ c.ifUnmodifiedSince = Omitted
<1>1. asked \in ReadRequests \cup {NoQuestion} /\ asked.method = "PUT"
  BY DEF PutObject, ReadType
<1>2. c \in Conditions /\ asked.range = Wholes
  BY <1>1, RequestShape
<1>3. answer'.status \in {200, 412}
  BY DEF PutObject, Says, NoAnswer
<1>4. ReadType'
  BY <1>3 DEF ReadType
<1>5. CASE head = NoObject
  BY <1>2, <1>4, <1>5 DEF ReadsTrue, GivenTrue, StatusTrue, PartTrue
<1>6. CASE head # NoObject
  <2>1. head \in Objects
    BY <1>6 DEF ReadType
  <2>2. /\ result = "match" => Proceeds(c, head)
        /\ ~Combined(c) =>
             /\ ~Proceeds(c, head) => result = "precondition-failed"
             /\ Proceeds(c, head) =>
                  (result = "match" <=> ~(c.ifNoneMatch # {} /\ TagsMatch(c.ifNoneMatch, head)))
    BY <1>2, <2>1, EvaluatesConditions
  <2>3. ~free => answer'.status = IF result = "match" THEN 200 ELSE 412
    BY <1>6 DEF PutObject, Says, NoAnswer
  <2>4. free => answer'.status = 200 /\ Proceeds(c, head)
    BY DEF PutObject, Says, NoAnswer, Proceeds
  <2>5. answer'.status = 200 => Proceeds(c, head)
    BY <2>2, <2>3, <2>4
  <2>6. ~Combined(c) =>
          /\ ~Proceeds(c, head) => answer'.status = 412
          /\ Proceeds(c, head) /\ c.ifNoneMatch # {} /\ TagsMatch(c.ifNoneMatch, head) =>
               answer'.status = 412
          /\ Proceeds(c, head) /\ ~(c.ifNoneMatch # {} /\ TagsMatch(c.ifNoneMatch, head)) =>
               answer'.status = 200
    BY <2>2, <2>3, <2>4
  <2> HIDE DEF result, free
  <2>7. asked.method = "PUT" /\ asked.method # "GET"
    BY <1>1
  <2>8. entity' = entity /\ asked' = asked /\ head' = head
    OBVIOUS
  <2>9. GivenTrue'
    BY <1>3, <2>5, <2>7, <2>8 DEF GivenTrue
  <2>10. StatusTrue'
    BY <2>6, <2>7, <2>8 DEF StatusTrue, Status
  <2>11. PartTrue'
    BY <2>7, <2>8 DEF PartTrue
  <2>12. QED
    BY <1>4, <2>9, <2>10, <2>11 DEF ReadsTrue
<1>7. QED
  BY <1>5, <1>6

\* The answer of GET: a request that has conditions has no range.
LEMMA GetAnswersTrue ==
  ASSUME ReadType, answer.status = 0, GetObject, UNCHANGED <<entity, asked, headed, head>>
  PROVE  ReadsTrue'
<1> DEFINE c == asked.cond
           result == EvaluateConditional(c, head, "read")
           range == ParseRange(asked.range)
           part == PartOf(range, entity.size)
           from == Clip(part.offset, entity.size)
           to == Clip(part.offset + part.length, entity.size)
           selected == Positions(asked.range, entity.size)
<1>1. asked \in ReadRequests \cup {NoQuestion} /\ asked.method = "GET"
  BY DEF GetObject, ReadType
<1>2. /\ c \in Conditions /\ asked.range \in [first : Bounds, last : Bounds]
      /\ asked.range = Wholes \/ c = NoConditions
  BY <1>1, RequestShape
<1>3. CASE head = NoObject
  <2>1. answer'.status = 404
    BY <1>3 DEF GetObject, Says, NoAnswer
  <2>2. ReadType'
    BY <2>1 DEF ReadType
  <2>3. entity = NoObject => Positions(asked.range, entity.size) = {}
    BY DEF Positions, NoObject
  <2>4. QED
    BY <1>3, <2>1, <2>2, <2>3 DEF ReadsTrue, GivenTrue, StatusTrue, PartTrue
<1>4. CASE head # NoObject
  <2>1. head \in Objects
    BY <1>4 DEF ReadType
  <2>2. /\ result \in {"match", "not-modified", "precondition-failed"}
        /\ result = "match" => Proceeds(c, head) /\ ~NotModified(c, head)
        /\ ~Combined(c) =>
             /\ ~Proceeds(c, head) => result = "precondition-failed"
             /\ Proceeds(c, head) => result # "precondition-failed"
             /\ Proceeds(c, head) /\ ~NotModified(c, head) => result = "match"
    BY <1>2, <2>1, EvaluatesConditions
  <2>3. CASE result # "match"
    <3>1. /\ result = "precondition-failed" => answer'.status = 412
          /\ result = "not-modified" => answer'.status = 304
      <4>1. /\ result = "precondition-failed" => Says(412)
            /\ result = "not-modified" => Says(304)
        BY <1>4, Zenon DEF GetObject
      <4>2. QED
        BY <4>1, SaysStatus
    <3>2. c # NoConditions
      BY <2>3 DEF EvaluateConditional, NoConditions, TagsMatch
    <3>3. ReadType'
      BY <2>2, <2>3, <3>1 DEF ReadType
    <3> HIDE DEF result
    <3>4. QED
      BY <1>1, <1>2, <1>4, <2>2, <2>3, <3>1, <3>2, <3>3, AnswerJudged
  <2>4. CASE result = "match"
    <3>1. Proceeds(c, head) /\ ~NotModified(c, head)
      BY <2>2, <2>4
    <3>2. CASE entity = NoObject
      <4>1. answer'.status = 404
        BY <1>4, <2>4, <3>2 DEF GetObject, Says, NoAnswer
      <4>2. ReadType'
        BY <4>1 DEF ReadType
      <4>3. QED
        BY <1>4, <3>1, <3>2, <4>1, <4>2 DEF ReadsTrue, GivenTrue, StatusTrue, PartTrue
    <3>3. CASE entity # NoObject /\ range = Null
      <4>1. answer'.status = 200
        <5>1. answer' = [NoAnswer EXCEPT !.status = 200, !.to = entity.size, !.length = entity.size]
          BY <1>4, <2>4, <3>3, Zenon DEF GetObject
        <5>2. [NoAnswer EXCEPT !.status = 200, !.to = entity.size, !.length = entity.size].status = 200
          BY DEF NoAnswer
        <5>3. QED
          BY <5>1, <5>2
      <4>2. ReadType'
        BY <4>1 DEF ReadType
      <4>3. entity.size \in Nat
        BY <3>3, S3ReadsAssumption DEF ReadType, Objects
      <4>4. asked.range = Wholes \/ selected = {}
        BY <1>2, <3>3, <4>3, RangeSelects
      <4> HIDE DEF selected
      <4>5. QED
        BY <1>1, <1>4, <3>1, <4>1, <4>2, <4>4, AnswerJudged DEF selected
    <3>4. CASE entity # NoObject /\ range # Null
      <4>1. answer' = [status |-> 206, from |-> from, to |-> IF to < from THEN from ELSE to,
                       contentRange |-> [first |-> part.offset, last |-> part.offset + part.length - 1],
                       total |-> head.size, length |-> part.length]
        BY <1>4, <2>4, <3>4 DEF GetObject
      <4>2. ReadType' /\ answer'.status = 206
        BY <4>1 DEF ReadType
      <4>3. entity.size \in Nat
        BY <3>4, S3ReadsAssumption DEF ReadType, Objects
      <4>4. ASSUME asked.range # Wholes, head = entity, selected # {}
            PROVE  /\ answer'.from..(answer'.to - 1) = selected
                   /\ answer'.contentRange.first..answer'.contentRange.last = selected
                   /\ answer'.length = answer'.to - answer'.from /\ answer'.total = entity.size
        <5>1. /\ part.offset \in Nat /\ part.length \in Nat \ {0}
              /\ part.offset + part.length <= entity.size
              /\ part.offset..(part.offset + part.length - 1) = selected
          BY <1>2, <4>3, <4>4, RangeSelects
        <5> HIDE DEF part, selected
        <5>2. from = part.offset /\ to = part.offset + part.length
          BY <4>3, <5>1 DEF Clip
        <5> HIDE DEF from, to
        <5>3. QED
          BY <4>1, <4>3, <4>4, <5>1, <5>2
      <4> HIDE DEF selected, from, to, part
      <4>5. QED
        BY <1>1, <1>4, <3>1, <4>2, <4>4, AnswerJudged DEF selected
    <3>5. QED
      BY <3>2, <3>3, <3>4
  <2>5. QED
    BY <2>3, <2>4
<1>5. QED
  BY <1>3, <1>4

\* Whatever a client asks, with whatever conditions, of an object of any size that was
\* uploaded at any time, and whoever writes it meanwhile: the S3 proxy answers as
\* ReadsTrue says (handleGetObject, handleHeadObject, handlePutObject).
THEOREM ReadsAlwaysTrue == ReadSpec => []ReadsTrue
<1>1. ReadInit => ReadsTrue
  <2>1. SUFFICES ASSUME ReadInit PROVE ReadsTrue
    OBVIOUS
  <2>2. answer.status = 0
    BY <2>1 DEF ReadInit, NoAnswer
  <2>3. ReadType
    BY <2>1, <2>2 DEF ReadInit, ReadType
  <2>4. QED
    BY <2>2, <2>3 DEF ReadsTrue, GivenTrue, StatusTrue, PartTrue
<1>2. ReadsTrue /\ [ReadNext]_readVars => ReadsTrue'
  <2>1. SUFFICES ASSUME ReadsTrue, ReadNext PROVE ReadsTrue'
    BY DEF readVars, ReadsTrue, ReadType, GivenTrue, StatusTrue, PartTrue
  <2>2. ReadType /\ answer.status = 0
    BY <2>1 DEF ReadsTrue, ReadNext
  <2>3. ASSUME ReadType', answer'.status = 0 PROVE ReadsTrue'
    BY <2>3 DEF ReadsTrue, GivenTrue, StatusTrue, PartTrue
  <2>4. CASE ClientAsks
    BY <2>2, <2>3, <2>4 DEF ClientAsks, ReadType
  <2>5. CASE HeadFirst
    BY <2>2, <2>3, <2>5 DEF HeadFirst, ReadType
  <2>6. CASE Overwritten
    BY <2>2, <2>3, <2>6 DEF Overwritten, ReadType
  <2>7. CASE GetObject /\ UNCHANGED <<entity, asked, headed, head>>
    BY <2>2, <2>7, GetAnswersTrue
  <2>8. CASE HeadObject /\ UNCHANGED <<entity, asked, headed, head>>
    BY <2>2, <2>8, HeadAnswersTrue
  <2>9. CASE PutObject /\ UNCHANGED <<entity, asked, headed, head>>
    BY <2>2, <2>9, PutAnswersTrue
  <2>10. QED
    BY <2>1, <2>4, <2>5, <2>6, <2>7, <2>8, <2>9 DEF ReadNext
<1>3. QED
  BY <1>1, <1>2, PTL DEF ReadSpec

-----------------------------------------------------------------------------
(* Transactions.  Who has the connection decides where a write goes, and   *)
(* what a call has written follows from where it stands: LockHeld and       *)
(* CallWrites are what the steps hand on.                                   *)

\* Who has the connection: an open transaction is the one of `begun', at the head of the
\* chain; whoever waits for the lock stands in the chain; nothing is unwritten without
\* a transaction.
InLine(t) == \E i \in 1..Len(line) : line[i] = t
LockHeld ==
  /\ begun = Nobody => dirty = {}
  /\ begun # Nobody => task[begun].at = "open" /\ line # <<>> /\ Head(line) = begun
  /\ \A t \in Tasks : task[t].at = "open" => begun = t /\ task[t].kind = "transaction"
  /\ \A t \in Tasks : task[t].at = "waiting" /\ Locks(task[t].kind) => InLine(t)
  /\ \A t \in Tasks : task[t].kind = "none" <=> task[t].at = "idle"
  /\ \A t \in Tasks : Offered(task[t].kind)

\* What each call has written, and where it is.
Undone(t) == task[t].at \in {"idle", "waiting"} \/ (task[t].at = "failed" /\ task[t].kind # "script")
AllOrNone(S, t) == <<t, 1>> \in S <=> <<t, 2>> \in S
CallWrites(t) ==
  /\ task[t].at = "waiting" => task[t].done = 0
  /\ Undone(t) => \A i \in Statements : <<t, i>> \notin committed \cup dirty
  /\ task[t].at = "open" =>
       \A i \in Statements : <<t, i>> \notin committed /\ (<<t, i>> \in dirty <=> i <= task[t].done)
  /\ task[t].at = "ok" /\ task[t].kind \in {"several", "sync", "transaction"} =>
       AllOrNone(committed, t) /\ AllOrNone(dirty, t)

\* What callers were told.
Promises ==
  /\ \A t \in Tasks, i \in Statements : <<t, i>> \in kept => task[t].at = "ok"
  /\ kept \subseteq committed \cup dirty \cup exposed
  /\ binding = "d1" => exposed = {} /\ kept \subseteq committed /\ dirty \subseteq {begun} \X Statements

\* A file that a migrator has not before it is in the database, or in nobody's way.
FilesInOrder ==
  /\ \A f, g \in Migrations : g < f /\ <<"file", f>> \in committed => <<"file", g>> \in committed
  /\ \A m \in Migrators :
       /\ migrator[m].todo # {} =>
            \A f \in Migrations : f \in migrator[m].todo \/ <<"file", f>> \in committed
       /\ migrator[m].open # 0 =>
            migrator[m].open \in migrator[m].todo /\ \A g \in migrator[m].todo : migrator[m].open <= g

TxnInv == TxnType /\ LockHeld /\ (\A t \in Tasks : CallWrites(t)) /\ Promises /\ FilesInOrder

-----------------------------------------------------------------------------
LEMMA MigrationNumbers == Migrations \subseteq Nat \ {0}
  BY TxnAssumption, FS_CardinalityType

LEMMA TxnInitially == TxnInit => TxnInv
  <1> SUFFICES ASSUME TxnInit PROVE TxnInv
    OBVIOUS
  <1> USE TxnAssumption, MigrationNumbers
  <1>1. TxnType
    BY DEF TxnInit, TxnType, NoCall, CallKinds, CallStates
  <1>2. LockHeld
    BY DEF TxnInit, LockHeld, NoCall, Offered
  <1>3. \A t \in Tasks : CallWrites(t)
    BY DEF TxnInit, CallWrites, NoCall
  <1>4. Promises
    BY DEF TxnInit, Promises
  <1>5. FilesInOrder
    BY DEF TxnInit, FilesInOrder
  <1> QED BY <1>1, <1>2, <1>3, <1>4, <1>5 DEF TxnInv

\* Whoever leaves the lock stood at the head of the chain.
LEMMA HeadTurn ==
  ASSUME TxnInv, NEW t \in Tasks, Locks(task[t].kind),
         HasTurn(t) \/ task[t].at = "open"
  PROVE  line # <<>> /\ Head(line) = t
  <1>1. CASE task[t].at = "open"
    BY <1>1, TxnAssumption DEF TxnInv, LockHeld
  <1>2. CASE HasTurn(t)
    BY <1>2 DEF TxnInv, LockHeld, HasTurn, TxnType, InLine
  <1> QED BY <1>1, <1>2

LEMMA UnlockLine ==
  ASSUME TxnInv, NEW t \in Tasks, HasTurn(t) \/ task[t].at = "open", Unlock(t)
  PROVE  /\ line' \in Seq(Tasks)
         /\ \A u \in Tasks \ {t} : InLine(u) => InLine(u)'
         /\ begun \notin {Nobody, t} => line' # <<>> /\ Head(line') = begun
  <1> USE DEF TxnInv
  <1>0. line \in Seq(Tasks)
    BY DEF TxnType
  <1>1. CASE ~Locks(task[t].kind)
    BY <1>0, <1>1 DEF Unlock, InLine, LockHeld
  <1>2. CASE Locks(task[t].kind)
    <2>1. line # <<>> /\ Head(line) = t /\ line' = Tail(line)
      BY <1>2, HeadTurn DEF Unlock
    <2>2. line' \in Seq(Tasks) /\ Len(line') = Len(line) - 1 /\ \A i \in 1..Len(line') : line'[i] = line[i + 1]
      BY <1>0, <2>1
    <2>3. ASSUME NEW u \in Tasks \ {t}, InLine(u) PROVE InLine(u)'
      <3>1. PICK i \in 1..Len(line) : line[i] = u
        BY <2>3 DEF InLine
      <3>2. i - 1 \in 1..Len(line') /\ line'[i - 1] = u
        BY <3>1, <2>1, <2>2, <1>0
      <3> QED BY <3>2 DEF InLine
    <2>4. begun \notin {Nobody, t} => FALSE
      BY <2>1 DEF LockHeld
    <2> QED BY <2>2, <2>3, <2>4
  <1> QED BY <1>1, <1>2


LEMMA TxnTypeStep ==
  ASSUME TxnInv, [TxnNext]_txnVars PROVE TxnType'
  <1> USE TxnAssumption, MigrationNumbers DEF TxnInv
  <1>0. /\ line \in Seq(Tasks) /\ TxnType
        /\ task \in [Tasks -> [kind : CallKinds, at : CallStates, done : 0..2]]
    BY DEF TxnType
  <1>1. ASSUME NEW t \in Tasks, NEW kind \in CallKinds \ {"none"}, Asks(t, kind) PROVE TxnType'
    <2>1. line' \in Seq(Tasks)
      BY <1>0, <1>1 DEF Asks
    <2>2. task' \in [Tasks -> [kind : CallKinds, at : CallStates, done : 0..2]]
      BY <1>0, <1>1 DEF Asks, CallStates
    <2> QED BY <1>1, <2>1, <2>2 DEF TxnType, Asks
  <1>2. ASSUME NEW t \in Tasks, Runs(t) PROVE TxnType'
    <2>1. line' \in Seq(Tasks)
      BY <1>2, UnlockLine DEF Runs, Over, AtOnce
    <2>2. task' \in [Tasks -> [kind : CallKinds, at : CallStates, done : 0..2]]
      BY <1>0, <1>2 DEF Runs, Over, CallStates
    <2>3. committed' \subseteq Effects /\ dirty' \subseteq Tasks \X Statements /\ kept' \subseteq Tasks \X Statements
      BY <1>0, <1>2 DEF Runs, Write, TxnType, Effects, Statements
    <2> QED BY <1>2, <2>1, <2>2, <2>3 DEF TxnType, Runs
  <1>3. ASSUME NEW t \in Tasks, RunFails(t) PROVE TxnType'
    <2>1. line' \in Seq(Tasks)
      BY <1>3, UnlockLine DEF RunFails, Over, AtOnce
    <2>2. task' \in [Tasks -> [kind : CallKinds, at : CallStates, done : 0..2]]
      BY <1>0, <1>3 DEF RunFails, Over, CallStates
    <2>3. committed' \subseteq Effects /\ dirty' \subseteq Tasks \X Statements
      BY <1>0, <1>3 DEF RunFails, Write, TxnType, Effects, Statements
    <2> QED BY <1>3, <2>1, <2>2, <2>3 DEF TxnType, RunFails
  <1>4. ASSUME NEW t \in Tasks, Begin(t) PROVE TxnType'
    <2>1. line' \in Seq(Tasks)
      BY <1>0, <1>4, UnlockLine DEF Begin, Over
    <2>2. task' \in [Tasks -> [kind : CallKinds, at : CallStates, done : 0..2]]
      BY <1>0, <1>4 DEF Begin, Over, CallStates
    <2> QED BY <1>4, <2>1, <2>2 DEF TxnType, Begin
  <1>5. ASSUME NEW t \in Tasks, ReadInside(t) PROVE TxnType'
    BY <1>5 DEF TxnType, ReadInside
  <1>6. ASSUME NEW t \in Tasks, WriteInside(t) PROVE TxnType'
    <2>1. task' \in [Tasks -> [kind : CallKinds, at : CallStates, done : 0..2]]
      BY <1>0, <1>6 DEF WriteInside, Statements
    <2>2. committed' \subseteq Effects /\ dirty' \subseteq Tasks \X Statements
      BY <1>6 DEF WriteInside, Write, TxnType, Effects
    <2> QED BY <1>6, <2>1, <2>2 DEF TxnType, WriteInside
  <1>7. ASSUME NEW t \in Tasks, Commit(t) PROVE TxnType'
    <2>1. line' \in Seq(Tasks)
      BY <1>7, UnlockLine DEF Commit, Over
    <2>2. task' \in [Tasks -> [kind : CallKinds, at : CallStates, done : 0..2]]
      BY <1>0, <1>7 DEF Commit, Over, CallStates
    <2>3. committed' \subseteq Effects /\ kept' \subseteq Tasks \X Statements
      BY <1>7 DEF Commit, TxnType, Effects
    <2> QED BY <1>7, <2>1, <2>2, <2>3 DEF TxnType, Commit
  <1>8. ASSUME NEW t \in Tasks, Rollback(t) PROVE TxnType'
    <2>1. line' \in Seq(Tasks)
      BY <1>8, UnlockLine DEF Rollback, Over
    <2>2. task' \in [Tasks -> [kind : CallKinds, at : CallStates, done : 0..2]]
      BY <1>0, <1>8 DEF Rollback, Over, CallStates
    <2> QED BY <1>8, <2>1, <2>2 DEF TxnType, Rollback
  <1>9. ASSUME ThreadEnds PROVE TxnType'
    <2>1. line' \in Seq(Tasks)
      BY <1>9 DEF ThreadEnds
    <2>2. task' \in [Tasks -> [kind : CallKinds, at : CallStates, done : 0..2]]
      BY <1>0, <1>9 DEF ThreadEnds, CallStates
    <2> QED BY <1>9, <2>1, <2>2 DEF TxnType, ThreadEnds
  <1>10. ASSUME NEW m \in Migrators, MigratorStarts(m) PROVE TxnType'
    BY <1>10, ZenonT(60) DEF TxnType, MigratorStarts
  <1>11. ASSUME NEW m \in Migrators, NEW f \in Migrations, MigrationBegins(m, f) PROVE TxnType'
    BY <1>11 DEF TxnType, MigrationBegins
  <1>12. ASSUME NEW m \in Migrators, MigrationEnds(m) PROVE TxnType'
    <2>1. <<"file", migrator[m].open>> \in Files
      BY <1>12 DEF TxnType, MigrationEnds, Files
    <2> QED BY <1>12, <2>1, ZenonT(60) DEF TxnType, MigrationEnds, Effects
  <1>13. ASSUME NEW m \in Migrators, MigrationFails(m) PROVE TxnType'
    BY <1>13 DEF TxnType, MigrationFails
  <1>14. CASE UNCHANGED txnVars
    BY <1>0, <1>14 DEF TxnType, txnVars
  <1> QED BY <1>1, <1>2, <1>3, <1>4, <1>5, <1>6, <1>7, <1>8, <1>9, <1>10, <1>11, <1>12, <1>13, <1>14 DEF TxnNext

\* A call that is over leaves the lock in order.
LEMMA OverLock ==
  ASSUME TxnInv, NEW t \in Tasks, HasTurn(t) \/ task[t].at = "open", NEW how \in {"ok", "failed"},
         Over(t, how), binding' = binding,
         begun' = IF task[t].at = "open" THEN Nobody ELSE begun, begun' = Nobody => dirty' = {}
  PROVE  LockHeld'
  <1> USE TxnAssumption DEF TxnInv
  <1>0. /\ LockHeld
        /\ task \in [Tasks -> [kind : CallKinds, at : CallStates, done : 0..2]]
        /\ begun \in Tasks \cup {Nobody}
    BY DEF TxnType
  <1>1. /\ \A u \in Tasks \ {t} : InLine(u) => InLine(u)'
        /\ begun \notin {Nobody, t} => line' # <<>> /\ Head(line') = begun
    BY UnlockLine DEF Over
  <1>2. /\ task'[t].at = how /\ task'[t].kind = task[t].kind
        /\ \A u \in Tasks \ {t} : task'[u] = task[u]
    BY <1>0 DEF Over
  <1>3. \A u \in Tasks : Offered(task[u].kind)'
    BY <1>0, <1>2 DEF LockHeld, Offered
  <1>4. begun = t <=> task[t].at = "open"
    BY <1>0 DEF LockHeld
  <1>5. task[t].kind # "none"
    BY <1>0 DEF LockHeld, HasTurn
  <1>6. begun' # Nobody => task'[begun'].at = "open" /\ line' # <<>> /\ Head(line') = begun'
    BY <1>0, <1>1, <1>2, <1>4 DEF LockHeld
  <1>7. \A u \in Tasks : task'[u].at = "open" => begun' = u /\ task'[u].kind = "transaction"
    BY <1>0, <1>2, <1>4 DEF LockHeld
  <1>8. \A u \in Tasks : (task[u].at = "waiting" /\ Locks(task[u].kind) => InLine(u))'
    BY <1>0, <1>1, <1>2 DEF LockHeld, Locks
  <1> QED BY <1>0, <1>2, <1>3, <1>5, <1>6, <1>7, <1>8 DEF LockHeld

LEMMA LockStep ==
  ASSUME TxnInv, [TxnNext]_txnVars PROVE LockHeld'
  <1> USE TxnAssumption DEF TxnInv
  <1>0. /\ line \in Seq(Tasks) /\ LockHeld
        /\ task \in [Tasks -> [kind : CallKinds, at : CallStates, done : 0..2]]
    BY DEF TxnType
  <1>1. ASSUME NEW t \in Tasks, NEW kind \in CallKinds \ {"none"}, Asks(t, kind) PROVE LockHeld'
    <2>1. \A u \in Tasks : InLine(u) => InLine(u)'
      <3> SUFFICES ASSUME NEW u \in Tasks, InLine(u) PROVE InLine(u)'
        OBVIOUS
      <3>1. PICK i \in 1..Len(line) : line[i] = u
        BY DEF InLine
      <3>2. i \in 1..Len(line') /\ line'[i] = u
        BY <1>0, <1>1, <3>1 DEF Asks
      <3> QED BY <3>2 DEF InLine
    <2>2. Locks(kind) => InLine(t)'
      <3> SUFFICES ASSUME Locks(kind) PROVE InLine(t)'
        OBVIOUS
      <3>1. Len(line) + 1 \in 1..Len(line') /\ line'[Len(line) + 1] = t
        BY <1>0, <1>1 DEF Asks
      <3> QED BY <3>1 DEF InLine
    <2>3. line # <<>> => line' # <<>> /\ Head(line') = Head(line)
      BY <1>0, <1>1 DEF Asks
    <2>4. Offered(kind)' /\ \A u \in Tasks : Offered(task[u].kind) => Offered(task[u].kind)'
      BY <1>0, <1>1 DEF Asks, Offered
    <2>5. Locks(kind)' = Locks(kind) /\ \A k \in CallKinds : Locks(k)' = Locks(k) /\ Offered(k)' = Offered(k)
      BY <1>1 DEF Asks, Locks, Offered
    <2> QED BY <1>0, <1>1, <2>1, <2>2, <2>3, <2>5 DEF LockHeld, Asks
  <1>2. ASSUME NEW t \in Tasks, Runs(t) PROVE LockHeld'
    <2>1. HasTurn(t) /\ task[t].at # "open"
      BY <1>2 DEF Runs, AtOnce, HasTurn
    <2>2. begun = Nobody => dirty' = {}
      BY <1>0, <1>2 DEF Runs, Write, LockHeld
    <2> QED BY <1>2, <2>1, <2>2, OverLock DEF Runs
  <1>3. ASSUME NEW t \in Tasks, RunFails(t) PROVE LockHeld'
    <2>1. HasTurn(t) /\ task[t].at # "open"
      BY <1>3 DEF RunFails, AtOnce, HasTurn
    <2>2. begun = Nobody => dirty' = {}
      BY <1>0, <1>3 DEF RunFails, Write, LockHeld
    <2> QED BY <1>3, <2>1, <2>2, OverLock DEF RunFails
  <1>4. ASSUME NEW t \in Tasks, Begin(t) PROVE LockHeld'
    <2>1. HasTurn(t) /\ task[t].at = "waiting" /\ task[t].kind = "transaction" /\ binding' = binding /\ dirty' = dirty
      BY <1>4 DEF Begin, HasTurn
    <2>2. CASE begun # Nobody
      BY <1>0, <1>4, <2>1, <2>2, OverLock DEF Begin, LockHeld
    <2>3. CASE begun = Nobody
      <3>1. line # <<>> /\ Head(line) = t /\ line' = line
        BY <1>4, <2>1, <2>3, HeadTurn DEF Begin, Locks
      <3>2. \A k : Locks(k)' = Locks(k) /\ Offered(k)' = Offered(k)
        BY <2>1 DEF Locks, Offered
      <3>3. \A u \in Tasks : InLine(u)' = InLine(u)
        BY <3>1 DEF InLine
      <3>4. /\ begun' = t /\ task'[t].at = "open" /\ task'[t].kind = task[t].kind
            /\ \A u \in Tasks \ {t} : task'[u] = task[u] /\ task[u].at # "open"
        BY <1>0, <1>4, <2>3 DEF Begin, LockHeld
      <3> QED BY <1>0, <2>1, <2>3, <3>1, <3>2, <3>3, <3>4 DEF LockHeld
    <2> QED BY <2>2, <2>3
  <1>5. ASSUME NEW t \in Tasks, ReadInside(t) PROVE LockHeld'
    BY <1>0, <1>5 DEF ReadInside, LockHeld, InLine, Locks, Offered
  <1>6. ASSUME NEW t \in Tasks, WriteInside(t) PROVE LockHeld'
    <2>1. /\ begun' = begun /\ line' = line /\ binding' = binding
          /\ \A u \in Tasks : task'[u].at = task[u].at /\ task'[u].kind = task[u].kind
          /\ begun # Nobody
      BY <1>0, <1>6 DEF WriteInside, LockHeld
    <2>2. begun \in Tasks \cup {Nobody}
      BY DEF TxnType
    <2> QED BY <1>0, <2>1, <2>2 DEF LockHeld, InLine, Locks, Offered
  <1>7. ASSUME NEW t \in Tasks, Commit(t) PROVE LockHeld'
    BY <1>7, OverLock DEF Commit
  <1>8. ASSUME NEW t \in Tasks, Rollback(t) PROVE LockHeld'
    BY <1>8, OverLock DEF Rollback
  <1>9. ASSUME ThreadEnds PROVE LockHeld'
    <2>1. /\ \A u \in Tasks : task'[u].at \notin {"waiting", "open"} /\ task'[u].kind = task[u].kind
          /\ \A u \in Tasks : task'[u].at = "idle" <=> task[u].at = "idle"
      BY <1>0, <1>9 DEF ThreadEnds
    <2> QED BY <1>0, <1>9, <2>1 DEF ThreadEnds, LockHeld, Offered
  <1>10. ASSUME UNCHANGED <<binding, line, task, begun, dirty>> PROVE LockHeld'
    BY <1>0, <1>10 DEF LockHeld, InLine, Locks, Offered
  <1> QED BY <1>1, <1>2, <1>3, <1>4, <1>5, <1>6, <1>7, <1>8, <1>9, <1>10
          DEF TxnNext, MigratorStarts, MigrationBegins, MigrationEnds, MigrationFails, txnVars


\* A call keeps what is said of its writes as long as neither it nor they move.
LEMMA WritesStay ==
  ASSUME NEW u, task'[u] = task[u], CallWrites(u), begun' = begun \/ task[u].at # "open",
         \A i \in Statements : /\ <<u, i>> \in committed' <=> <<u, i>> \in committed
                               /\ <<u, i>> \in dirty' <=> <<u, i>> \in dirty
  PROVE  CallWrites(u)'
  BY DEF CallWrites, Undone, AllOrNone, Statements

\* ... and also when the open transaction, of another, ends in some way.
LEMMA WritesSettle ==
  ASSUME NEW u, task'[u] = task[u], CallWrites(u), task[u].at # "open", dirty' = {},
         committed' \in {committed, committed \cup dirty}
  PROVE  CallWrites(u)'
  BY DEF CallWrites, Undone, AllOrNone, Statements

LEMMA WritesStep ==
  ASSUME TxnInv, [TxnNext]_txnVars PROVE \A u \in Tasks : CallWrites(u)'
  <1> USE TxnAssumption DEF TxnInv
  <1>0. /\ LockHeld /\ \A u \in Tasks : CallWrites(u)
        /\ task \in [Tasks -> [kind : CallKinds, at : CallStates, done : 0..2]]
    BY DEF TxnType
  <1>a. ASSUME NEW t \in Tasks, task' = [task EXCEPT ![t] = task'[t]],
               NEW E \in SUBSET ({t} \X Statements), Write(E), begun' = begun, CallWrites(t)'
        PROVE  \A u \in Tasks : CallWrites(u)'
    <2> SUFFICES ASSUME NEW u \in Tasks, u # t PROVE CallWrites(u)'
      BY <1>a
    <2>1. \A i \in Statements : <<u, i>> \notin E
      BY <1>a
    <2>2. task'[u] = task[u]
      BY <1>0, <1>a
    <2> QED BY <1>0, <1>a, <2>1, <2>2, WritesStay DEF Write
  <1>b. ASSUME NEW t \in Tasks, task' = [task EXCEPT ![t] = task'[t]], UNCHANGED <<committed, dirty>>,
               begun' = begun \/ begun = Nobody, CallWrites(t)'
        PROVE  \A u \in Tasks : CallWrites(u)'
    <2> SUFFICES ASSUME NEW u \in Tasks, u # t PROVE CallWrites(u)'
      BY <1>b
    <2>1. task'[u] = task[u]
      BY <1>0, <1>b
    <2>2. begun = Nobody => task[u].at # "open"
      BY <1>0 DEF LockHeld
    <2> QED BY <1>0, <1>b, <2>1, <2>2, WritesStay
  <1>1. ASSUME NEW t \in Tasks, NEW kind \in CallKinds \ {"none"}, Asks(t, kind) PROVE \A u \in Tasks : CallWrites(u)'
    <2>1. task[t].at = "idle"
      BY <1>0, <1>1 DEF Asks, LockHeld
    <2>2. task'[t].at = "waiting" /\ task'[t].done = 0 /\ task' = [task EXCEPT ![t] = task'[t]]
      BY <1>0, <1>1 DEF Asks
    <2>3. CallWrites(t)'
      BY <1>0, <1>1, <2>1, <2>2 DEF Asks, CallWrites, Undone
    <2> QED BY <1>1, <1>b, <2>2, <2>3 DEF Asks
  <1>2. ASSUME NEW t \in Tasks, Runs(t) PROVE \A u \in Tasks : CallWrites(u)'
    <2> DEFINE E == {t} \X (IF task[t].kind = "statement" THEN {1} ELSE Statements)
    <2>1. task[t].at = "waiting" /\ task[t].kind # "transaction" /\ Write(E) /\ E \in SUBSET ({t} \X Statements)
      BY <1>2 DEF Runs, AtOnce, HasTurn, Statements
    <2>2. task'[t].at = "ok" /\ task'[t].kind = task[t].kind /\ task' = [task EXCEPT ![t] = task'[t]]
      BY <1>0, <1>2 DEF Runs, Over
    <2>3. \A i \in Statements : <<t, i>> \notin committed \cup dirty
      BY <1>0, <2>1 DEF CallWrites, Undone
    <2>4. task[t].kind \in {"several", "sync", "transaction"} => AllOrNone(committed, t)' /\ AllOrNone(dirty, t)'
      BY <2>1, <2>3 DEF Write, AllOrNone, Statements
    <2>5. CallWrites(t)'
      BY <2>2, <2>4 DEF CallWrites, Undone, AllOrNone
    <2> QED BY <1>2, <1>a, <2>1, <2>2, <2>5 DEF Runs
  <1>3. ASSUME NEW t \in Tasks, RunFails(t) PROVE \A u \in Tasks : CallWrites(u)'
    <2>1. task[t].at = "waiting" /\ HasTurn(t)
      BY <1>3 DEF RunFails, AtOnce, HasTurn
    <2>2. task'[t].at = "failed" /\ task'[t].kind = task[t].kind /\ task' = [task EXCEPT ![t] = task'[t]]
      BY <1>0, <1>3 DEF RunFails, Over
    <2>3. \A i \in Statements : <<t, i>> \notin committed \cup dirty
      BY <1>0, <2>1 DEF CallWrites, Undone
    <2>4. CASE task[t].kind = "script" /\ Write({<<t, 1>>})
      <3>1. CallWrites(t)'
        BY <2>2, <2>4 DEF CallWrites, Undone
      <3>2. {<<t, 1>>} \in SUBSET ({t} \X Statements)
        BY DEF Statements
      <3> HIDE DEF TxnInv
      <3> QED BY <1>3, <1>a, <2>2, <2>4, <3>1, <3>2 DEF RunFails
    <2>5. CASE UNCHANGED <<committed, dirty>>
      <3>1. CallWrites(t)'
        BY <2>2, <2>3, <2>5 DEF CallWrites, Undone
      <3> QED BY <1>3, <1>b, <2>2, <2>5, <3>1 DEF RunFails
    <2> QED BY <1>3, <2>4, <2>5 DEF RunFails
  <1>4. ASSUME NEW t \in Tasks, Begin(t) PROVE \A u \in Tasks : CallWrites(u)'
    <2>1. task[t].at = "waiting" /\ task[t].kind = "transaction"
      BY <1>4 DEF Begin, HasTurn
    <2>2. /\ task' = [task EXCEPT ![t] = task'[t]]
          /\ task'[t].kind = task[t].kind /\ task'[t].done = task[t].done /\ task'[t].at \in {"open", "failed"}
      BY <1>0, <1>4 DEF Begin, Over
    <2>3. /\ \A i \in Statements : <<t, i>> \notin committed \cup dirty
          /\ task[t].done = 0
      BY <1>0, <2>1 DEF CallWrites, Undone
    <2>4. CallWrites(t)'
      BY <1>4, <2>2, <2>3 DEF Begin, CallWrites, Undone, Statements
    <2> QED BY <1>4, <1>b, <2>2, <2>4 DEF Begin
  <1>5. ASSUME NEW t \in Tasks, WriteInside(t) PROVE \A u \in Tasks : CallWrites(u)'
    <2> DEFINE next == task[t].done + 1
    <2>1. /\ task[t].at = "open" /\ next \in Statements /\ Write({<<t, next>>}) /\ begun' = begun
          /\ {<<t, next>>} \in SUBSET ({t} \X Statements) /\ task[t].done \in 0..2
      BY <1>0, <1>5 DEF WriteInside
    <2>2. task' = [task EXCEPT ![t] = task'[t]] /\ task'[t] = [task[t] EXCEPT !.done = next]
      BY <1>0, <1>5 DEF WriteInside
    <2>3. begun = t /\ begun # Nobody
      BY <1>0, <2>1 DEF LockHeld
    <2>4. task'[t].at = "open" /\ task'[t].done = next
      BY <1>0, <2>1, <2>2
    <2>5. \A i \in Statements : <<t, i>> \notin committed /\ (<<t, i>> \in dirty <=> i <= task[t].done)
      BY <1>0, <2>1 DEF CallWrites
    <2>6. committed' = committed /\ dirty' = dirty \cup {<<t, next>>}
      BY <2>1, <2>3 DEF Write
    <2>7. \A i \in Statements : <<t, i>> \notin committed' /\ (<<t, i>> \in dirty' <=> i <= task'[t].done)
      BY <2>1, <2>4, <2>5, <2>6 DEF Statements
    <2>8. CallWrites(t)'
      BY <2>4, <2>7 DEF CallWrites, Undone
    <2> HIDE DEF next
    <2> QED BY <1>a, <2>1, <2>2, <2>8
  <1>6. ASSUME NEW t \in Tasks, Commit(t) \/ Rollback(t) PROVE \A u \in Tasks : CallWrites(u)'
    <2> SUFFICES ASSUME NEW u \in Tasks PROVE CallWrites(u)'
      OBVIOUS
    <2>1. task[t].at = "open" /\ begun = t /\ task[t].kind = "transaction"
      BY <1>0, <1>6 DEF Commit, Rollback, LockHeld
    <2>2. dirty' = {} /\ committed' \in {committed, committed \cup dirty}
      BY <1>6 DEF Commit, Rollback
    <2>3. CASE u # t
      BY <1>0, <1>6, <2>1, <2>2, <2>3, WritesSettle DEF Commit, Rollback, Over, LockHeld
    <2>4. CASE u = t
      <3>1. \A i \in Statements : <<t, i>> \notin committed /\ (<<t, i>> \in dirty <=> i <= task[t].done)
        BY <1>0, <2>1 DEF CallWrites
      <3>2. CASE Commit(t)
        <4>1. task'[t].at = "ok" /\ task[t].done = 2 /\ committed' = committed \cup dirty
          BY <1>0, <3>2 DEF Commit, Over
        <4> QED BY <2>2, <2>4, <3>1, <4>1 DEF CallWrites, Undone, AllOrNone, Statements
      <3>3. CASE Rollback(t)
        <4>1. task'[t].at = "failed" /\ committed' = committed
          BY <1>0, <3>3 DEF Rollback, Over
        <4> QED BY <2>2, <2>4, <3>1, <4>1 DEF CallWrites, Undone
      <3> QED BY <1>6, <3>2, <3>3
    <2> QED BY <2>3, <2>4
  <1>7. ASSUME ThreadEnds PROVE \A u \in Tasks : CallWrites(u)'
    <2> SUFFICES ASSUME NEW u \in Tasks PROVE CallWrites(u)'
      OBVIOUS
    <2>1. dirty' = {} /\ committed' = committed
      BY <1>7 DEF ThreadEnds
    <2>2. CASE task[u].at \in {"waiting", "open"}
      <3>1. task'[u].at = "failed" /\ \A i \in Statements : <<u, i>> \notin committed
        BY <1>0, <1>7, <2>2 DEF ThreadEnds, CallWrites, Undone
      <3> QED BY <2>1, <3>1 DEF CallWrites, Undone
    <2>3. CASE task[u].at \notin {"waiting", "open"}
      BY <1>0, <1>7, <2>1, <2>3, WritesSettle DEF ThreadEnds
    <2> QED BY <2>2, <2>3
  <1>8. ASSUME UNCHANGED <<task, begun, dirty>>, NEW F \in SUBSET Files, committed' = committed \cup F
        PROVE \A u \in Tasks : CallWrites(u)'
    <2> SUFFICES ASSUME NEW u \in Tasks PROVE CallWrites(u)'
      OBVIOUS
    <2>1. \A i \in Statements : <<u, i>> \notin F
      BY <1>8 DEF Files
    <2> QED BY <1>0, <1>8, <2>1, WritesStay
  <1>9. ASSUME NEW m \in Migrators, MigrationEnds(m) PROVE \A u \in Tasks : CallWrites(u)'
    <2>1. <<"file", migrator[m].open>> \in Files
      BY <1>9 DEF MigrationEnds, TxnType, Files
    <2> QED BY <1>8, <1>9, <2>1, ZenonT(60) DEF MigrationEnds
  <1>10. ASSUME UNCHANGED <<task, begun, dirty, committed>> PROVE \A u \in Tasks : CallWrites(u)'
    <2>1. committed' = committed \cup {}
      BY <1>10
    <2> QED BY <1>8, <1>10, <2>1
  <1> QED BY <1>1, <1>2, <1>3, <1>4, <1>5, <1>6, <1>7, <1>9, <1>10
          DEF TxnNext, ReadInside, MigratorStarts, MigrationBegins, MigrationFails, txnVars


LEMMA PromisesStep ==
  ASSUME TxnInv, [TxnNext]_txnVars PROVE Promises'
  <1> USE TxnAssumption DEF TxnInv
  <1>0. /\ LockHeld /\ Promises /\ \A u \in Tasks : CallWrites(u)
        /\ task \in [Tasks -> [kind : CallKinds, at : CallStates, done : 0..2]]
        /\ kept \subseteq Tasks \X Statements /\ dirty \subseteq Tasks \X Statements
        /\ begun \in Tasks \cup {Nobody} /\ committed \subseteq Effects
    BY DEF TxnType
  <1>l. ASSUME NEW t \in Tasks, HasTurn(t), binding = "d1" PROVE begun = Nobody
    <2>1. line # <<>> /\ Head(line) = t
      BY <1>l, HeadTurn DEF Locks
    <2>2. task[t].at = "waiting"
      BY <1>l DEF HasTurn
    <2> QED BY <1>0, <2>1, <2>2 DEF LockHeld
  <1>1. ASSUME NEW t \in Tasks, NEW kind \in CallKinds \ {"none"}, Asks(t, kind) PROVE Promises'
    <2>1. task[t].at = "idle"
      BY <1>0, <1>1 DEF Asks, LockHeld
    <2> QED BY <1>0, <1>1, <2>1 DEF Asks, Promises
  <1>2. ASSUME NEW t \in Tasks, Runs(t) PROVE Promises'
    <2> DEFINE E == {t} \X (IF task[t].kind = "statement" THEN {1} ELSE Statements)
    <2>1. HasTurn(t) /\ Write(E) /\ E \subseteq {t} \X Statements /\ kept' = kept \cup E
      BY <1>2 DEF Runs, AtOnce, Statements
    <2>2. task'[t].at = "ok" /\ \A u \in Tasks \ {t} : task'[u] = task[u]
      BY <1>0, <1>2 DEF Runs, Over
    <2>3. \A u \in Tasks, i \in Statements : <<u, i>> \in kept' => task'[u].at = "ok"
      BY <1>0, <2>1, <2>2 DEF Promises
    <2>4. kept' \subseteq committed' \cup dirty' \cup exposed'
      BY <1>0, <1>2, <2>1 DEF Promises, Write, Runs
    <2>5. binding = "d1" => exposed' = {} /\ kept' \subseteq committed' /\ dirty' \subseteq {begun'} \X Statements
      BY <1>0, <1>2, <1>l, <2>1 DEF Promises, Write, Runs
    <2> QED BY <1>2, <2>3, <2>4, <2>5 DEF Promises, Runs
  <1>3. ASSUME NEW t \in Tasks, RunFails(t) PROVE Promises'
    <2>1. HasTurn(t) /\ task[t].at = "waiting"
      BY <1>3 DEF RunFails, AtOnce, HasTurn
    <2>2. \A u \in Tasks \ {t} : task'[u] = task[u]
      BY <1>0, <1>3 DEF RunFails, Over
    <2>3. \A u \in Tasks, i \in Statements : <<u, i>> \in kept => u # t
      BY <1>0, <2>1 DEF Promises
    <2>4. committed \subseteq committed' /\ dirty \subseteq dirty' /\ (begun = Nobody => dirty' = dirty)
      BY <1>3 DEF RunFails, Write
    <2>5. binding = "d1" => dirty' = dirty
      BY <1>l, <2>1, <2>4
    <2> QED BY <1>0, <1>3, <2>2, <2>3, <2>4, <2>5 DEF Promises, RunFails
  <1>4. ASSUME NEW t \in Tasks, Begin(t) PROVE Promises'
    <2>1. task[t].at = "waiting" /\ \A u \in Tasks \ {t} : task'[u] = task[u]
      BY <1>0, <1>4 DEF Begin, Over, HasTurn
    <2>2. begun = Nobody => dirty = {}
      BY <1>0 DEF LockHeld
    <2> QED BY <1>0, <1>4, <2>1, <2>2 DEF Promises, Begin
  <1>5. ASSUME NEW t \in Tasks, WriteInside(t) PROVE Promises'
    <2>1. begun = t /\ begun # Nobody /\ \A u \in Tasks : task'[u].at = task[u].at
      BY <1>0, <1>5 DEF WriteInside, LockHeld
    <2>2. committed' = committed /\ dirty' = dirty \cup {<<t, task[t].done + 1>>} /\ task[t].done + 1 \in Statements
      BY <1>5, <2>1 DEF WriteInside, Write
    <2> QED BY <1>0, <1>5, <2>1, <2>2 DEF Promises, WriteInside
  <1>6. ASSUME NEW t \in Tasks, Commit(t) PROVE Promises'
    <2>1. task'[t].at = "ok" /\ \A u \in Tasks \ {t} : task'[u] = task[u]
      BY <1>0, <1>6 DEF Commit, Over
    <2>2. \A i \in Statements : <<t, i>> \in dirty
      <3>1. CallWrites(t) /\ task[t].at = "open" /\ task[t].done = 2
        BY <1>0, <1>6 DEF Commit
      <3>2. \A i \in Statements : i <= 2
        BY DEF Statements
      <3> QED BY <3>1, <3>2 DEF CallWrites
    <2>3. \A u \in Tasks, i \in Statements : <<u, i>> \in kept' => task'[u].at = "ok"
      BY <1>0, <1>6, <2>1 DEF Promises, Commit
    <2>4. kept' \subseteq committed' \cup exposed /\ (binding = "d1" => kept' \subseteq committed')
      BY <1>0, <1>6, <2>2 DEF Promises, Commit
    <2> QED BY <1>0, <1>6, <2>3, <2>4 DEF Promises, Commit
  <1>7. ASSUME exposed' = exposed \cup (dirty \cap kept), dirty' = {}, UNCHANGED <<binding, committed, kept>>,
               \A u \in Tasks : task[u].at = "ok" => task'[u].at = "ok"
        PROVE  Promises'
    <2>1. binding = "d1" => dirty \cap kept = {}
      <3> SUFFICES ASSUME binding = "d1", NEW e \in dirty \cap kept PROVE FALSE
        OBVIOUS
      <3>1. begun # Nobody
        BY <1>0 DEF LockHeld
      <3>2. task[begun].at = "open"
        BY <1>0, <3>1 DEF LockHeld
      <3>3. \E i \in Statements : e = <<begun, i>>
        BY <1>0 DEF Promises
      <3> QED BY <1>0, <3>1, <3>2, <3>3 DEF Promises
    <2>2. \A u \in Tasks, i \in Statements : <<u, i>> \in kept' => task'[u].at = "ok"
      BY <1>0, <1>7 DEF Promises
    <2>3. kept' \subseteq committed' \cup dirty' \cup exposed'
      BY <1>0, <1>7 DEF Promises
    <2> QED BY <1>0, <1>7, <2>1, <2>2, <2>3 DEF Promises
  <1>8. ASSUME NEW t \in Tasks, Rollback(t) PROVE Promises'
    <2>1. \A u \in Tasks : task[u].at = "ok" => task'[u].at = "ok"
      BY <1>0, <1>8 DEF Rollback, Over
    <2> QED BY <1>7, <1>8, <2>1 DEF Rollback
  <1>9. ASSUME ThreadEnds PROVE Promises'
    <2>1. \A u \in Tasks : task[u].at = "ok" => task'[u].at = "ok"
      BY <1>0, <1>9 DEF ThreadEnds
    <2> QED BY <1>7, <1>9, <2>1 DEF ThreadEnds
  <1>10. ASSUME UNCHANGED <<binding, task, begun, dirty, kept, exposed>>, committed \subseteq committed' PROVE Promises'
    BY <1>0, <1>10 DEF Promises
  <1> QED BY <1>1, <1>2, <1>3, <1>4, <1>5, <1>6, <1>8, <1>9, <1>10
          DEF TxnNext, ReadInside, MigratorStarts, MigrationBegins, MigrationEnds, MigrationFails, txnVars

\* Tasks write no migrations.
LEMMA TasksWrite ==
  ASSUME TxnInv, NEW t \in Tasks, Runs(t) \/ RunFails(t) \/ WriteInside(t) \/ Commit(t)
  PROVE  committed \subseteq committed' /\ \A f \in Migrations : <<"file", f>> \in committed' => <<"file", f>> \in committed
  <1> USE TxnAssumption DEF TxnInv
  <1>1. PICK E \in SUBSET (Tasks \X Statements) : committed' = committed \cup E
    <2>0. dirty \subseteq Tasks \X Statements
      BY DEF TxnType
    <2>1. CASE Runs(t)
      <3> DEFINE E == {t} \X (IF task[t].kind = "statement" THEN {1} ELSE Statements)
      <3>1. committed' = committed \cup E \/ committed' = committed \cup {}
        BY <2>1 DEF Runs, Write
      <3>2. E \subseteq Tasks \X Statements
        BY DEF Statements
      <3> QED BY <3>1, <3>2
    <2>2. CASE RunFails(t)
      <3>1. committed' = committed \cup {<<t, 1>>} \/ committed' = committed \cup {}
        BY <2>2 DEF RunFails, Write
      <3>2. {<<t, 1>>} \subseteq Tasks \X Statements
        BY DEF Statements
      <3> QED BY <3>1, <3>2
    <2>3. CASE WriteInside(t)
      <3>1. committed' = committed \cup {<<t, task[t].done + 1>>} \/ committed' = committed \cup {}
        BY <2>3 DEF WriteInside, Write
      <3>2. {<<t, task[t].done + 1>>} \subseteq Tasks \X Statements
        BY <2>3 DEF WriteInside
      <3> QED BY <3>1, <3>2
    <2>4. CASE Commit(t)
      BY <2>0, <2>4 DEF Commit
    <2> QED BY <2>1, <2>2, <2>3, <2>4
  <1>2. \A f \in Migrations : <<"file", f>> \notin E
    OBVIOUS
  <1> QED BY <1>1, <1>2

LEMMA FilesStep ==
  ASSUME TxnInv, [TxnNext]_txnVars PROVE FilesInOrder'
  <1> USE TxnAssumption, MigrationNumbers DEF TxnInv
  <1>0. /\ FilesInOrder
        /\ migrator \in [Migrators -> [todo : SUBSET Migrations, open : Migrations \cup {0}, over : BOOLEAN]]
    BY DEF TxnType
  <1>1. ASSUME committed \subseteq committed', migrator' = migrator,
               \A f \in Migrations : <<"file", f>> \in committed' => <<"file", f>> \in committed
        PROVE  FilesInOrder'
    BY <1>0, <1>1 DEF FilesInOrder
  <1>2. ASSUME NEW t \in Tasks, Runs(t) \/ RunFails(t) \/ WriteInside(t) \/ Commit(t) PROVE FilesInOrder'
    BY <1>1, <1>2, TasksWrite DEF Runs, RunFails, WriteInside, Commit
  <1>3. ASSUME NEW m \in Migrators, MigratorStarts(m) PROVE FilesInOrder'
    <2>1. \A n \in Migrators \ {m} : migrator'[n] = migrator[n]
      BY <1>0, <1>3 DEF MigratorStarts
    <2>2. /\ migrator'[m].todo = {f \in Migrations : <<"file", f>> \notin committed}
          /\ migrator'[m].open = migrator[m].open
      BY <1>0, <1>3 DEF MigratorStarts
    <2>3. migrator[m].open = 0
      BY <1>0, <1>3 DEF MigratorStarts, FilesInOrder
    <2> QED BY <1>0, <1>3, <2>1, <2>2, <2>3 DEF MigratorStarts, FilesInOrder
  <1>4. ASSUME NEW m \in Migrators, NEW f \in Migrations, MigrationBegins(m, f) PROVE FilesInOrder'
    <2>1. \A n \in Migrators \ {m} : migrator'[n] = migrator[n]
      BY <1>0, <1>4 DEF MigrationBegins
    <2>2. migrator'[m].todo = migrator[m].todo /\ migrator'[m].open = f
      BY <1>0, <1>4 DEF MigrationBegins
    <2> QED BY <1>0, <1>4, <2>1, <2>2 DEF MigrationBegins, FilesInOrder
  <1>5. ASSUME NEW m \in Migrators, MigrationEnds(m) PROVE FilesInOrder'
    <2> DEFINE f == migrator[m].open
    <2>1. f \in Migrations /\ f \in migrator[m].todo /\ \A g \in migrator[m].todo : f <= g
      BY <1>0, <1>5 DEF MigrationEnds, FilesInOrder
    <2>2. committed' = committed \cup {<<"file", f>>}
      BY <1>5 DEF MigrationEnds
    <2>3. \A n \in Migrators \ {m} : migrator'[n] = migrator[n]
      BY <1>0, <1>5 DEF MigrationEnds
    <2>4. migrator'[m].todo = migrator[m].todo \ {f} /\ migrator'[m].open = 0
      BY <1>0, <1>5 DEF MigrationEnds
    <2>5. \A g \in Migrations : g < f => <<"file", g>> \in committed
      <3> SUFFICES ASSUME NEW g \in Migrations, g < f PROVE <<"file", g>> \in committed
        OBVIOUS
      <3>1. g \in Nat /\ f \in Nat
        BY <2>1
      <3>2. g \notin migrator[m].todo
        <4> SUFFICES ASSUME g \in migrator[m].todo PROVE FALSE
          OBVIOUS
        <4>1. f <= g
          BY <2>1
        <4> QED BY <3>1, <4>1
      <3> QED BY <1>0, <2>1, <3>2 DEF FilesInOrder
    <2>6. \A h, g \in Migrations : g < h /\ <<"file", h>> \in committed' => <<"file", g>> \in committed'
      BY <1>0, <2>1, <2>2, <2>5 DEF FilesInOrder
    <2> HIDE DEF f
    <2>7. \A n \in Migrators : migrator'[n].todo # {} => \A h \in Migrations : h \in migrator'[n].todo \/ <<"file", h>> \in committed'
      BY <1>0, <2>1, <2>2, <2>3, <2>4 DEF FilesInOrder
    <2>8. \A n \in Migrators : migrator'[n].open # 0 =>
            migrator'[n].open \in migrator'[n].todo /\ \A g \in migrator'[n].todo : migrator'[n].open <= g
      BY <1>0, <2>3, <2>4 DEF FilesInOrder
    <2> QED BY <2>6, <2>7, <2>8 DEF FilesInOrder
  <1>6. ASSUME NEW m \in Migrators, MigrationFails(m) PROVE FilesInOrder'
    <2>1. \A n \in Migrators \ {m} : migrator'[n] = migrator[n]
      BY <1>0, <1>6 DEF MigrationFails
    <2>2. migrator'[m].todo = {} /\ migrator'[m].open = 0
      BY <1>0, <1>6 DEF MigrationFails
    <2> QED BY <1>0, <1>6, <2>1, <2>2 DEF MigrationFails, FilesInOrder
  <1>7. ASSUME UNCHANGED <<committed, migrator>> PROVE FilesInOrder'
    BY <1>1, <1>7
  <1> QED BY <1>2, <1>3, <1>4, <1>5, <1>6, <1>7
          DEF TxnNext, Asks, Begin, ReadInside, Rollback, ThreadEnds, txnVars

LEMMA TxnAlways == TxnSpec => []TxnInv
  <1>1. TxnInv /\ [TxnNext]_txnVars => TxnInv'
    BY TxnTypeStep, LockStep, WritesStep, PromisesStep, FilesStep DEF TxnInv
  <1> QED BY TxnInitially, <1>1, PTL DEF TxnSpec

THEOREM TransactionsWholeAlways == TxnSpec => []TransactionsWhole
  <1>1. TxnInv => TransactionsWhole
    <2> SUFFICES ASSUME TxnInv PROVE TransactionsWhole
      OBVIOUS
    <2> USE DEF TxnInv
    <2>1. ASSUME NEW t \in Tasks
          PROVE LET own == committed \cap ({t} \X Statements) IN
                /\ task[t].kind \in {"several", "sync", "transaction"} => own \in {{}, {t} \X Statements}
                /\ task[t].at = "failed" /\ task[t].kind # "script" => own = {}
                /\ task[t].at = "open" => begun = t
      <3> DEFINE own == committed \cap ({t} \X Statements)
      <3>0. \A e : e \in own <=> \E i \in Statements : e = <<t, i>> /\ e \in committed
        OBVIOUS
      <3>1. Undone(t) \/ task[t].at = "open" => own = {}
        BY <3>0 DEF CallWrites
      <3>2. AllOrNone(committed, t) => own \in {{}, {t} \X Statements}
        BY <3>0 DEF AllOrNone, Statements
      <3>3. task[t].at \in CallStates
        BY DEF TxnType
      <3>4. task[t].at = "ok" /\ task[t].kind \in {"several", "sync", "transaction"} => AllOrNone(committed, t)
        BY DEF CallWrites
      <3>5. task[t].at = "open" => begun = t
        BY DEF LockHeld
      <3> HIDE DEF own
      <3>6. task[t].kind \in {"several", "sync", "transaction"} => own \in {{}, {t} \X Statements}
        BY <3>1, <3>2, <3>3, <3>4 DEF CallStates, Undone
      <3>7. task[t].at = "failed" /\ task[t].kind # "script" => own = {}
        BY <3>1 DEF Undone
      <3> QED BY <3>5, <3>6, <3>7 DEF own
    <2>2. /\ kept \subseteq committed \cup dirty \cup exposed
          /\ binding = "d1" => exposed = {} /\ kept \subseteq committed
      BY DEF Promises
    <2>3. \A f, g \in Migrations : g < f /\ <<"file", f>> \in committed => <<"file", g>> \in committed
      BY DEF FilesInOrder
    <2> QED BY <2>1, <2>2, <2>3 DEF TransactionsWhole
  <1> QED BY <1>1, TxnAlways, PTL

-----------------------------------------------------------------------------
(* Rows and files of R2 under concurrent requests (ObjectStore).            *)

RequestSet == [kind : Kinds, key : Keys \cup {Upload}, from : Keys \cup {Upload},
               at : {"start", "recorded"}, clean : BOOLEAN,
               offset : Keys \cup {0}, seen : SUBSET Keys]

\* A clean request is the only one that writes what it relies on.
Exclusive == \A r, t \in Requests :
  r # t /\ request[r].clean => Writes(request[t]) \cap Uses(request[r]) = {}

\* Between the two steps of a delete.
Deleting(k) == \E r \in Requests : At(r, "delete", "recorded") /\ request[r].key = k
Discarding == \E r \in Requests : At(r, "complete", "recorded") \/ At(r, "abort", "recorded")

\* Only then do the row and the file of a key differ, and those of the part.
Agree ==
  /\ \A k \in Keys : file[k] \in {object[k], Torn} \/ Deleting(k)
  /\ partFile = Torn \/ (upload /\ partRow <=> partFile = "put") \/ Discarding

Rank(k) == Cardinality({j \in Rows : j < k})

Shaped(q) ==
  /\ q.kind \in {"put", "delete", "copy", "rename", "tag", "get"} => q.key \in Keys
  /\ q.kind \in {"copy", "rename"} => q.from \in Keys
  /\ q.kind \in {"part", "abort"} => q.key = Upload
  /\ q.kind = "complete" => q.key = BigKey
  /\ q.clean => q.kind = "none" \/ q.key # q.from

\* What a clean request may rely on.
Relied(q) == q.clean =>
  /\ q.kind = "copy" => object[q.from] # Absent
  /\ q.kind = "delete" /\ q.at = "recorded" => object[q.key] = Absent
  /\ q.kind = "part" => upload
  /\ q.kind \in {"complete", "abort"} /\ q.at = "recorded" => ~(upload /\ partRow)
  /\ q.kind = "get" /\ q.at = "recorded" => q.key \in q.seen
  /\ q.kind = "list" /\ q.at = "start" => q.seen = {k \in Rows : Rank(k) < q.offset}
  /\ q.kind = "list" /\ q.at = "recorded" => q.seen = Rows

StoreInv ==
  /\ StoreType /\ Exclusive /\ Agree /\ tagged \subseteq Rows
  /\ \A r \in Requests : Shaped(request[r]) /\ Relied(request[r])

-----------------------------------------------------------------------------
LEMMA BigKeyIsKey == BigKey \in Keys /\ Upload \notin Keys /\ Keys \subseteq Nat /\ IsFiniteSet(Keys)
<1>1. Cardinality(Keys) \in Nat /\ Cardinality(Keys) # 0
  BY StoreAssumption, FS_CardinalityType, FS_EmptySet
<1>2. Keys = 1..Cardinality(Keys)
  BY StoreAssumption
<1>3. \A n \in Nat : n # 0 => 1 \in 1..n /\ 0 \notin 1..n /\ 1..n \subseteq Nat
  OBVIOUS
<1> QED BY <1>1, <1>2, <1>3, StoreAssumption DEF BigKey, Upload

\* What a request writes and uses, kind by kind.
LEMMA WritesUses ==
  ASSUME NEW q \in RequestSet
  PROVE  /\ q.kind \in {"put", "delete", "copy"} => Writes(q) = {q.key}
         /\ q.kind = "rename" => Writes(q) = {q.key, q.from}
         /\ q.kind = "complete" => Writes(q) = {q.key, Upload}
         /\ q.kind \in {"part", "abort"} => Writes(q) = {Upload}
         /\ q.kind \in {"none", "tag", "list", "get"} => Writes(q) = {}
         /\ q.kind = "list" => Uses(q) = Keys
         /\ q.kind = "get" => Uses(q) = {q.key}
         /\ q.kind \in {"copy", "rename", "tag"} => Uses(q) = {q.key, q.from}
         /\ q.kind \in {"put", "delete", "complete", "part", "abort", "none"} => Uses(q) = Writes(q)
BY DEF Writes, Uses, RequestSet, Kinds

\* Neither depends on how far the request has come, or on its being clean.
LEMMA SameWrites ==
  ASSUME NEW q \in RequestSet, NEW p \in RequestSet, q.kind = p.kind, q.key = p.key, q.from = p.from
  PROVE  Writes(q) = Writes(p) /\ Uses(q) = Uses(p)
BY DEF Writes, Uses

\* What a step of request r is for the others: their own requests are as they were, they
\* are not clean any more if it writes what they use, and it changes nothing else.
Same(p, q) == /\ p.kind = q.kind /\ p.key = q.key /\ p.from = q.from
              /\ p.at = q.at /\ p.offset = q.offset /\ p.seen = q.seen

Written(r) == Writes(request[r]) \cup Writes(request[r])'

Turn(r) ==
  /\ request' \in [Requests -> RequestSet]
  /\ \A s \in Requests \ {r} :
       /\ Same(request[s], request'[s])
       /\ request'[s].clean => request[s].clean /\ Written(r) \cap Uses(request[s]) = {}
       /\ request'[r].clean => Writes(request[s]) \cap Uses(request'[r]) = {}

Frame(r) ==
  /\ \A k \in Keys \ Written(r) : object'[k] = object[k] /\ file'[k] = file[k]
  /\ Upload \in Written(r) \/ UNCHANGED <<upload, partRow, partFile>>

LEMMA StartsTurn ==
  ASSUME StoreInv, NEW r \in Requests, request[r].kind = "none", NEW q \in RequestSet, Starts(r, q)
  PROVE  /\ Turn(r) /\ Same(q, request'[r])
         /\ request'[r].clean => q.key # q.from /\ \A s \in Requests : Writes(request[s]) \cap Uses(q) = {}
         /\ Writes(request'[r]) = Writes(q) /\ Uses(request'[r]) = Uses(q)
<1>1. request \in [Requests -> RequestSet]
  BY DEF StoreInv, StoreType, RequestSet
<1>2. /\ request' \in [Requests -> RequestSet]
      /\ \A s \in Requests \ {r} : Same(request[s], request'[s])
      /\ Same(q, request'[r])
      /\ request'[r].clean => q.key # q.from /\ \A s \in Requests : Writes(request[s]) \cap Uses(q) = {}
      /\ \A s \in Requests \ {r} : request'[s].clean => request[s].clean /\ Writes(q) \cap Uses(request[s]) = {}
  BY <1>1 DEF Starts, Same, RequestSet
<1>3. Writes(request'[r]) = Writes(q) /\ Uses(request'[r]) = Uses(q)
  BY <1>2, SameWrites DEF Same
<1>4. Writes(request[r]) = {}
  BY <1>1, WritesUses
<1> QED BY <1>2, <1>3, <1>4 DEF Turn, Written

\* A step of a request that goes on, or ends.
LEMMA MovesTurn ==
  ASSUME StoreInv, NEW r \in Requests, NEW q \in RequestSet, request' = [request EXCEPT ![r] = q],
         Writes(q) \subseteq Writes(request[r]), Uses(q) \subseteq Uses(request[r]),
         q.clean => request[r].clean \/ Uses(q) = {}
  PROVE  Turn(r) /\ request'[r] = q /\ Written(r) = Writes(request[r])
<1>1. request \in [Requests -> RequestSet]
  BY DEF StoreInv, StoreType, RequestSet
<1>2. /\ request' \in [Requests -> RequestSet] /\ request'[r] = q
      /\ \A s \in Requests \ {r} : request'[s] = request[s]
  BY <1>1
<1>3. Written(r) = Writes(request[r])
  BY <1>2 DEF Written
<1>4. ASSUME NEW s \in Requests \ {r}
      PROVE  /\ request[s].clean => Writes(request[r]) \cap Uses(request[s]) = {}
             /\ request[r].clean => Writes(request[s]) \cap Uses(request[r]) = {}
  BY DEF StoreInv, Exclusive
<1>5. ASSUME NEW s \in Requests \ {r}, q.clean PROVE Writes(request[s]) \cap Uses(q) = {}
  BY <1>4, <1>5
<1> QED BY <1>2, <1>3, <1>4, <1>5 DEF Turn, Same

LEMMA NoRequestTyped == NoRequest \in RequestSet /\ Writes(NoRequest) = {} /\ Uses(NoRequest) = {}
<1>1. NoRequest \in RequestSet
  BY DEF NoRequest, RequestSet, Kinds
<1>2. NoRequest.kind = "none"
  BY DEF NoRequest
<1> QED BY <1>1, <1>2, WritesUses

LEMMA EndsTurn ==
  ASSUME StoreInv, NEW r \in Requests, Ends(r)
  PROVE  Turn(r) /\ request'[r] = NoRequest /\ Written(r) = Writes(request[r])
<1>1. NoRequest \in RequestSet /\ Writes(NoRequest) = {} /\ Uses(NoRequest) = {}
  BY NoRequestTyped
<1>2. request' = [request EXCEPT ![r] = NoRequest]
  BY DEF Ends
<1> QED BY <1>1, <1>2, MovesTurn

\* The others can rely on what they could.
LEMMA OthersKept ==
  ASSUME StoreInv, NEW r \in Requests, Turn(r), Frame(r)
  PROVE  /\ Exclusive'
         /\ \A s \in Requests \ {r} : Shaped(request[s])' /\ Relied(request[s])'
<1>1. request \in [Requests -> RequestSet] /\ request' \in [Requests -> RequestSet]
  BY DEF StoreInv, StoreType, RequestSet, Turn
<1>2. \A s \in Requests \ {r} : Writes(request'[s]) = Writes(request[s]) /\ Uses(request'[s]) = Uses(request[s])
  <2> TAKE s \in Requests \ {r}
  <2>1. Same(request[s], request'[s]) /\ request[s] \in RequestSet /\ request'[s] \in RequestSet
    BY <1>1 DEF Turn
  <2> QED BY <2>1, SameWrites DEF Same
<1>3. Exclusive'
  <2> SUFFICES ASSUME NEW a \in Requests, NEW b \in Requests, a # b, request'[a].clean
               PROVE  Writes(request'[b]) \cap Uses(request'[a]) = {}
    BY DEF Exclusive, Writes, Uses
  <2>1. CASE a = r
    BY <1>2, <2>1 DEF Turn
  <2>2. CASE b = r
    BY <1>2, <2>2 DEF Turn, Written
  <2>3. CASE a # r /\ b # r
    BY <1>2, <2>3 DEF Turn, StoreInv, Exclusive
  <2> QED BY <2>1, <2>2, <2>3
<1>4. ASSUME NEW s \in Requests \ {r} PROVE Shaped(request'[s]) /\ (request'[s].clean => Relied(request[s])')
  <2>1. Same(request[s], request'[s]) /\ (request'[s].clean => request[s].clean /\ Written(r) \cap Uses(request[s]) = {})
    BY DEF Turn
  <2>2. Shaped(request[s]) /\ Relied(request[s])
    BY DEF StoreInv
  <2>3. Shaped(request'[s])
    BY <2>1, <2>2 DEF Shaped, Same
  <2>4. ASSUME request'[s].clean PROVE Relied(request[s])'
    <3>0. request[s] \in RequestSet /\ request[s].clean /\ Written(r) \cap Uses(request[s]) = {}
      BY <1>1, <2>1, <2>4
    <3>1. CASE request[s].kind \in {"copy", "delete"}
      <4>1. \A k \in Keys : k \in Uses(request[s]) => object'[k] = object[k]
        BY <3>0 DEF Frame
      <4>2. request[s].kind = "copy" => request[s].from \in Keys /\ request[s].from \in Uses(request[s])
        BY <2>2, <3>0, WritesUses DEF Shaped
      <4>3. request[s].kind = "delete" => request[s].key \in Keys /\ request[s].key \in Uses(request[s])
        BY <2>2, <3>0, WritesUses DEF Shaped
      <4> QED BY <2>1, <2>2, <3>0, <3>1, <4>1, <4>2, <4>3 DEF Relied, Same
    <3>2. CASE request[s].kind \in {"part", "complete", "abort"}
      <4>1. Upload \in Uses(request[s])
        BY <3>0, <3>2, WritesUses
      <4>2. UNCHANGED <<upload, partRow, partFile>>
        BY <3>0, <4>1 DEF Frame
      <4> QED BY <2>1, <2>2, <3>0, <3>2, <4>2 DEF Relied, Same
    <3>3. CASE request[s].kind = "list"
      <4>1. Uses(request[s]) = Keys
        BY <3>0, <3>3, WritesUses
      <4>2. \A k \in Keys : object'[k] = object[k]
        BY <3>0, <4>1 DEF Frame
      <4>3. Rows' = Rows
        BY <4>2 DEF Rows
      <4> QED BY <2>1, <2>2, <3>0, <3>3, <4>3 DEF Relied, Same, Rank
    <3>4. CASE request[s].kind \notin {"copy", "delete", "part", "complete", "abort", "list"}
      BY <2>1, <2>2, <3>0, <3>4 DEF Relied, Same
    <3> QED BY <3>1, <3>2, <3>3, <3>4
  <2> QED BY <2>3, <2>4
<1>5. ASSUME NEW s \in Requests \ {r} PROVE Shaped(request[s])' /\ Relied(request[s])'
  BY <1>4 DEF Relied, Shaped
<1> QED BY <1>3, <1>5


\* What a step has to leave of rows and files.
Settled(r) ==
  /\ \A k \in Keys :
       \/ file'[k] \in {object'[k], Torn}
       \/ request'[r].kind = "delete" /\ request'[r].at = "recorded" /\ request'[r].key = k
       \/ file'[k] = file[k] /\ object'[k] = object[k] /\ ~(At(r, "delete", "recorded") /\ request[r].key = k)
  /\ \/ partFile' = Torn
     \/ upload' /\ partRow' <=> partFile' = "put"
     \/ request'[r].kind \in {"complete", "abort"} /\ request'[r].at = "recorded"
     \/ UNCHANGED <<upload, partRow, partFile>> /\ ~At(r, "complete", "recorded") /\ ~At(r, "abort", "recorded")

LEMMA SettledAgrees ==
  ASSUME StoreInv, NEW r \in Requests, Turn(r), Settled(r)
  PROVE  Agree'
<1>1. \A s \in Requests \ {r} : Same(request[s], request'[s])
  BY DEF Turn
<1>2. ASSUME NEW k \in Keys PROVE file'[k] \in {object'[k], Torn} \/ Deleting(k)'
  <2>1. CASE file'[k] = file[k] /\ object'[k] = object[k] /\ ~(At(r, "delete", "recorded") /\ request[r].key = k)
    <3>1. file[k] \in {object[k], Torn} \/ Deleting(k)
      BY DEF StoreInv, Agree
    <3>2. CASE Deleting(k)
      <4>1. PICK s \in Requests : At(s, "delete", "recorded") /\ request[s].key = k
        BY <3>2 DEF Deleting
      <4>2. s # r
        BY <2>1, <4>1
      <4>3. At(s, "delete", "recorded")' /\ request'[s].key = k
        BY <1>1, <4>1, <4>2 DEF Same, At
      <4> QED BY <4>3 DEF Deleting
    <3> QED BY <2>1, <3>1, <3>2
  <2>2. CASE request'[r].kind = "delete" /\ request'[r].at = "recorded" /\ request'[r].key = k
    BY <2>2 DEF Deleting, At
  <2> QED BY <2>1, <2>2 DEF Settled
<1>3. partFile' = Torn \/ (upload' /\ partRow' <=> partFile' = "put") \/ Discarding'
  <2>1. CASE UNCHANGED <<upload, partRow, partFile>> /\ ~At(r, "complete", "recorded") /\ ~At(r, "abort", "recorded")
    <3>1. Discarding => Discarding'
      <4> SUFFICES ASSUME Discarding PROVE Discarding'
        OBVIOUS
      <4>1. PICK s \in Requests : At(s, "complete", "recorded") \/ At(s, "abort", "recorded")
        BY DEF Discarding
      <4>2. s # r
        BY <2>1, <4>1
      <4>3. At(s, "complete", "recorded")' \/ At(s, "abort", "recorded")'
        BY <1>1, <4>1, <4>2 DEF Same, At
      <4> QED BY <4>3 DEF Discarding
    <3> QED BY <2>1, <3>1 DEF StoreInv, Agree
  <2>2. CASE request'[r].kind \in {"complete", "abort"} /\ request'[r].at = "recorded"
    BY <2>2 DEF Discarding, At
  <2> QED BY <2>1, <2>2 DEF Settled
<1> QED BY <1>2, <1>3 DEF Agree

StoreTypes ==
  /\ object \in [Keys -> {Absent, "put", "parts"}]
  /\ file \in [Keys -> {Absent, Torn, "put", "parts"}]
  /\ tagged \subseteq Keys
  /\ upload \in BOOLEAN /\ partRow \in BOOLEAN
  /\ partFile \in {Absent, Torn, "put"}

LEMMA TurnKeeps ==
  ASSUME StoreInv, NEW r \in Requests, Turn(r), Frame(r), Settled(r), StoreTypes', (tagged \subseteq Rows)',
         Shaped(request[r])', Relied(request[r])'
  PROVE  StoreInv'
<1>1. StoreType'
  BY DEF StoreType, StoreTypes, RequestSet, Turn
<1>2. Exclusive' /\ \A s \in Requests \ {r} : Shaped(request[s])' /\ Relied(request[s])'
  BY OthersKept
<1>3. \A s \in Requests : Shaped(request[s])' /\ Relied(request[s])'
  BY <1>2
<1> QED BY <1>1, <1>2, <1>3, SettledAgrees DEF StoreInv

\* A request that nobody disturbs finds the files that the rows tell of.
LEMMA CleanAgrees ==
  ASSUME StoreInv, NEW r \in Requests, request[r].clean, ~At(r, "delete", "recorded"),
         NEW k \in Keys, k \in Uses(request[r])
  PROVE  file[k] \in {object[k], Torn}
<1>1. ASSUME NEW s \in Requests, At(s, "delete", "recorded"), request[s].key = k PROVE FALSE
  <2>1. s # r
    BY <1>1
  <2>2. request[s] \in RequestSet
    BY DEF StoreInv, StoreType, RequestSet
  <2>3. k \in Writes(request[s])
    BY <1>1, <2>2, WritesUses DEF At
  <2> QED BY <2>1, <2>3 DEF StoreInv, Exclusive
<1> QED BY <1>1 DEF StoreInv, Agree, Deleting

LEMMA Numbered ==
  ASSUME StoreType, NEW k \in Rows
  PROVE  Rank(k) \in Nat /\ Rank(k) <= Cardinality(Keys) /\ IsFiniteSet({j \in Rows : j < k})
<1>1. {j \in Rows : j < k} \in SUBSET Keys
  BY DEF Rows
<1> QED BY <1>1, FS_Subset, FS_CardinalityType, BigKeyIsKey DEF Rank

\* The rows at the offsets are all there are: a page that is empty ends the list.
LEMMA NoGap ==
  ASSUME StoreType, NEW n \in Nat, AtOffset(n + 1) = {}, NEW k \in Rows
  PROVE  Rank(k) <= n
<1>k. Rank(k) \in Nat
  BY Numbered, Zenon
<1> SUFFICES ASSUME Rank(k) > n PROVE FALSE
  BY <1>k
<1> DEFINE T == {j \in Rows : Rank(j) > n}
<1>0. Rows \subseteq Nat /\ Rows \subseteq Keys /\ Keys = 1..Cardinality(Keys) /\ Cardinality(Keys) \in Nat
  BY BigKeyIsKey, StoreAssumption, FS_CardinalityType DEF Rows
<1>1. T \subseteq Nat /\ T # {}
  BY <1>0
<1>2. PICK m \in T : \A j \in T : m <= j
  <2> HIDE DEF T
  <2> QED BY <1>1, LeastNumber
<1> DEFINE B == {j \in Rows : j < m}
<1>3. m \in Rows /\ Rank(m) = Cardinality(B) /\ Rank(m) \in Nat /\ Rank(m) > n /\ Rank(m) # n + 1 /\ IsFiniteSet(B)
  BY <1>2, Numbered DEF Rank, AtOffset
<1>4. B # {}
  BY <1>3, FS_EmptySet
<1>5. B \subseteq 0..Cardinality(Keys)
  <2>1. Keys \subseteq 0..Cardinality(Keys)
    BY <1>0
  <2> QED BY <1>0, <2>1
<1>6. PICK h \in B : \A j \in B : j <= h
  <2> HIDE DEF B
  <2> QED BY <1>0, <1>4, <1>5, GreatestNumber
<1>7. h \in Rows /\ {j \in Rows : j < h} = B \ {h}
  <2>1. m \in Nat /\ h \in Nat /\ h < m /\ h \in Rows
    BY <1>0, <1>3, <1>6
  <2>2. ASSUME NEW j \in Rows PROVE j < h <=> j < m /\ j # h
    <3>1. j \in Nat /\ (j < m => j <= h)
      BY <1>0, <1>6
    <3> QED BY <2>1, <3>1
  <2> QED BY <2>1, <2>2
<1>8. Rank(h) = Cardinality(B) - 1
  <2> HIDE DEF B
  <2> QED BY <1>3, <1>6, <1>7, FS_RemoveElement DEF Rank
<1>9. h \notin T
  BY <1>0, <1>2, <1>6
<1>10. ~(Rank(h) > n) /\ Rank(h) \in Nat
  BY <1>7, <1>9, Numbered
<1> QED BY <1>3, <1>8, <1>10

-----------------------------------------------------------------------------
LEMMA PartsOfInv ==
  ASSUME StoreInv
  PROVE  /\ request \in [Requests -> RequestSet]
         /\ StoreTypes /\ tagged \subseteq Rows /\ Rows \subseteq Keys
         /\ \A r \in Requests : Shaped(request[r]) /\ Relied(request[r]) /\ request[r] \in RequestSet
BY DEF StoreInv, StoreType, StoreTypes, RequestSet, Rows

\* How q may start.
Opens(q) ==
  /\ q.kind \in {"put", "delete", "copy", "rename", "tag", "get"} => q.key \in Keys
  /\ q.kind \in {"copy", "rename"} => q.from \in Keys
  /\ q.kind \in {"part", "abort"} => q.key = Upload
  /\ q.kind = "complete" => q.key = BigKey
  /\ \A k \in Keys \ Writes(q) : file'[k] = file[k]
  /\ UNCHANGED <<object, tagged>>
  /\ Upload \in Writes(q) \/ UNCHANGED <<upload, partRow, partFile>>
  /\ \A k \in Keys : file'[k] \in {file[k], Torn}
  /\ file' \in [Keys -> {Absent, Torn, "put", "parts"}]
  /\ partFile' \in {partFile, Torn} /\ upload' \in BOOLEAN /\ partRow' \in BOOLEAN
  /\ \/ partFile' = Torn
     \/ UNCHANGED <<upload, partRow, partFile>>
     \/ q.kind = "abort" /\ q.at = "recorded"
  /\ q.kind = "copy" => object[q.from] # Absent
  /\ q.kind = "part" => upload'
  /\ q.at = "start" \/ (q.kind = "abort" /\ ~upload')
  /\ q.kind = "list" => q.seen = {} /\ q.offset = 0

\* The start of a request: it has written nothing yet, and relies on what it finds.
LEMMA StartKeeps ==
  ASSUME StoreInv, NEW r \in Requests, TakesPlace(r), NEW q \in RequestSet, Starts(r, q),
         Opens(q)
  PROVE  StoreInv'
<1>1. request[r].kind = "none"
  BY DEF TakesPlace
<1>2. /\ Turn(r) /\ Same(q, request'[r])
      /\ request'[r].clean => q.key # q.from /\ \A s \in Requests : Writes(request[s]) \cap Uses(q) = {}
      /\ Writes(request'[r]) = Writes(q) /\ Uses(request'[r]) = Uses(q)
  BY <1>1, StartsTurn
<1>3. Written(r) = Writes(q)
  <2>1. Writes(request[r]) = {}
    BY <1>1, PartsOfInv, WritesUses
  <2> QED BY <1>2, <2>1 DEF Written
<1>4. Frame(r)
  BY <1>3 DEF Frame, Opens
<1>5. Settled(r)
  <2>1. ~At(r, "delete", "recorded") /\ ~At(r, "complete", "recorded") /\ ~At(r, "abort", "recorded")
    BY <1>1 DEF At
  <2>2. \A k \in Keys : file'[k] \in {object'[k], Torn} \/ (file'[k] = file[k] /\ object'[k] = object[k])
    BY DEF Opens
  <2>3. \/ partFile' = Torn \/ UNCHANGED <<upload, partRow, partFile>>
        \/ request'[r].kind = "abort" /\ request'[r].at = "recorded"
    BY <1>2 DEF Same, Opens
  <2> QED BY <2>1, <2>2, <2>3 DEF Settled
<1>6. StoreTypes'
  BY PartsOfInv DEF StoreTypes, Opens
<1>7. (tagged \subseteq Rows)'
  BY PartsOfInv DEF Rows, Opens
<1>8. Shaped(request[r])'
  BY <1>2 DEF Shaped, Same, Opens
<1>9. Relied(request[r])'
  <2>1. q.kind = "list" => {k \in Rows' : Rank(k)' < q.offset} = {}
    <3> SUFFICES ASSUME q.kind = "list", NEW k \in Rows' PROVE ~(Rank(k)' < 0)
      BY DEF Opens
    <3>1. Rows' = Rows
      BY DEF Rows, Opens
    <3>2. Rank(k) \in Nat
      BY <3>1, Numbered DEF StoreInv
    <3>3. Rank(k)' = Rank(k)
      BY <3>1 DEF Rank
    <3> QED BY <3>2, <3>3
  <2> QED BY <1>2, <2>1 DEF Relied, Same, Opens
<1> QED BY <1>2, <1>4, <1>5, <1>6, <1>7, <1>8, <1>9, TurnKeeps

LEMMA StartsKeep ==
  ASSUME StoreInv, NEW r \in Requests, NEW k \in Keys, NEW from \in Keys,
         \/ PutStarts(r, k) \/ DeleteStarts(r, k) \/ TagStarts(r, k) \/ GetStarts(r, k)
         \/ CopyStarts(r, from, k) \/ RenameStarts(r, from, k)
         \/ PartStarts(r) \/ CompleteStarts(r) \/ AbortStarts(r) \/ ListStarts(r)
  PROVE  StoreInv'
<1>0. /\ BigKey \in Keys /\ Upload \notin Keys
      /\ object \in [Keys -> {Absent, "put", "parts"}] /\ file \in [Keys -> {Absent, Torn, "put", "parts"}]
      /\ upload \in BOOLEAN /\ partRow \in BOOLEAN
  BY BigKeyIsKey, PartsOfInv DEF StoreTypes
<1>1. CASE PutStarts(r, k)
  <2> DEFINE q == [NoRequest EXCEPT !.kind = "put", !.key = k, !.from = Upload]
  <2>1. q \in RequestSet
    BY <1>0 DEF NoRequest, RequestSet, Kinds
  <2>2. /\ q.kind = "put" /\ q.key = k /\ q.from = Upload /\ q.at = "start" /\ q.seen = {} /\ q.offset = 0
    BY DEF NoRequest
  <2>3. Starts(r, q) /\ TakesPlace(r)
    BY <1>1 DEF PutStarts
  <2> HIDE DEF q
  <2>4. Writes(q) = {k}
    BY <2>1, <2>2, WritesUses
  <2>5. Opens(q)
    BY <1>0, <1>1, <2>2, <2>4 DEF Opens, PutStarts
  <2> QED BY <2>1, <2>3, <2>5, StartKeeps
<1>2. CASE DeleteStarts(r, k)
  <2> DEFINE q == [NoRequest EXCEPT !.kind = "delete", !.key = k]
  <2>1. q \in RequestSet
    BY <1>0 DEF NoRequest, RequestSet, Kinds
  <2>2. /\ q.kind = "delete" /\ q.key = k /\ q.from = Upload /\ q.at = "start" /\ q.seen = {} /\ q.offset = 0
    BY DEF NoRequest
  <2>3. Starts(r, q) /\ TakesPlace(r)
    BY <1>2 DEF DeleteStarts
  <2> HIDE DEF q
  <2>4. Writes(q) = {k}
    BY <2>1, <2>2, WritesUses
  <2>5. Opens(q)
    BY <1>0, <1>2, <2>2, <2>4 DEF Opens, DeleteStarts
  <2> QED BY <2>1, <2>3, <2>5, StartKeeps
<1>3. CASE TagStarts(r, k)
  <2> DEFINE q == [NoRequest EXCEPT !.kind = "tag", !.key = k]
  <2>1. q \in RequestSet
    BY <1>0 DEF NoRequest, RequestSet, Kinds
  <2>2. /\ q.kind = "tag" /\ q.key = k /\ q.from = Upload /\ q.at = "start" /\ q.seen = {} /\ q.offset = 0
    BY DEF NoRequest
  <2>3. Starts(r, q) /\ TakesPlace(r)
    BY <1>3 DEF TagStarts
  <2> HIDE DEF q
  <2>4. Writes(q) = {}
    BY <2>1, <2>2, WritesUses
  <2>5. Opens(q)
    BY <1>0, <1>3, <2>2, <2>4 DEF Opens, TagStarts
  <2> QED BY <2>1, <2>3, <2>5, StartKeeps
<1>4. CASE GetStarts(r, k)
  <2> DEFINE q == [NoRequest EXCEPT !.kind = "get", !.key = k]
  <2>1. q \in RequestSet
    BY <1>0 DEF NoRequest, RequestSet, Kinds
  <2>2. /\ q.kind = "get" /\ q.key = k /\ q.from = Upload /\ q.at = "start" /\ q.seen = {} /\ q.offset = 0
    BY DEF NoRequest
  <2>3. Starts(r, q) /\ TakesPlace(r)
    BY <1>4 DEF GetStarts
  <2> HIDE DEF q
  <2>4. Writes(q) = {}
    BY <2>1, <2>2, WritesUses
  <2>5. Opens(q)
    BY <1>0, <1>4, <2>2, <2>4 DEF Opens, GetStarts
  <2> QED BY <2>1, <2>3, <2>5, StartKeeps
<1>5. CASE CopyStarts(r, from, k)
  <2> DEFINE q == [NoRequest EXCEPT !.kind = "copy", !.key = k, !.from = from]
  <2>1. q \in RequestSet
    BY <1>0 DEF NoRequest, RequestSet, Kinds
  <2>2. /\ q.kind = "copy" /\ q.key = k /\ q.from = from /\ q.at = "start" /\ q.seen = {} /\ q.offset = 0
    BY DEF NoRequest
  <2>3. Starts(r, q) /\ TakesPlace(r)
    BY <1>5 DEF CopyStarts
  <2> HIDE DEF q
  <2>4. Writes(q) = {k}
    BY <2>1, <2>2, WritesUses
  <2>5. Opens(q)
    BY <1>0, <1>5, <2>2, <2>4 DEF Opens, CopyStarts
  <2> QED BY <2>1, <2>3, <2>5, StartKeeps
<1>6. CASE RenameStarts(r, from, k)
  <2> DEFINE q == [NoRequest EXCEPT !.kind = "rename", !.key = k, !.from = from]
  <2>1. q \in RequestSet
    BY <1>0 DEF NoRequest, RequestSet, Kinds
  <2>2. /\ q.kind = "rename" /\ q.key = k /\ q.from = from /\ q.at = "start" /\ q.seen = {} /\ q.offset = 0
    BY DEF NoRequest
  <2>3. Starts(r, q) /\ TakesPlace(r)
    BY <1>6 DEF RenameStarts
  <2> HIDE DEF q
  <2>4. Writes(q) = {k, from}
    BY <2>1, <2>2, WritesUses
  <2>5. Opens(q)
    BY <1>0, <1>6, <2>2, <2>4 DEF Opens, RenameStarts
  <2> QED BY <2>1, <2>3, <2>5, StartKeeps
<1>7. CASE PartStarts(r)
  <2> DEFINE q == [NoRequest EXCEPT !.kind = "part", !.from = BigKey]
  <2>1. q \in RequestSet
    BY <1>0 DEF NoRequest, RequestSet, Kinds
  <2>2. /\ q.kind = "part" /\ q.key = Upload /\ q.from = BigKey /\ q.at = "start" /\ q.seen = {} /\ q.offset = 0
    BY DEF NoRequest
  <2>3. Starts(r, q) /\ TakesPlace(r)
    BY <1>7 DEF PartStarts
  <2> HIDE DEF q
  <2>4. Writes(q) = {Upload}
    BY <2>1, <2>2, WritesUses
  <2>5. Opens(q)
    BY <1>0, <1>7, <2>2, <2>4 DEF Opens, PartStarts
  <2> QED BY <2>1, <2>3, <2>5, StartKeeps
<1>8. CASE CompleteStarts(r)
  <2> DEFINE q == [NoRequest EXCEPT !.kind = "complete", !.key = BigKey]
  <2>1. q \in RequestSet
    BY <1>0 DEF NoRequest, RequestSet, Kinds
  <2>2. /\ q.kind = "complete" /\ q.key = BigKey /\ q.from = Upload /\ q.at = "start" /\ q.seen = {} /\ q.offset = 0
    BY DEF NoRequest
  <2>3. Starts(r, q) /\ TakesPlace(r)
    BY <1>8 DEF CompleteStarts
  <2> HIDE DEF q
  <2>4. Writes(q) = {BigKey, Upload}
    BY <2>1, <2>2, WritesUses
  <2>5. Opens(q)
    BY <1>0, <1>8, <2>2, <2>4 DEF Opens, CompleteStarts
  <2> QED BY <2>1, <2>3, <2>5, StartKeeps
<1>9. CASE AbortStarts(r)
  <2> DEFINE q == [NoRequest EXCEPT !.kind = "abort", !.from = BigKey, !.at = "recorded"]
  <2>1. q \in RequestSet
    BY <1>0 DEF NoRequest, RequestSet, Kinds
  <2>2. /\ q.kind = "abort" /\ q.key = Upload /\ q.from = BigKey /\ q.at = "recorded" /\ q.seen = {} /\ q.offset = 0
    BY DEF NoRequest
  <2>3. Starts(r, q) /\ TakesPlace(r)
    BY <1>9 DEF AbortStarts
  <2> HIDE DEF q
  <2>4. Writes(q) = {Upload}
    BY <2>1, <2>2, WritesUses
  <2>5. Opens(q)
    BY <1>0, <1>9, <2>2, <2>4 DEF Opens, AbortStarts
  <2> QED BY <2>1, <2>3, <2>5, StartKeeps
<1>10. CASE ListStarts(r)
  <2> DEFINE q == [NoRequest EXCEPT !.kind = "list", !.key = BigKey]
  <2>1. q \in RequestSet
    BY <1>0 DEF NoRequest, RequestSet, Kinds
  <2>2. /\ q.kind = "list" /\ q.key = BigKey /\ q.from = Upload /\ q.at = "start" /\ q.seen = {} /\ q.offset = 0
    BY DEF NoRequest
  <2>3. Starts(r, q) /\ TakesPlace(r)
    BY <1>10 DEF ListStarts
  <2> HIDE DEF q
  <2>4. Writes(q) = {}
    BY <2>1, <2>2, WritesUses
  <2>5. Opens(q)
    BY <1>0, <1>10, <2>2, <2>4 DEF Opens, ListStarts
  <2> QED BY <2>1, <2>3, <2>5, StartKeeps
<1> QED BY <1>1, <1>2, <1>3, <1>4, <1>5, <1>6, <1>7, <1>8, <1>9, <1>10

-----------------------------------------------------------------------------
\* A request that is over has left what it should.
LEMMA EndKeeps ==
  ASSUME StoreInv, NEW r \in Requests, Ends(r),
         \A k \in Keys \ Writes(request[r]) : object'[k] = object[k] /\ file'[k] = file[k],
         Upload \in Writes(request[r]) \/ UNCHANGED <<upload, partRow, partFile>>,
         Settled(r), StoreTypes', (tagged \subseteq Rows)'
  PROVE  StoreInv'
<1>1. Turn(r) /\ request'[r] = NoRequest /\ Written(r) = Writes(request[r])
  BY EndsTurn
<1>2. Frame(r)
  BY <1>1 DEF Frame
<1>3. Shaped(request[r])' /\ Relied(request[r])'
  BY <1>1 DEF Shaped, Relied, NoRequest
<1> QED BY <1>1, <1>2, <1>3, TurnKeeps

LEMMA MoveKeeps ==
  ASSUME StoreInv, NEW r \in Requests, NEW q \in RequestSet, request' = [request EXCEPT ![r] = q],
         Writes(q) \subseteq Writes(request[r]), Uses(q) \subseteq Uses(request[r]),
         q.clean => request[r].clean \/ Uses(q) = {},
         \A k \in Keys \ Writes(request[r]) : object'[k] = object[k] /\ file'[k] = file[k],
         Upload \in Writes(request[r]) \/ UNCHANGED <<upload, partRow, partFile>>,
         Settled(r), StoreTypes', (tagged \subseteq Rows)', Shaped(q), Relied(request[r])'
  PROVE  StoreInv'
<1>1. Turn(r) /\ request'[r] = q /\ Written(r) = Writes(request[r])
  BY MovesTurn
<1>2. Frame(r)
  BY <1>1 DEF Frame
<1>3. Shaped(request[r])'
  BY <1>1 DEF Shaped
<1> QED BY <1>1, <1>2, <1>3, TurnKeeps

\* Reads, tags and writes that fail leave rows and files as they are.
LEMMA UntouchedSettled ==
  ASSUME StoreInv, NEW r \in Requests,
         ~At(r, "delete", "recorded"), ~At(r, "complete", "recorded"), ~At(r, "abort", "recorded"),
         UNCHANGED <<object, file, upload, partRow, partFile>>
  PROVE  /\ Settled(r) /\ Rows' = Rows
         /\ \A k \in Keys \ Writes(request[r]) : object'[k] = object[k] /\ file'[k] = file[k]
BY DEF Settled, Rows

LEMMA QuietEndsKeep ==
  ASSUME StoreInv, NEW r \in Requests, WriteFails(r) \/ TagSet(r) \/ ReadEnds(r)
  PROVE  StoreInv'
<1>1. /\ Ends(r) /\ UNCHANGED <<object, file, upload, partRow, partFile>>
      /\ ~At(r, "delete", "recorded") /\ ~At(r, "complete", "recorded") /\ ~At(r, "abort", "recorded")
  BY DEF WriteFails, TagSet, ReadEnds, At
<1>2. tagged' \subseteq Rows
  <2>1. CASE TagSet(r)
    <3>1. request[r].key \in Keys
      BY <2>1, PartsOfInv DEF TagSet, At, Shaped
    <3> QED BY <2>1, <3>1, PartsOfInv DEF TagSet, Rows
  <2>2. CASE WriteFails(r) \/ ReadEnds(r)
    BY <2>2, PartsOfInv DEF WriteFails, ReadEnds
  <2> QED BY <2>1, <2>2
<1>3. Settled(r) /\ Rows' = Rows
      /\ \A k \in Keys \ Writes(request[r]) : object'[k] = object[k] /\ file'[k] = file[k]
  BY <1>1, UntouchedSettled
<1>4. StoreTypes'
  BY <1>1, <1>2, PartsOfInv DEF StoreTypes
<1> QED BY <1>1, <1>2, <1>3, <1>4, EndKeeps

LEMMA PutEndsKeeps ==
  ASSUME StoreInv, NEW r \in Requests, PutEnds(r)
  PROVE  StoreInv'
<1> DEFINE k == request[r].key
<1>1. k \in Keys /\ Writes(request[r]) = {k} /\ request[r].at = "start" /\ request[r].kind = "put"
  BY PartsOfInv, WritesUses DEF PutEnds, At, Shaped
<1>2. /\ object' = [object EXCEPT ![k] = "put"]
      /\ file' = [file EXCEPT ![k] = IF request[r].clean THEN "put" ELSE Torn]
      /\ tagged' = tagged \ {k} /\ UNCHANGED <<upload, partRow, partFile>>
  BY DEF PutEnds, Leaves
<1>3. Settled(r)
  BY <1>1, <1>2, PartsOfInv DEF Settled, StoreTypes, At
<1>4. StoreTypes' /\ (tagged \subseteq Rows)'
  BY <1>1, <1>2, PartsOfInv DEF StoreTypes, Rows
<1>5. \A j \in Keys \ Writes(request[r]) : object'[j] = object[j] /\ file'[j] = file[j]
  BY <1>1, <1>2, PartsOfInv DEF StoreTypes
<1>6. CASE Ends(r)
  BY <1>2, <1>3, <1>4, <1>5, <1>6, EndKeeps
<1>7. CASE request' = [request EXCEPT ![r].kind = "delete"]
  <2> DEFINE q == [request[r] EXCEPT !.kind = "delete"]
  <2>1. /\ q \in RequestSet /\ request' = [request EXCEPT ![r] = q]
        /\ q.kind = "delete" /\ q.key = k /\ q.from = request[r].from /\ q.clean = request[r].clean /\ q.at = "start"
    BY <1>1, <1>7, PartsOfInv DEF RequestSet, Kinds
  <2> HIDE DEF q
  <2>2. Writes(q) = {k} /\ Uses(q) = {k} /\ Uses(request[r]) = {k}
    BY <1>1, <2>1, PartsOfInv, WritesUses
  <2>3. Shaped(q)
    BY <1>1, <2>1, PartsOfInv DEF Shaped
  <2>4. Relied(request[r])'
    BY <2>1, PartsOfInv DEF Relied
  <2> QED BY <1>1, <1>2, <1>3, <1>4, <1>5, <2>1, <2>2, <2>3, <2>4, MoveKeeps
<1> QED BY <1>6, <1>7 DEF PutEnds

LEMMA DeleteKeeps ==
  ASSUME StoreInv, NEW r \in Requests, DeleteRow(r) \/ DeleteFile(r)
  PROVE  StoreInv'
<1> DEFINE k == request[r].key
<1>1. k \in Keys /\ Writes(request[r]) = {k} /\ Uses(request[r]) = {k} /\ request[r].kind = "delete"
  BY PartsOfInv, WritesUses DEF DeleteRow, DeleteFile, At, Shaped
<1>2. CASE DeleteRow(r)
  <2> DEFINE q == [request[r] EXCEPT !.at = "recorded"]
  <2>1. /\ q \in RequestSet /\ request' = [request EXCEPT ![r] = q]
        /\ q.kind = "delete" /\ q.key = k /\ q.from = request[r].from /\ q.clean = request[r].clean
        /\ q.at = "recorded" /\ request'[r] = q
    BY <1>1, <1>2, PartsOfInv DEF DeleteRow, Moves, RequestSet
  <2> HIDE DEF q
  <2>2. Writes(q) = {k} /\ Uses(q) = {k}
    BY <1>1, <2>1, WritesUses
  <2>3. /\ object' = [object EXCEPT ![k] = Absent] /\ tagged' = tagged \ {k}
        /\ UNCHANGED <<file, upload, partRow, partFile>> /\ request[r].at = "start"
    BY <1>2 DEF DeleteRow, At
  <2>4. StoreTypes' /\ (tagged \subseteq Rows)'
    BY <1>1, <2>3, PartsOfInv DEF StoreTypes, Rows
  <2>5. \A j \in Keys \ {k} : object'[j] = object[j] /\ file'[j] = file[j]
    BY <2>3, PartsOfInv DEF StoreTypes
  <2>6. Settled(r)
    BY <1>1, <2>1, <2>3, <2>5 DEF Settled, At
  <2>7. Shaped(q)
    BY <1>1, <2>1, PartsOfInv DEF Shaped
  <2>8. Relied(request[r])'
    BY <1>1, <2>1, <2>3, PartsOfInv DEF Relied, StoreTypes
  <2> QED BY <1>1, <2>1, <2>2, <2>3, <2>4, <2>5, <2>6, <2>7, <2>8, MoveKeeps
<1>3. CASE DeleteFile(r)
  <2>1. /\ Ends(r) /\ UNCHANGED <<object, tagged, upload, partRow, partFile>> /\ request[r].at = "recorded"
        /\ file' = [file EXCEPT ![k] = IF request[r].clean THEN Absent ELSE Torn]
    BY <1>3 DEF DeleteFile, At, Leaves
  <2>2. request[r].clean => object[k] = Absent
    BY <1>1, <2>1, PartsOfInv DEF Relied
  <2>3. StoreTypes' /\ (tagged \subseteq Rows)'
    BY <1>1, <2>1, PartsOfInv DEF StoreTypes, Rows
  <2>4. \A j \in Keys \ {k} : object'[j] = object[j] /\ file'[j] = file[j]
    BY <2>1, PartsOfInv DEF StoreTypes
  <2>5. Settled(r)
    BY <1>1, <2>1, <2>2, <2>4, PartsOfInv DEF Settled, At, StoreTypes
  <2> QED BY <1>1, <2>1, <2>3, <2>4, <2>5, EndKeeps
<1> QED BY <1>2, <1>3

LEMMA CopyEndsKeeps ==
  ASSUME StoreInv, NEW r \in Requests, CopyEnds(r)
  PROVE  StoreInv'
<1> DEFINE k == request[r].key
           from == request[r].from
           original == file[from]
<1>1. /\ k \in Keys /\ from \in Keys /\ Writes(request[r]) = {k} /\ Uses(request[r]) = {k, from}
      /\ request[r].kind = "copy" /\ request[r].at = "start"
  BY PartsOfInv, WritesUses DEF CopyEnds, At, Shaped
<1>2. /\ object' = [object EXCEPT ![k] = IF request[r].clean /\ original \notin {Torn, Absent} THEN original ELSE "put"]
      /\ file' = [file EXCEPT ![k] = IF request[r].clean THEN original ELSE Torn]
      /\ tagged' = tagged \ {k} /\ Ends(r) /\ UNCHANGED <<upload, partRow, partFile>>
  BY DEF CopyEnds, Leaves
<1>3. original \in {Absent, Torn, "put", "parts"} /\ object[from] \in {Absent, "put", "parts"}
  BY <1>1, PartsOfInv DEF StoreTypes
<1>4. request[r].clean => original # Absent
  <2> SUFFICES ASSUME request[r].clean PROVE original # Absent
    OBVIOUS
  <2>1. object[from] # Absent
    BY <1>1, PartsOfInv DEF Relied
  <2>2. original \in {object[from], Torn}
    BY <1>1, CleanAgrees DEF At
  <2> QED BY <2>1, <2>2 DEF Absent, Torn
<1> HIDE DEF original
<1>5. StoreTypes' /\ (tagged \subseteq Rows)'
  <2>1. "put" # Absent
    BY DEF Absent
  <2> QED BY <1>1, <1>2, <1>3, <2>1, PartsOfInv DEF StoreTypes, Rows
<1>6. \A j \in Keys \ {k} : object'[j] = object[j] /\ file'[j] = file[j]
  BY <1>2, PartsOfInv DEF StoreTypes
<1>7. Settled(r)
  <2>1. file'[k] \in {object'[k], Torn}
    BY <1>1, <1>2, <1>3, <1>4, PartsOfInv DEF StoreTypes
  <2> QED BY <1>1, <1>2, <1>6, <2>1 DEF Settled, At
<1> QED BY <1>1, <1>2, <1>5, <1>6, <1>7, EndKeeps

LEMMA RenameEndsKeeps ==
  ASSUME StoreInv, NEW r \in Requests, RenameEnds(r)
  PROVE  StoreInv'
<1> DEFINE k == request[r].key
           from == request[r].from
<1>1. /\ k \in Keys /\ from \in Keys /\ Writes(request[r]) = {k, from} /\ Uses(request[r]) = {k, from}
      /\ request[r].kind = "rename" /\ request[r].at = "start" /\ (request[r].clean => k # from)
  BY PartsOfInv, WritesUses DEF RenameEnds, At, Shaped
<1>2. Ends(r) /\ UNCHANGED <<upload, partRow, partFile>>
  BY DEF RenameEnds
<1>3. /\ object \in [Keys -> {Absent, "put", "parts"}] /\ file \in [Keys -> {Absent, Torn, "put", "parts"}]
      /\ tagged \subseteq Rows
  BY PartsOfInv DEF StoreTypes
<1>4. CASE object[k] # Absent /\ k # from
  <2>1. file' = [file EXCEPT ![k] = Torn] /\ UNCHANGED <<object, tagged>>
    BY <1>4 DEF RenameEnds
  <2>2. StoreTypes' /\ (tagged \subseteq Rows)'
    BY <1>1, <1>2, <2>1, PartsOfInv DEF StoreTypes, Rows
  <2>3. Settled(r)
    BY <1>1, <1>2, <1>3, <2>1 DEF Settled, At
  <2> QED BY <1>1, <1>2, <1>3, <2>1, <2>2, <2>3, EndKeeps
<1>5. CASE ~(object[k] # Absent /\ k # from)
  <2>1. /\ file' = [file EXCEPT ![k] = IF request[r].clean THEN file[from] ELSE Torn,
                                ![from] = IF request[r].clean THEN Absent ELSE Torn]
        /\ object' = [[object EXCEPT ![from] = Absent] EXCEPT ![k] = object[from]]
        /\ tagged' = IF from \in tagged THEN (tagged \ {from}) \cup {k} ELSE tagged
    BY <1>5 DEF RenameEnds
  <2>2. \A j \in Keys \ {k, from} : object'[j] = object[j] /\ file'[j] = file[j]
    BY <1>3, <2>1
  <2>3. /\ object'[k] = object[from] /\ (k # from => object'[from] = Absent)
        /\ object' \in [Keys -> {Absent, "put", "parts"}] /\ file' \in [Keys -> {Absent, Torn, "put", "parts"}]
        /\ ~request[r].clean => file'[k] = Torn /\ file'[from] = Torn
        /\ request[r].clean => file'[k] = file[from] /\ file'[from] = Absent
    BY <1>1, <1>3, <2>1
  <2>4. request[r].clean => file[from] \in {object[from], Torn}
    BY <1>1, CleanAgrees DEF At
  <2>5. Settled(r)
    <3>1. file'[k] \in {object'[k], Torn} /\ file'[from] \in {object'[from], Torn}
      BY <1>1, <2>3, <2>4
    <3> QED BY <1>1, <1>2, <2>2, <3>1 DEF Settled, At
  <2>6. tagged' \subseteq Rows'
    <3>1. \A j \in tagged : j \in Keys /\ object[j] # Absent
      BY <1>3 DEF Rows
    <3> SUFFICES ASSUME NEW j \in tagged' PROVE j \in Keys /\ object'[j] # Absent
      BY DEF Rows
    <3>2. CASE from \in tagged
      <4>1. j = k \/ (j \in tagged /\ j # from)
        BY <2>1, <3>2
      <4> QED BY <1>1, <2>2, <2>3, <3>1, <3>2, <4>1
    <3>3. CASE from \notin tagged
      <4>1. j \in tagged /\ j # from
        BY <2>1, <3>3
      <4>2. j # k
        BY <1>5, <3>1, <4>1
      <4> QED BY <2>2, <3>1, <4>1, <4>2
    <3> QED BY <3>2, <3>3
  <2>7. StoreTypes'
    BY <1>2, <2>3, <2>6, PartsOfInv DEF StoreTypes, Rows
  <2> QED BY <1>1, <1>2, <2>2, <2>5, <2>6, <2>7, EndKeeps
<1> QED BY <1>4, <1>5

LEMMA PartEndsKeeps ==
  ASSUME StoreInv, NEW r \in Requests, PartEnds(r)
  PROVE  StoreInv'
<1>1. Writes(request[r]) = {Upload} /\ request[r].kind = "part" /\ request[r].at = "start"
  BY PartsOfInv, WritesUses DEF PartEnds, At
<1>2. /\ partFile' = (IF request[r].clean THEN "put" ELSE Torn) /\ partRow' = TRUE
      /\ Ends(r) /\ UNCHANGED <<object, file, tagged, upload>>
  BY DEF PartEnds, LeavesPart
<1>3. request[r].clean => upload
  BY <1>1, PartsOfInv DEF Relied
<1>4. partFile' = Torn \/ (upload' /\ partRow' <=> partFile' = "put")
  BY <1>2, <1>3
<1>5. Settled(r)
  BY <1>1, <1>2, <1>4 DEF Settled, At
<1>6. StoreTypes' /\ (tagged \subseteq Rows)'
  BY <1>2, PartsOfInv DEF StoreTypes, Rows
<1> QED BY <1>1, <1>2, <1>5, <1>6, EndKeeps

LEMMA PartsRemovedKeeps ==
  ASSUME StoreInv, NEW r \in Requests, PartsRemoved(r)
  PROVE  StoreInv'
<1>1. request[r].kind \in {"complete", "abort"} /\ request[r].at = "recorded" /\ Upload \in Writes(request[r])
  BY PartsOfInv, WritesUses DEF PartsRemoved, At
<1>2. /\ partFile' = (IF request[r].clean THEN Absent ELSE Torn)
      /\ Ends(r) /\ UNCHANGED <<object, file, tagged, upload, partRow>>
  BY DEF PartsRemoved, LeavesPart
<1>3. request[r].clean => ~(upload /\ partRow)
  BY <1>1, PartsOfInv DEF Relied
<1>4. partFile' = Torn \/ (upload' /\ partRow' <=> partFile' = "put")
  BY <1>2, <1>3 DEF Absent
<1>5. Settled(r)
  BY <1>1, <1>2, <1>4 DEF Settled, At
<1>6. StoreTypes' /\ (tagged \subseteq Rows)'
  BY <1>2, PartsOfInv DEF StoreTypes, Rows
<1> QED BY <1>1, <1>2, <1>5, <1>6, EndKeeps

LEMMA CompleteEndsKeeps ==
  ASSUME StoreInv, NEW r \in Requests, CompleteEnds(r)
  PROVE  StoreInv'
<1>0. BigKey \in Keys
  BY BigKeyIsKey
<1>1. /\ Writes(request[r]) = {BigKey, Upload} /\ Uses(request[r]) = {BigKey, Upload}
      /\ request[r].kind = "complete" /\ request[r].at = "start" /\ request[r].key = BigKey
  BY PartsOfInv, WritesUses DEF CompleteEnds, At, Shaped
<1>2. /\ object' = [object EXCEPT ![BigKey] = "parts"]
      /\ file' = [file EXCEPT ![BigKey] = IF request[r].clean THEN IF partFile = Torn THEN Torn ELSE "parts" ELSE Torn]
      /\ tagged' = tagged \ {BigKey} /\ upload' = FALSE /\ partRow' = FALSE /\ UNCHANGED partFile
  BY DEF CompleteEnds, Leaves
<1> DEFINE q == [request[r] EXCEPT !.at = "recorded"]
<1>3. /\ q \in RequestSet /\ request' = [request EXCEPT ![r] = q] /\ request'[r] = q
      /\ q.kind = "complete" /\ q.key = BigKey /\ q.from = request[r].from /\ q.clean = request[r].clean
      /\ q.at = "recorded"
  BY <1>1, PartsOfInv DEF CompleteEnds, Moves, RequestSet
<1> HIDE DEF q
<1>4. Writes(q) = {BigKey, Upload} /\ Uses(q) = {BigKey, Upload}
  BY <1>3, WritesUses
<1>5. StoreTypes' /\ (tagged \subseteq Rows)'
  <2>1. "parts" # Absent
    BY DEF Absent
  <2> QED BY <1>0, <1>2, <2>1, PartsOfInv DEF StoreTypes, Rows
<1>6. \A j \in Keys \ {BigKey} : object'[j] = object[j] /\ file'[j] = file[j]
  BY <1>2, PartsOfInv DEF StoreTypes
<1>7. Settled(r)
  <2>1. file'[BigKey] \in {object'[BigKey], Torn}
    BY <1>0, <1>2, PartsOfInv DEF StoreTypes
  <2> QED BY <1>1, <1>3, <1>6, <2>1 DEF Settled, At
<1>8. Shaped(q)
  BY <1>1, <1>3, PartsOfInv DEF Shaped
<1>9. Relied(request[r])'
  BY <1>2, <1>3 DEF Relied
<1> QED BY <1>1, <1>3, <1>4, <1>5, <1>6, <1>7, <1>8, <1>9, MoveKeeps

\* A body that nobody overwrites is the one its row tells of.
LEMMA BodyReadKeeps ==
  ASSUME StoreInv, NEW r \in Requests, BodyRead(r)
  PROVE  StoreInv'
<1> DEFINE k == request[r].key
           seen == IF file[k] \in {object[k], Torn} THEN {k} ELSE {}
           q == [request[r] EXCEPT !.at = "recorded", !.seen = seen]
<1>1. /\ Writes(request[r]) = {} /\ Uses(request[r]) = {k} /\ k \in Keys
      /\ request[r].kind = "get" /\ request[r].at = "start"
  BY PartsOfInv, WritesUses DEF BodyRead, At, Shaped
<1>2. UNCHANGED <<object, file, tagged, upload, partRow, partFile>>
  BY DEF BodyRead
<1>3. /\ q \in RequestSet /\ request' = [request EXCEPT ![r] = q] /\ request'[r] = q
      /\ q.kind = "get" /\ q.key = k /\ q.from = request[r].from /\ q.clean = request[r].clean
      /\ q.seen = seen
  BY <1>1, PartsOfInv DEF BodyRead, RequestSet
<1> HIDE DEF q
<1>4. Writes(q) = {} /\ Uses(q) = {k}
  BY <1>3, WritesUses
<1>5. request[r].clean => file[k] \in {object[k], Torn}
  BY <1>1, CleanAgrees DEF At
<1>6. Settled(r) /\ Rows' = Rows
      /\ \A j \in Keys \ Writes(request[r]) : object'[j] = object[j] /\ file'[j] = file[j]
  BY <1>1, <1>2, UntouchedSettled DEF At
<1>7. StoreTypes' /\ (tagged \subseteq Rows)'
  BY <1>2, PartsOfInv DEF StoreTypes, Rows
<1>8. Shaped(q)
  BY <1>1, <1>3, PartsOfInv DEF Shaped
<1>9. Relied(request[r])'
  BY <1>3, <1>5 DEF Relied
<1> QED BY <1>1, <1>2, <1>3, <1>4, <1>6, <1>7, <1>8, <1>9, MoveKeeps

\* A listing that nobody disturbs has seen the rows up to its offset.
LEMMA ListPageKeeps ==
  ASSUME StoreInv, NEW r \in Requests, ListPage(r)
  PROVE  StoreInv'
<1> DEFINE n == request[r].offset
           seen == request[r].seen \cup AtOffset(n)
           more == AtOffset(n + 1) # {}
           q == [request[r] EXCEPT !.seen = seen, !.offset = IF more THEN n + 1 ELSE n,
                                   !.at = IF more THEN "start" ELSE "recorded"]
<1>1. /\ Writes(request[r]) = {} /\ Uses(request[r]) = Keys
      /\ request[r].kind = "list" /\ request[r].at = "start"
  BY PartsOfInv, WritesUses DEF ListPage, At
<1>2. UNCHANGED <<object, file, tagged, upload, partRow, partFile>>
  BY DEF ListPage
<1>0. /\ request[r] \in RequestSet /\ StoreType /\ Rows \subseteq Keys /\ n \in Nat /\ n \in Keys \cup {0}
      /\ request[r].seen \subseteq Keys
  <2>1. request[r] \in RequestSet /\ StoreType /\ Rows \subseteq Keys
    BY PartsOfInv DEF StoreInv
  <2>2. request[r].offset \in Keys \cup {0} /\ request[r].seen \subseteq Keys
    BY <2>1 DEF RequestSet
  <2>3. n \in Nat
    <3>1. Keys \cup {0} \subseteq Nat
      BY BigKeyIsKey
    <3> QED BY <2>2, <3>1
  <2> QED BY <2>1, <2>2, <2>3
<1>a. AtOffset(n) = {k \in Rows : Rank(k) = n} /\ AtOffset(n + 1) = {k \in Rows : Rank(k) = n + 1}
  BY DEF AtOffset, Rank
<1>b. more => n + 1 \in Keys
  <2> SUFFICES ASSUME more PROVE n + 1 \in Keys
    OBVIOUS
  <2>1. PICK k \in Rows : Rank(k) = n + 1
    BY <1>a
  <2>2. n + 1 <= Cardinality(Keys)
    BY <1>0, <2>1, Numbered
  <2>3. Cardinality(Keys) \in Nat /\ Keys = 1..Cardinality(Keys)
    BY StoreAssumption, FS_CardinalityType
  <2> QED BY <1>0, <2>2, <2>3
<1>3. /\ q \in RequestSet /\ request' = [request EXCEPT ![r] = q] /\ request'[r] = q
      /\ q.kind = "list" /\ q.key = request[r].key /\ q.from = request[r].from /\ q.clean = request[r].clean
      /\ q.seen = seen /\ q.offset = (IF more THEN n + 1 ELSE n) /\ q.at = (IF more THEN "start" ELSE "recorded")
  <2>1. seen \in SUBSET Keys
    BY <1>0, <1>a
  <2>2. (IF more THEN n + 1 ELSE n) \in Keys \cup {0}
    BY <1>0, <1>b
  <2>3. request' = [request EXCEPT ![r] = q]
    BY <1>0, PartsOfInv DEF ListPage, RequestSet
  <2> HIDE DEF seen, more
  <2>4. q \in RequestSet
    BY <1>0, <2>1, <2>2 DEF RequestSet
  <2>5. /\ q.kind = "list" /\ q.key = request[r].key /\ q.from = request[r].from /\ q.clean = request[r].clean
        /\ q.seen = seen /\ q.offset = (IF more THEN n + 1 ELSE n) /\ q.at = (IF more THEN "start" ELSE "recorded")
    BY <1>0, <1>1 DEF RequestSet
  <2> HIDE DEF q
  <2> QED BY <2>3, <2>4, <2>5, PartsOfInv
<1> HIDE DEF q
<1>4. Writes(q) = {} /\ Uses(q) = Keys
  BY <1>3, WritesUses
<1>5. request[r].clean =>
        /\ more => seen = {k \in Rows : Rank(k) < n + 1}
        /\ ~more => seen = Rows
  <2> SUFFICES ASSUME request[r].clean
               PROVE  (more => seen = {k \in Rows : Rank(k) < n + 1}) /\ (~more => seen = Rows)
    OBVIOUS
  <2>1. request[r].seen = {k \in Rows : Rank(k) < n}
    BY <1>1, PartsOfInv DEF Relied
  <2>2. \A k \in Rows : Rank(k) \in Nat
    BY <1>0, Numbered
  <2>3. seen = {k \in Rows : Rank(k) < n + 1}
    <3>1. \A k \in Rows : Rank(k) < n + 1 <=> Rank(k) < n \/ Rank(k) = n
      BY <1>0, <2>2
    <3> QED BY <1>a, <2>1, <3>1
  <2>4. ~more => \A k \in Rows : Rank(k) <= n
    BY <1>0, NoGap
  <2>5. ~more => \A k \in Rows : Rank(k) < n + 1
    BY <1>0, <2>2, <2>4
  <2> HIDE DEF seen, more
  <2> QED BY <2>3, <2>5
<1>6. Settled(r) /\ Rows' = Rows
      /\ \A j \in Keys \ Writes(request[r]) : object'[j] = object[j] /\ file'[j] = file[j]
  BY <1>1, <1>2, UntouchedSettled DEF At
<1>7. StoreTypes' /\ (tagged \subseteq Rows)'
  BY <1>2, PartsOfInv DEF StoreTypes, Rows
<1>8. Shaped(q)
  BY <1>1, <1>3, PartsOfInv DEF Shaped
<1>9. Relied(request[r])'
  <2>1. {k \in Rows' : Rank(k)' < n + 1} = {k \in Rows : Rank(k) < n + 1}
    BY <1>6 DEF Rank
  <2> HIDE DEF seen, more, n
  <2> QED BY <1>3, <1>5, <1>6, <2>1 DEF Relied
<1> QED BY <1>1, <1>2, <1>3, <1>4, <1>6, <1>7, <1>8, <1>9, MoveKeeps

LEMMA CreateUploadKeeps ==
  ASSUME StoreInv, CreateUpload
  PROVE  StoreInv'
<1>1. /\ upload' = TRUE /\ partRow' = FALSE /\ partFile' = Absent
      /\ UNCHANGED <<object, file, tagged, request>>
      /\ \A r \in Requests : Upload \notin Writes(request[r])
  BY DEF CreateUpload, Busy
<1>2. \A r \in Requests : request[r].kind \notin {"part", "complete", "abort"}
  BY <1>1, PartsOfInv, WritesUses
<1>3. Exclusive' /\ StoreType' /\ (tagged \subseteq Rows)' /\ Rows' = Rows
  <2>1. StoreType' /\ (tagged \subseteq Rows)' /\ Rows' = Rows
    BY <1>1 DEF StoreInv, StoreType, Rows
  <2>2. Exclusive'
    BY <1>1 DEF StoreInv, Exclusive, Writes, Uses
  <2> QED BY <2>1, <2>2
<1>4. Agree'
  <2>1. \A k \in Keys : Deleting(k) => Deleting(k)'
    BY <1>1 DEF Deleting, At
  <2> QED BY <1>1, <2>1 DEF StoreInv, Agree, Absent
<1>5. \A r \in Requests : Shaped(request[r])' /\ Relied(request[r])'
  <2> TAKE r \in Requests
  <2>1. Shaped(request[r]) /\ Relied(request[r]) /\ request[r].kind \notin {"part", "complete", "abort"}
    BY <1>2, PartsOfInv
  <2>2. {k \in Rows' : Rank(k)' < request[r].offset} = {k \in Rows : Rank(k) < request[r].offset}
    BY <1>3 DEF Rank
  <2> QED BY <1>1, <1>3, <2>1, <2>2 DEF Shaped, Relied
<1> QED BY <1>3, <1>4, <1>5 DEF StoreInv

LEMMA StoreExitKeeps ==
  ASSUME StoreInv, StoreExit
  PROVE  StoreInv'
<1>1. /\ request' = [r \in Requests |-> NoRequest]
      /\ file' = [k \in Keys |-> IF Busy(k) THEN Torn ELSE file[k]]
      /\ partFile' = (IF Busy(Upload) THEN Torn ELSE partFile)
      /\ UNCHANGED <<object, tagged, upload, partRow>>
  BY DEF StoreExit
<1>2. NoRequest \in RequestSet /\ Writes(NoRequest) = {} /\ Uses(NoRequest) = {}
  BY NoRequestTyped
<1>3. StoreType' /\ (tagged \subseteq Rows)'
  <2>1. request' \in [Requests -> RequestSet]
    BY <1>1, <1>2
  <2>2. StoreTypes' /\ (tagged \subseteq Rows)'
    BY <1>1, PartsOfInv DEF StoreTypes, Rows
  <2> QED BY <2>1, <2>2 DEF StoreType, StoreTypes, RequestSet
<1>4. Exclusive'
  <2>1. \A r \in Requests : request'[r] = NoRequest
    BY <1>1
  <2> QED BY <1>2, <2>1 DEF Exclusive, Uses
<1>5. ASSUME NEW k \in Keys PROVE file'[k] \in {object'[k], Torn}
  <2>1. Deleting(k) => Busy(k)
    <3> SUFFICES ASSUME NEW r \in Requests, At(r, "delete", "recorded"), request[r].key = k
                 PROVE  k \in Writes(request[r])
      BY DEF Deleting, Busy
    <3> QED BY PartsOfInv, WritesUses DEF At
  <2> QED BY <1>1, <2>1 DEF StoreInv, Agree
<1>6. partFile' = Torn \/ (upload' /\ partRow' <=> partFile' = "put")
  <2>1. Discarding => Busy(Upload)
    <3> SUFFICES ASSUME NEW r \in Requests, At(r, "complete", "recorded") \/ At(r, "abort", "recorded")
                 PROVE  Upload \in Writes(request[r])
      BY DEF Discarding, Busy
    <3> QED BY PartsOfInv, WritesUses DEF At
  <2> QED BY <1>1, <2>1 DEF StoreInv, Agree
<1>7. \A r \in Requests : Shaped(request[r])' /\ Relied(request[r])'
  BY <1>1 DEF Shaped, Relied, NoRequest
<1> QED BY <1>3, <1>4, <1>5, <1>6, <1>7 DEF StoreInv, Agree

-----------------------------------------------------------------------------
LEMMA StoreStarts == StoreInit => StoreInv
<1> SUFFICES ASSUME StoreInit PROVE StoreInv
  OBVIOUS
<1>1. NoRequest \in RequestSet /\ Writes(NoRequest) = {} /\ Uses(NoRequest) = {}
  BY NoRequestTyped
<1>2. request \in [Requests -> RequestSet] /\ \A r \in Requests : request[r] = NoRequest
  BY <1>1 DEF StoreInit
<1>3. StoreType
  <2>1. StoreTypes
    BY DEF StoreInit, StoreTypes
  <2> QED BY <1>2, <2>1 DEF StoreType, StoreTypes, RequestSet
<1>4. Exclusive
  BY <1>1, <1>2 DEF Exclusive
<1>5. Agree /\ tagged \subseteq Rows
  BY DEF StoreInit, Agree, Absent
<1>6. \A r \in Requests : Shaped(request[r]) /\ Relied(request[r])
  BY <1>2 DEF Shaped, Relied, NoRequest
<1> QED BY <1>3, <1>4, <1>5, <1>6 DEF StoreInv

LEMMA StoreSteps ==
  ASSUME StoreInv, [StoreNext]_storeVars
  PROVE  StoreInv'
<1>1. CASE StoreNext
  <2>1. CASE CreateUpload \/ StoreExit
    BY <2>1, CreateUploadKeeps, StoreExitKeeps
  <2>2. ASSUME NEW r \in Requests, NEW k \in Keys, NEW from \in Keys,
               \/ PutStarts(r, k) \/ DeleteStarts(r, k) \/ TagStarts(r, k) \/ GetStarts(r, k)
               \/ CopyStarts(r, from, k) \/ RenameStarts(r, from, k)
               \/ PartStarts(r) \/ CompleteStarts(r) \/ AbortStarts(r) \/ ListStarts(r)
        PROVE  StoreInv'
    BY <2>2, StartsKeep
  <2>3. ASSUME NEW r \in Requests,
               \/ PutEnds(r) \/ WriteFails(r) \/ DeleteRow(r) \/ DeleteFile(r)
               \/ CopyEnds(r) \/ RenameEnds(r) \/ TagSet(r) \/ PartEnds(r)
               \/ CompleteEnds(r) \/ PartsRemoved(r) \/ ListPage(r) \/ BodyRead(r) \/ ReadEnds(r)
        PROVE  StoreInv'
    BY <2>3, PutEndsKeeps, QuietEndsKeep, DeleteKeeps, CopyEndsKeeps, RenameEndsKeeps, PartEndsKeeps,
       CompleteEndsKeeps, PartsRemovedKeeps, ListPageKeeps, BodyReadKeeps
  <2>4. Keys # {}
    BY StoreAssumption
  <2> QED BY <1>1, <2>1, <2>2, <2>3, <2>4 DEF StoreNext
<1>2. CASE UNCHANGED storeVars
  <2>1. UNCHANGED <<object, file, tagged, upload, partRow, partFile, request>>
    BY <1>2 DEF storeVars
  <2>2. Rows' = Rows
    BY <2>1 DEF Rows
  <2>3. StoreType' /\ Exclusive' /\ (tagged \subseteq Rows)'
    BY <2>1, <2>2 DEF StoreInv, StoreType, Exclusive, Writes, Uses
  <2>4. Agree'
    BY <2>1 DEF StoreInv, Agree, Deleting, Discarding, At
  <2>5. \A r \in Requests : Shaped(request[r])' /\ Relied(request[r])'
    <3> TAKE r \in Requests
    <3>1. {k \in Rows' : Rank(k)' < request[r].offset} = {k \in Rows : Rank(k) < request[r].offset}
      BY <2>2 DEF Rank
    <3> QED BY <2>1, <2>2, <3>1, PartsOfInv DEF Shaped, Relied
  <2> QED BY <2>3, <2>4, <2>5 DEF StoreInv
<1> QED BY <1>1, <1>2

LEMMA StoreAlways == StoreSpec => []StoreInv
BY StoreStarts, StoreSteps, PTL DEF StoreSpec

\* Whatever is done to a bucket, the row and the file of an object agree again as soon
\* as one request had it for itself, and a listing or a body that nobody disturbs is
\* right (FileR2Bucket, handlePutObject), for any keys and any number of requests.
THEOREM ObjectsWholeAlways == StoreSpec => []ObjectsWhole
<1>1. StoreInv => ObjectsWhole
  <2> SUFFICES ASSUME StoreInv PROVE ObjectsWhole
    OBVIOUS
  <2>1. \A k \in Keys : Busy(k) \/ file[k] \in {object[k], Torn}
    <3> TAKE k \in Keys
    <3>1. Deleting(k) => Busy(k)
      <4> SUFFICES ASSUME NEW r \in Requests, At(r, "delete", "recorded"), request[r].key = k
                   PROVE  k \in Writes(request[r])
        BY DEF Deleting, Busy
      <4> QED BY PartsOfInv, WritesUses DEF At
    <3> QED BY <3>1 DEF StoreInv, Agree
  <2>2. Busy(Upload) \/ partFile = Torn \/ (upload /\ partRow <=> partFile = "put")
    <3>1. Discarding => Busy(Upload)
      <4> SUFFICES ASSUME NEW r \in Requests, At(r, "complete", "recorded") \/ At(r, "abort", "recorded")
                   PROVE  Upload \in Writes(request[r])
        BY DEF Discarding, Busy
      <4> QED BY PartsOfInv, WritesUses DEF At
    <3> QED BY <3>1 DEF StoreInv, Agree
  <2>3. \A r \in Requests :
          /\ At(r, "list", "recorded") /\ request[r].clean => request[r].seen = Rows
          /\ At(r, "get", "recorded") /\ request[r].clean => request[r].key \in request[r].seen
    BY PartsOfInv DEF Relied, At
  <2> QED BY <2>1, <2>2, <2>3 DEF ObjectsWhole, StoreInv
<1> QED BY <1>1, StoreAlways, PTL

-----------------------------------------------------------------------------
(* The WebSockets of a Durable Object (ObjectSockets).                       *)

RepliesComing == {"result", "error"}

\* A call is answered once, and nothing of it is under way when it is over.
Answered(c) ==
  /\ \A i \in DOMAIN toMain[c] : toMain[c][i] \in RepliesComing =>
       /\ visitor[c] = "calling"
       /\ \A j \in DOMAIN toMain[c] : toMain[c][j] \in RepliesComing => j = i
  /\ Forthcoming(c, "result") => c \in shipped
  /\ visitor[c] = "none" => server[c] = "none" /\ handlers[c] = 0 /\ toThread[c] = <<>>

\* An open socket has the pin, until it is closed or cut off.
Pinned(c) ==
  /\ visitor[c] \in {"offered", "up"} /\ c \notin told => c \in pins
  /\ c \in pins => visitor[c] \in {"offered", "up", "dropped"}
  /\ c \in severed => c \in told \/ visitor[c] \in {"left", "failed", "dropped"}

\* What the object lists is open, or its close is the last thing on its way.
Listed(c) ==
  /\ c \in torn => visitor[c] \notin {"none", "calling"}
  /\ c \in entries => server[c] = "open" /\ c \notin torn
  /\ c \in entries /\ visitor[c] = "left" => toThread[c] # <<>> /\ toThread[c][Len(toThread[c])] = "close"
  /\ closes[c] <= 1 /\ (closes[c] = 1 => server[c] = "closed")

SocketsInv ==
  /\ SocketsType /\ reaped = {} /\ Cardinality(entries) <= MaxAccepted
  /\ \A c \in Clients : Answered(c) /\ Pinned(c) /\ Listed(c)

-----------------------------------------------------------------------------
LEMMA SocketsTypes ==
  ASSUME SocketsInv
  PROVE  /\ instances \in 0..MaxInstances /\ alive \in BOOLEAN /\ stale \in BOOLEAN /\ pair \in BOOLEAN
         /\ pins \subseteq Clients /\ told \subseteq Clients /\ torn \subseteq Clients /\ entries \subseteq Clients
         /\ heeded \subseteq Clients /\ shipped \subseteq Clients /\ reaped = {} /\ severed \subseteq Clients
         /\ visitor \in [Clients -> {"none", "calling", "offered", "up", "left", "failed", "dropped"}]
         /\ texts \in 0..MaxTexts
         /\ server \in [Clients -> {"none", "made", "open", "closed"}]
         /\ toThread \in [Clients -> Seq(ClientTexts \cup {"close"})]
         /\ toMain \in [Clients -> Seq({"close", "result", "error"})]
         /\ handlers \in [Clients -> Nat] /\ closes \in [Clients -> Nat]
BY DEF SocketsInv, SocketsType

\* A step of client c, or of its socket: the others do not notice.
Private(c) ==
  \A d \in Clients \ {c} :
    /\ visitor'[d] = visitor[d] /\ server'[d] = server[d] /\ handlers'[d] = handlers[d] /\ closes'[d] = closes[d]
    /\ toThread'[d] = toThread[d] /\ toMain'[d] = toMain[d]
    /\ (d \in pins' <=> d \in pins) /\ (d \in told' <=> d \in told) /\ (d \in torn' <=> d \in torn)
    /\ (d \in entries' <=> d \in entries) /\ (d \in shipped' <=> d \in shipped)
    /\ (d \in severed' <=> d \in severed)

LEMMA PrivateKeeps ==
  ASSUME SocketsInv, NEW c \in Clients, Private(c), SocketsType', UNCHANGED reaped,
         Cardinality(entries') <= MaxAccepted, Answered(c)', Pinned(c)', Listed(c)'
  PROVE  SocketsInv'
<1>1. ASSUME NEW d \in Clients \ {c} PROVE Answered(d)' /\ Pinned(d)' /\ Listed(d)'
  <2>1. Answered(d) /\ Pinned(d) /\ Listed(d)
    BY DEF SocketsInv
  <2>2. Answered(d)'
    BY <2>1 DEF Private, Answered, Forthcoming
  <2>3. Pinned(d)'
    BY <2>1 DEF Private, Pinned
  <2>4. Listed(d)'
    BY <2>1 DEF Private, Listed
  <2> QED BY <2>2, <2>3, <2>4
<1> QED BY <1>1 DEF SocketsInv

\* Listing one less, or one more while there is room.
LEMMA EntriesBound ==
  ASSUME SocketsInv, NEW c \in Clients
  PROVE  /\ Cardinality(entries) <= MaxAccepted
         /\ Cardinality(entries \ {c}) <= MaxAccepted
         /\ ~(Cardinality(entries) >= MaxAccepted) => Cardinality(entries \cup {c}) <= MaxAccepted
<1>1. IsFiniteSet(entries)
  BY SocketsTypes, SocketsAssumption, FS_Subset
<1>2. Cardinality(entries) \in Nat /\ MaxAccepted \in Nat
  BY <1>1, SocketsAssumption, FS_CardinalityType
<1>3. Cardinality(entries \ {c}) = IF c \in entries THEN Cardinality(entries) - 1 ELSE Cardinality(entries)
  BY <1>1, FS_RemoveElement
<1>4. Cardinality(entries \cup {c}) = IF c \in entries THEN Cardinality(entries) ELSE Cardinality(entries) + 1
  BY <1>1, FS_AddElement
<1>5. Cardinality(entries) <= MaxAccepted
  BY DEF SocketsInv
<1> QED BY <1>2, <1>3, <1>4, <1>5

LEMMA Queued ==
  ASSUME NEW S, NEW q \in Seq(S), NEW e \in S
  PROVE  /\ Append(q, e) \in Seq(S) /\ Append(q, e) # <<>> /\ Len(Append(q, e)) = Len(q) + 1
         /\ Append(q, e)[Len(q) + 1] = e /\ \A i \in 1..Len(q) : Append(q, e)[i] = q[i]
         /\ DOMAIN Append(q, e) = 1..(Len(q) + 1) /\ DOMAIN q = 1..Len(q) /\ Len(q) \in Nat
         /\ q # <<>> => /\ Tail(q) \in Seq(S) /\ Head(q) = q[1] /\ Head(q) \in S /\ Len(q) > 0
                        /\ Len(Tail(q)) = Len(q) - 1 /\ DOMAIN Tail(q) = 1..(Len(q) - 1)
                        /\ \A i \in 1..(Len(q) - 1) : Tail(q)[i] = q[i + 1]
<1>1. /\ Append(q, e) \in Seq(S) /\ Append(q, e) # <<>> /\ Len(Append(q, e)) = Len(q) + 1
      /\ Append(q, e)[Len(q) + 1] = e /\ \A i \in 1..Len(q) : Append(q, e)[i] = q[i]
  BY AppendProperties
<1>2. DOMAIN Append(q, e) = 1..(Len(q) + 1) /\ DOMAIN q = 1..Len(q) /\ Len(q) \in Nat
  BY <1>1
<1>3. q # <<>> => /\ Tail(q) \in Seq(S) /\ Head(q) = q[1] /\ Len(q) > 0
                  /\ Len(Tail(q)) = Len(q) - 1 /\ \A i \in 1..(Len(q) - 1) : Tail(q)[i] = q[i + 1]
  OBVIOUS
<1>4. q # <<>> => Head(q) \in S /\ DOMAIN Tail(q) = 1..(Len(q) - 1)
  BY <1>3
<1> QED BY <1>1, <1>2, <1>3, <1>4

\* A message taken from main's queue, or put there, leaves the answers in it as they were.
LEMMA CloseSentAnswered ==
  ASSUME SocketsInv, NEW c \in Clients, toMain' = Posted(toMain, c, "close"),
         visitor'[c] = visitor[c], c \in shipped' <=> c \in shipped,
         visitor[c] # "none"
  PROVE  Answered(c)'
<1>1. toMain[c] \in Seq({"close", "result", "error"}) /\ toMain'[c] = Append(toMain[c], "close")
  BY SocketsTypes DEF Posted
<1>2. Answered(c)
  BY DEF SocketsInv
<1>3. \A i \in DOMAIN toMain'[c] : toMain'[c][i] # "close" => i \in DOMAIN toMain[c] /\ toMain'[c][i] = toMain[c][i]
  BY <1>1, Queued, SMTT(30)
<1> QED BY <1>2, <1>3 DEF Answered, Forthcoming, RepliesComing

\* What remains of main's queue.
LEMMA ReceivedRest ==
  ASSUME SocketsInv, NEW c \in Clients, NEW e, Receives(c, e)
  PROVE  /\ toMain'[c] \in Seq({"close", "result", "error"}) /\ e \in {"close", "result", "error"}
         /\ \A i \in DOMAIN toMain'[c] : i + 1 \in DOMAIN toMain[c] /\ toMain'[c][i] = toMain[c][i + 1] /\ i \in Nat /\ i # 0
         /\ 1 \in DOMAIN toMain[c] /\ toMain[c][1] = e
         /\ toMain' \in [Clients -> Seq({"close", "result", "error"})]
         /\ \A d \in Clients \ {c} : toMain'[d] = toMain[d]
<1>1. /\ toMain[c] \in Seq({"close", "result", "error"}) /\ toMain[c] # <<>> /\ Head(toMain[c]) = e
      /\ toMain' = [toMain EXCEPT ![c] = Tail(@)] /\ toMain \in [Clients -> Seq({"close", "result", "error"})]
  BY SocketsTypes DEF Receives, Rest
<1>2. toMain'[c] = Tail(toMain[c]) /\ \A d \in Clients \ {c} : toMain'[d] = toMain[d]
  BY <1>1
<1> DEFINE q == toMain[c]
<1>3. /\ Tail(q) \in Seq({"close", "result", "error"}) /\ Head(q) = q[1] /\ Head(q) \in {"close", "result", "error"}
      /\ Len(q) > 0 /\ DOMAIN Tail(q) = 1..(Len(q) - 1) /\ DOMAIN q = 1..Len(q) /\ Len(q) \in Nat
      /\ \A i \in 1..(Len(q) - 1) : Tail(q)[i] = q[i + 1]
  BY <1>1
<1> QED BY <1>1, <1>2, <1>3

-----------------------------------------------------------------------------
(* The thread's steps. *)

LEMMA AcceptsKeep ==
  ASSUME SocketsInv, NEW c \in Clients, AcceptWebSocket(c) \/ AcceptPlain(c)
  PROVE  SocketsInv'
<1>0. /\ visitor[c] = "calling" /\ server[c] = "none" /\ toMain[c] = <<>>
      /\ UNCHANGED <<mainVars, shipped, pair, handlers, toThread, pastVars>>
  BY DEF AcceptWebSocket, AcceptPlain
<1>i. Answered(c) /\ Pinned(c) /\ Listed(c)
  BY DEF SocketsInv
<1>1. CASE AcceptWebSocket(c) /\ Cardinality(entries) >= MaxAccepted
  <2>1. toMain' = [toMain EXCEPT ![c] = <<"error">>] /\ UNCHANGED <<entries, heeded, server>>
    BY <1>0, <1>1 DEF AcceptWebSocket, Posted
  <2>2. SocketsType'
    BY <1>0, <2>1, SocketsTypes DEF SocketsType, mainVars, pastVars
  <2>3. Private(c) /\ UNCHANGED reaped /\ Cardinality(entries') <= MaxAccepted
    BY <1>0, <2>1, SocketsTypes, EntriesBound DEF Private, mainVars, pastVars
  <2>4. toMain'[c] = <<"error">>
    BY <2>1, SocketsTypes
  <2>5. Answered(c)'
    BY <1>0, <2>4 DEF Answered, Forthcoming, RepliesComing, mainVars
  <2>6. Pinned(c)' /\ Listed(c)'
    BY <1>0, <1>i, <2>1 DEF Pinned, Listed, mainVars, pastVars
  <2> QED BY <2>2, <2>3, <2>5, <2>6, PrivateKeeps
<1>2. CASE AcceptPlain(c) \/ (AcceptWebSocket(c) /\ ~(Cardinality(entries) >= MaxAccepted))
  <2>1. /\ server' = [server EXCEPT ![c] = "open"] /\ toMain' = toMain
        /\ \/ entries' = entries \cup {c} /\ ~(Cardinality(entries) >= MaxAccepted)
           \/ entries' = entries
        /\ heeded' = heeded \cup {c} \/ heeded' = heeded
    BY <1>0, <1>2 DEF AcceptWebSocket, AcceptPlain
  <2>2. SocketsType'
    <3>1. entries' \subseteq Clients /\ heeded' \subseteq Clients
      BY <2>1, SocketsTypes
    <3> QED BY <1>0, <2>1, <3>1, SocketsTypes DEF SocketsType, mainVars, pastVars
  <2>3. Private(c) /\ UNCHANGED reaped
    BY <1>0, <2>1, SocketsTypes DEF Private, mainVars, pastVars
  <2>4. Cardinality(entries') <= MaxAccepted
    BY <2>1, EntriesBound
  <2>5. server'[c] = "open"
    BY <2>1, SocketsTypes
  <2>6. Answered(c)' /\ Pinned(c)'
    BY <1>0, <1>i, <2>1 DEF Answered, Forthcoming, Pinned, mainVars, pastVars
  <2>7. Listed(c)'
    BY <1>0, <1>i, <2>5, SocketsTypes DEF Listed, mainVars, pastVars
  <2> QED BY <2>2, <2>3, <2>4, <2>6, <2>7, PrivateKeeps
<1> QED BY <1>1, <1>2

LEMMA RepliesKeep ==
  ASSUME SocketsInv, NEW c \in Clients, Ship(c) \/ FetchThrows(c)
  PROVE  SocketsInv'
<1>0. /\ visitor[c] = "calling" /\ c \notin shipped /\ ~Forthcoming(c, "error")
      /\ UNCHANGED <<mainVars, entries, heeded, server, pair, handlers, toThread, pastVars>>
  BY DEF Ship, FetchThrows, threadVars
<1>i. Answered(c) /\ Pinned(c) /\ Listed(c)
  BY DEF SocketsInv
<1>t. toMain[c] \in Seq({"close", "result", "error"})
  BY SocketsTypes
<1>1. \A i \in DOMAIN toMain[c] : toMain[c][i] \notin RepliesComing
  BY <1>0, <1>i DEF Answered, Forthcoming, RepliesComing
<1>2. /\ shipped' \subseteq Clients /\ toMain' \in [Clients -> Seq({"close", "result", "error"})]
      /\ \A d \in Clients \ {c} : toMain'[d] = toMain[d] /\ (d \in shipped' <=> d \in shipped)
  <2>1. CASE Ship(c)
    <3>1. Append(toMain[c], "result") \in Seq({"close", "result", "error"})
      BY <1>t
    <3> QED BY <2>1, <3>1, SocketsTypes DEF Ship, Posted
  <2>2. CASE FetchThrows(c)
    BY <2>2, SocketsTypes DEF FetchThrows, threadVars
  <2> QED BY <2>1, <2>2
<1>3. SocketsType'
  BY <1>0, <1>2, SocketsTypes DEF SocketsType, mainVars, pastVars
<1>4. Private(c) /\ UNCHANGED reaped /\ Cardinality(entries') <= MaxAccepted
  BY <1>0, <1>2, EntriesBound DEF Private, mainVars, pastVars
<1>5. Answered(c)'
  <2>1. CASE Ship(c)
    <3>1. toMain'[c] = Append(toMain[c], "result") /\ c \in shipped'
      BY <2>1, SocketsTypes DEF Ship, Posted
    <3>2. \A i \in DOMAIN toMain'[c] : toMain'[c][i] \in RepliesComing => i = Len(toMain[c]) + 1
      <4> DEFINE q == toMain[c]
      <4>1. /\ DOMAIN Append(q, "result") = 1..(Len(q) + 1) /\ DOMAIN q = 1..Len(q) /\ Len(q) \in Nat
            /\ \A i \in 1..Len(q) : Append(q, "result")[i] = q[i]
        BY <1>t, Queued
      <4> HIDE DEF q
      <4>2. \A i \in 1..Len(q) : q[i] \notin RepliesComing
        BY <1>1, <4>1 DEF q
      <4> QED BY <3>1, <4>1, <4>2 DEF q
    <3> QED BY <1>0, <3>1, <3>2 DEF Answered, mainVars
  <2>2. CASE FetchThrows(c)
    <3>1. toMain'[c] = <<"error">>
      BY <2>2, SocketsTypes DEF FetchThrows
    <3> QED BY <1>0, <3>1 DEF Answered, Forthcoming, RepliesComing, mainVars
  <2> QED BY <2>1, <2>2
<1>6. Pinned(c)' /\ Listed(c)'
  BY <1>0, <1>i DEF Pinned, Listed, mainVars, pastVars
<1> QED BY <1>3, <1>4, <1>5, <1>6, PrivateKeeps

\* What closing does to the socket and to its place in the list.
LEMMA ClosesEffect ==
  ASSUME SocketsInv, NEW c \in Clients, Closes(c), server[c] # "closed"
  PROVE  /\ server' \in [Clients -> {"none", "made", "open", "closed"}] /\ entries' \subseteq Clients
         /\ handlers' \in [Clients -> Nat] /\ closes' \in [Clients -> Nat]
         /\ \A d \in Clients \ {c} : /\ server'[d] = server[d] /\ handlers'[d] = handlers[d] /\ closes'[d] = closes[d]
                                     /\ (d \in entries' <=> d \in entries)
         /\ server'[c] = "closed" /\ c \notin entries' /\ closes'[c] <= 1
         /\ Cardinality(entries') <= MaxAccepted
<1>1. closes[c] = 0
  <2>1. Listed(c) /\ closes[c] \in Nat
    BY SocketsTypes DEF SocketsInv
  <2> QED BY <2>1 DEF Listed
<1>2. Cardinality(entries') <= MaxAccepted
  BY EntriesBound DEF Closes
<1> QED BY <1>1, <1>2, SocketsTypes DEF Closes

LEMMA ServerClosesKeeps ==
  ASSUME SocketsInv, NEW c \in Clients, ServerCloses(c)
  PROVE  SocketsInv'
<1>0. /\ server[c] = "open" /\ Closes(c) /\ toMain' = Posted(toMain, c, "close")
      /\ UNCHANGED <<mainVars, heeded, shipped, pair, toThread, reaped, severed>>
  BY DEF ServerCloses
<1>i. Answered(c) /\ Pinned(c) /\ Listed(c)
  BY DEF SocketsInv
<1>1. /\ server' \in [Clients -> {"none", "made", "open", "closed"}] /\ entries' \subseteq Clients
      /\ handlers' \in [Clients -> Nat] /\ closes' \in [Clients -> Nat]
      /\ \A d \in Clients \ {c} : /\ server'[d] = server[d] /\ handlers'[d] = handlers[d] /\ closes'[d] = closes[d]
                                  /\ (d \in entries' <=> d \in entries)
      /\ server'[c] = "closed" /\ c \notin entries' /\ closes'[c] <= 1
      /\ Cardinality(entries') <= MaxAccepted
  BY <1>0, ClosesEffect
<1>2. toMain' \in [Clients -> Seq({"close", "result", "error"})] /\ \A d \in Clients \ {c} : toMain'[d] = toMain[d]
  <2>1. toMain[c] \in Seq({"close", "result", "error"})
    BY SocketsTypes
  <2>2. Append(toMain[c], "close") \in Seq({"close", "result", "error"})
    BY <2>1
  <2> QED BY <1>0, <2>2, SocketsTypes DEF Posted
<1>3. SocketsType'
  BY <1>0, <1>1, <1>2, SocketsTypes, SMTT(30) DEF SocketsType, mainVars
<1>4. Private(c)
  BY <1>0, <1>1, <1>2 DEF Private, mainVars
<1>5. Answered(c)'
  <2>1. visitor[c] # "none"
    BY <1>0, <1>i DEF Answered
  <2> QED BY <1>0, <2>1, CloseSentAnswered DEF mainVars
<1>6. Pinned(c)' /\ Listed(c)'
  BY <1>0, <1>1, <1>i DEF Pinned, Listed, mainVars
<1> QED BY <1>0, <1>1, <1>3, <1>4, <1>5, <1>6, PrivateKeeps

\* What comes in: texts run a handler at most, a close closes.
LEMMA ArrivesKeep ==
  ASSUME SocketsInv, NEW c \in Clients, TextArrives(c) \/ CloseArrives(c)
  PROVE  SocketsInv'
<1>0. /\ toThread[c] # <<>> /\ toThread' = Rest(toThread, c)
      /\ UNCHANGED <<mainVars, heeded, shipped, pair, toMain, reaped, severed>>
  BY DEF TextArrives, CloseArrives, pastVars
<1>i. Answered(c) /\ Pinned(c) /\ Listed(c)
  BY DEF SocketsInv
<1> DEFINE q == toThread[c]
           M == ClientTexts \cup {"close"}
<1>1. /\ q \in Seq(M) /\ toThread'[c] = Tail(q) /\ visitor[c] # "none"
      /\ toThread' \in [Clients -> Seq(M)] /\ \A d \in Clients \ {c} : toThread'[d] = toThread[d]
  <2>1. q \in Seq(M)
    BY SocketsTypes
  <2>2. Tail(q) \in Seq(M)
    BY <1>0, <2>1, HeadTailProperties
  <2> QED BY <1>0, <1>i, <2>1, <2>2, SocketsTypes DEF Rest, Answered
<1>2. CASE TextArrives(c)
  <2>1. /\ Head(q) \in ClientTexts /\ UNCHANGED <<entries, server, closes>>
        /\ handlers' \in [Clients -> Nat] /\ \A d \in Clients \ {c} : handlers'[d] = handlers[d]
    BY <1>2, SocketsTypes DEF TextArrives, pastVars
  <2>2. SocketsType'
    BY <1>0, <1>1, <2>1, SocketsTypes, SMTT(30) DEF SocketsType, mainVars
  <2>3. Private(c) /\ Cardinality(entries') <= MaxAccepted
    BY <1>0, <1>1, <2>1, EntriesBound DEF Private, mainVars
  <2>4. Answered(c)' /\ Pinned(c)'
    BY <1>0, <1>1, <1>i, <2>1 DEF Answered, Forthcoming, Pinned, mainVars
  <2>5. q[Len(q)] = "close" => Tail(q) # <<>> /\ Tail(q)[Len(Tail(q))] = "close"
    <3> SUFFICES ASSUME q[Len(q)] = "close" PROVE Tail(q) # <<>> /\ Tail(q)[Len(Tail(q))] = "close"
      OBVIOUS
    <3> HIDE DEF q, M
    <3>1. /\ Head(q) = q[1] /\ Len(q) > 0 /\ Len(q) \in Nat /\ Len(Tail(q)) = Len(q) - 1 /\ Tail(q) \in Seq(M)
          /\ \A i \in 1..(Len(q) - 1) : Tail(q)[i] = q[i + 1]
      BY <1>0, <1>1, HeadTailProperties DEF q
    <3>2. Len(q) # 1
      BY <2>1, <3>1 DEF ClientTexts
    <3>3. Len(q) - 1 \in 1..(Len(q) - 1) /\ (Len(q) - 1) + 1 = Len(q)
      BY <3>1, <3>2
    <3>4. Tail(q)[Len(q) - 1] = q[Len(q)]
      BY <3>1, <3>3
    <3>5. Tail(q) # <<>>
      BY <3>1, <3>2, SMTT(30)
    <3> QED BY <3>1, <3>4, <3>5
  <2>6. Listed(c)'
    <3> HIDE DEF q, M
    <3> QED BY <1>0, <1>1, <1>i, <2>1, <2>5 DEF Listed, mainVars, q
  <2> QED BY <1>0, <2>2, <2>3, <2>4, <2>6, PrivateKeeps
<1>3. CASE CloseArrives(c)
  <2>1. /\ server' \in [Clients -> {"none", "made", "open", "closed"}] /\ entries' \subseteq Clients
        /\ handlers' \in [Clients -> Nat] /\ closes' \in [Clients -> Nat]
        /\ \A d \in Clients \ {c} : /\ server'[d] = server[d] /\ handlers'[d] = handlers[d] /\ closes'[d] = closes[d]
                                    /\ (d \in entries' <=> d \in entries)
        /\ server'[c] = "closed" /\ c \notin entries' /\ closes'[c] <= 1
        /\ Cardinality(entries') <= MaxAccepted
    <3>1. CASE server[c] = "closed"
      <4>1. UNCHANGED <<server, entries, handlers, closes>>
        BY <1>3, <3>1 DEF CloseArrives
      <4> QED BY <1>i, <3>1, <4>1, SocketsTypes, EntriesBound DEF Listed
    <3>2. CASE server[c] # "closed"
      <4>1. Closes(c)
        BY <1>3, <3>2 DEF CloseArrives
      <4> QED BY <3>2, <4>1, ClosesEffect
    <3> QED BY <3>1, <3>2
  <2>2. SocketsType'
    BY <1>0, <1>1, <2>1, SocketsTypes, SMTT(30) DEF SocketsType, mainVars
  <2>3. Private(c)
    BY <1>0, <1>1, <2>1 DEF Private, mainVars
  <2>4. Answered(c)' /\ Pinned(c)'
    BY <1>0, <1>1, <1>i DEF Answered, Forthcoming, Pinned, mainVars
  <2>5. Listed(c)'
    BY <1>0, <1>i, <2>1 DEF Listed, mainVars
  <2> QED BY <1>0, <2>1, <2>2, <2>3, <2>4, <2>5, PrivateKeeps
<1> QED BY <1>2, <1>3

LEMMA HandlerEndsKeeps ==
  ASSUME SocketsInv, NEW c \in Clients, HandlerEnds(c)
  PROVE  SocketsInv'
<1>0. /\ handlers[c] > 0 /\ handlers' = [handlers EXCEPT ![c] = @ - 1]
      /\ UNCHANGED <<mainVars, entries, heeded, server, shipped, pair, toThread, toMain, pastVars>>
  BY DEF HandlerEnds
<1>i. Answered(c) /\ Pinned(c) /\ Listed(c)
  BY DEF SocketsInv
<1>1. handlers' \in [Clients -> Nat] /\ \A d \in Clients \ {c} : handlers'[d] = handlers[d]
  <2>1. handlers[c] - 1 \in Nat
    BY <1>0, SocketsTypes
  <2> QED BY <1>0, <2>1, SocketsTypes
<1>2. SocketsType'
  BY <1>0, <1>1, SocketsTypes, SMTT(30) DEF SocketsType, mainVars, pastVars
<1>3. Private(c) /\ Cardinality(entries') <= MaxAccepted /\ UNCHANGED reaped
  BY <1>0, <1>1, EntriesBound DEF Private, mainVars, pastVars
<1>4. visitor[c] # "none"
  BY <1>0, <1>i DEF Answered
<1>5. Answered(c)' /\ Pinned(c)' /\ Listed(c)'
  BY <1>0, <1>4, <1>i DEF Answered, Forthcoming, Pinned, Listed, mainVars, pastVars
<1> QED BY <1>2, <1>3, <1>5, PrivateKeeps

-----------------------------------------------------------------------------
(* Main's steps. *)

LEMMA UpgradeKeeps ==
  ASSUME SocketsInv, NEW c \in Clients, Upgrade(c)
  PROVE  SocketsInv'
<1>0. /\ visitor[c] = "none" /\ visitor' = [visitor EXCEPT ![c] = "calling"] /\ alive' = TRUE /\ stale' = FALSE
      /\ UNCHANGED <<pins, told, torn, texts, entries, heeded, server, shipped, handlers, toThread, toMain, pastVars>>
  BY DEF Upgrade
<1>i. Answered(c) /\ Pinned(c) /\ Listed(c)
  BY DEF SocketsInv
<1>1. instances' \in 0..MaxInstances /\ pair' \in BOOLEAN
  BY SocketsTypes, SocketsAssumption DEF Upgrade
<1>2. visitor' \in [Clients -> {"none", "calling", "offered", "up", "left", "failed", "dropped"}]
      /\ visitor'[c] = "calling" /\ \A d \in Clients \ {c} : visitor'[d] = visitor[d]
  BY <1>0, SocketsTypes
<1>3. SocketsType'
  <2>1. alive' \in BOOLEAN /\ stale' \in BOOLEAN /\ pair' \in BOOLEAN
    BY <1>0, <1>1
  <2>2. {alive', stale', pair'} \subseteq BOOLEAN
    BY <2>1
  <2>3. (UNION {pins, told, torn, entries, heeded, shipped, reaped, severed})' \subseteq Clients
    BY <1>0, SocketsTypes DEF pastVars
  <2> QED BY <1>0, <1>1, <1>2, <2>2, <2>3, SocketsTypes DEF SocketsType, pastVars
<1>4. Private(c) /\ Cardinality(entries') <= MaxAccepted /\ UNCHANGED reaped
  BY <1>0, <1>2, EntriesBound DEF Private, pastVars
<1>5. Answered(c)'
  BY <1>0, <1>2, <1>i DEF Answered, Forthcoming
<1>6. Pinned(c)'
  BY <1>0, <1>2, <1>i DEF Pinned, pastVars
<1>7. Listed(c)'
  BY <1>0, <1>2, <1>i DEF Listed, pastVars
<1> QED BY <1>3, <1>4, <1>5, <1>6, <1>7, PrivateKeeps

\* With its only answer taken from the queue, nothing of a call is left.
LEMMA OnlyAnswer ==
  ASSUME SocketsInv, NEW c \in Clients, NEW e \in RepliesComing, Receives(c, e)
  PROVE  visitor[c] = "calling" /\ \A i \in DOMAIN toMain'[c] : toMain'[c][i] \notin RepliesComing
<1>1. Answered(c)
  BY DEF SocketsInv
<1>2. /\ \A i \in DOMAIN toMain'[c] : i + 1 \in DOMAIN toMain[c] /\ toMain'[c][i] = toMain[c][i + 1] /\ i \in Nat /\ i # 0
      /\ 1 \in DOMAIN toMain[c] /\ toMain[c][1] = e
  BY ReceivedRest
<1>3. visitor[c] = "calling" /\ \A j \in DOMAIN toMain[c] : toMain[c][j] \in RepliesComing => j = 1
  BY <1>1, <1>2 DEF Answered
<1>4. ASSUME NEW i \in DOMAIN toMain'[c] PROVE toMain'[c][i] \notin RepliesComing
  <2>1. i + 1 \in DOMAIN toMain[c] /\ toMain'[c][i] = toMain[c][i + 1] /\ i \in Nat /\ i # 0
    BY <1>2
  <2>2. i + 1 # 1
    BY <2>1
  <2> QED BY <1>3, <2>1, <2>2
<1> QED BY <1>3, <1>4

LEMMA AnswersArriveKeep ==
  ASSUME SocketsInv, NEW c \in Clients, ResultArrives(c) \/ ErrorArrives(c)
  PROVE  SocketsInv'
<1>0. /\ Receives(c, "result") \/ Receives(c, "error")
      /\ UNCHANGED <<instances, alive, stale, told, torn, texts, threadVars, toThread, pastVars>>
      /\ \/ visitor' = [visitor EXCEPT ![c] = "offered"] /\ pins' = pins \cup {c}
         \/ visitor' = [visitor EXCEPT ![c] = "failed"] /\ pins' = pins
  BY DEF ResultArrives, ErrorArrives
<1>i. Answered(c) /\ Pinned(c) /\ Listed(c)
  BY DEF SocketsInv
<1>1. visitor[c] = "calling" /\ \A i \in DOMAIN toMain'[c] : toMain'[c][i] \notin RepliesComing
  BY <1>0, OnlyAnswer DEF RepliesComing
<1>2. toMain' \in [Clients -> Seq({"close", "result", "error"})] /\ \A d \in Clients \ {c} : toMain'[d] = toMain[d]
  BY <1>0, ReceivedRest
<1>3. /\ visitor' \in [Clients -> {"none", "calling", "offered", "up", "left", "failed", "dropped"}]
      /\ pins' \subseteq Clients
      /\ \A d \in Clients \ {c} : visitor'[d] = visitor[d] /\ (d \in pins' <=> d \in pins)
      /\ (visitor'[c] = "offered" /\ c \in pins') \/ (visitor'[c] = "failed" /\ pins' = pins)
  BY <1>0, SocketsTypes
<1>4. SocketsType'
  BY <1>0, <1>2, <1>3, SocketsTypes, SMTT(30) DEF SocketsType, threadVars, pastVars
<1>5. Private(c) /\ Cardinality(entries') <= MaxAccepted /\ UNCHANGED reaped
  BY <1>0, <1>2, <1>3, EntriesBound DEF Private, threadVars, pastVars
<1>6. Answered(c)'
  BY <1>0, <1>1, <1>3 DEF Answered, Forthcoming, RepliesComing
<1>7. Pinned(c)'
  BY <1>0, <1>1, <1>3, <1>i DEF Pinned, pastVars
<1>8. Listed(c)'
  BY <1>0, <1>1, <1>3, <1>i DEF Listed, threadVars, pastVars
<1> QED BY <1>4, <1>5, <1>6, <1>7, <1>8, PrivateKeeps

LEMMA CloseComesOutKeeps ==
  ASSUME SocketsInv, NEW c \in Clients, CloseComesOut(c)
  PROVE  SocketsInv'
<1>0. /\ Receives(c, "close") /\ told' = told \cup {c} /\ pins' = pins \ {c}
      /\ UNCHANGED <<instances, alive, stale, visitor, torn, texts, threadVars, toThread, pastVars>>
  BY DEF CloseComesOut
<1>i. Answered(c) /\ Pinned(c) /\ Listed(c)
  BY DEF SocketsInv
<1>1. /\ \A i \in DOMAIN toMain'[c] : i + 1 \in DOMAIN toMain[c] /\ toMain'[c][i] = toMain[c][i + 1] /\ i \in Nat /\ i # 0
      /\ toMain' \in [Clients -> Seq({"close", "result", "error"})]
      /\ \A d \in Clients \ {c} : toMain'[d] = toMain[d]
  BY <1>0, ReceivedRest
<1>2. told' \subseteq Clients /\ pins' \subseteq Clients
  BY <1>0, SocketsTypes
<1>4. SocketsType'
  BY <1>0, <1>1, <1>2, SocketsTypes DEF SocketsType, threadVars, pastVars
<1>5. Private(c) /\ Cardinality(entries') <= MaxAccepted /\ UNCHANGED reaped
  BY <1>0, <1>1, EntriesBound DEF Private, threadVars, pastVars
<1>6. Answered(c)'
  <2>1. ASSUME NEW i \in DOMAIN toMain'[c], toMain'[c][i] \in RepliesComing
        PROVE  visitor[c] = "calling" /\ \A j \in DOMAIN toMain'[c] : toMain'[c][j] \in RepliesComing => j = i
    <3>1. i + 1 \in DOMAIN toMain[c] /\ toMain[c][i + 1] \in RepliesComing /\ i \in Nat
      BY <1>1, <2>1
    <3>2. visitor[c] = "calling" /\ \A j \in DOMAIN toMain[c] : toMain[c][j] \in RepliesComing => j = i + 1
      BY <1>i, <3>1 DEF Answered
    <3>3. ASSUME NEW j \in DOMAIN toMain'[c], toMain'[c][j] \in RepliesComing PROVE j = i
      <4>1. j + 1 \in DOMAIN toMain[c] /\ toMain[c][j + 1] \in RepliesComing /\ j \in Nat
        BY <1>1, <3>3
      <4>2. j + 1 = i + 1
        BY <3>2, <4>1
      <4> QED BY <3>1, <4>1, <4>2
    <3> QED BY <3>2, <3>3
  <2>2. Forthcoming(c, "result")' => Forthcoming(c, "result")
    BY <1>1 DEF Forthcoming
  <2> QED BY <1>0, <1>i, <2>1, <2>2 DEF Answered, threadVars
<1>7. Pinned(c)' /\ Listed(c)'
  BY <1>0, <1>i DEF Pinned, Listed, threadVars, pastVars
<1> QED BY <1>4, <1>5, <1>6, <1>7, PrivateKeeps

LEMMA LineKeeps ==
  ASSUME SocketsInv, NEW c \in Clients, LineUp(c) \/ ClientSends(c) \/ LineEnds(c)
  PROVE  SocketsInv'
<1>i. Answered(c) /\ Pinned(c) /\ Listed(c)
  BY DEF SocketsInv
<1>0. /\ UNCHANGED <<instances, alive, stale, told, torn, threadVars, toMain, pastVars>>
      /\ visitor[c] \in {"offered", "up"}
  BY DEF LineUp, ClientSends, LineEnds
<1>1. CASE LineUp(c)
  <2>1. /\ visitor[c] = "offered" /\ UNCHANGED <<pins, texts, toThread>>
        /\ \E how \in {"up", "dropped"} : visitor' = [visitor EXCEPT ![c] = how]
    BY <1>1 DEF LineUp
  <2>2. /\ visitor' \in [Clients -> {"none", "calling", "offered", "up", "left", "failed", "dropped"}]
        /\ visitor'[c] \in {"up", "dropped"} /\ \A d \in Clients \ {c} : visitor'[d] = visitor[d]
    BY <2>1, SocketsTypes
  <2>3. SocketsType'
    BY <1>0, <2>1, <2>2, SocketsTypes DEF SocketsType, threadVars, pastVars
  <2>4. Private(c) /\ Cardinality(entries') <= MaxAccepted /\ UNCHANGED reaped
    BY <1>0, <2>1, <2>2, EntriesBound DEF Private, threadVars, pastVars
  <2>5. Answered(c)'
    BY <1>0, <1>i, <2>1, <2>2 DEF Answered, Forthcoming, threadVars
  <2>6. Pinned(c)' /\ Listed(c)'
    BY <1>0, <1>i, <2>1, <2>2 DEF Pinned, Listed, threadVars, pastVars
  <2> QED BY <2>3, <2>4, <2>5, <2>6, PrivateKeeps
<1>2. ASSUME NEW e \in ClientTexts \cup {"close"},
             toThread' = (IF c \notin torn THEN Posted(toThread, c, e) ELSE toThread)
      PROVE  /\ toThread' \in [Clients -> Seq(ClientTexts \cup {"close"})]
             /\ \A d \in Clients \ {c} : toThread'[d] = toThread[d]
             /\ c \notin torn => toThread'[c] # <<>> /\ toThread'[c][Len(toThread'[c])] = e
  <2> DEFINE M == ClientTexts \cup {"close"}
  <2>1. toThread[c] \in Seq(M) /\ toThread \in [Clients -> Seq(M)]
    BY SocketsTypes
  <2>2. /\ Append(toThread[c], e) \in Seq(M) /\ Append(toThread[c], e) # <<>>
        /\ Append(toThread[c], e)[Len(Append(toThread[c], e))] = e
    <3> HIDE DEF M
    <3>1. e \in M
      BY DEF M
    <3> QED BY <2>1, <3>1, AppendProperties
  <2> QED BY <1>2, <2>1, <2>2 DEF Posted
<1>3. CASE ClientSends(c)
  <2>1. visitor[c] = "up" /\ texts' \in 0..MaxTexts /\ UNCHANGED <<pins, visitor>>
    BY <1>3, SocketsTypes, SocketsAssumption DEF ClientSends
  <2>2. toThread' \in [Clients -> Seq(ClientTexts \cup {"close"})] /\ \A d \in Clients \ {c} : toThread'[d] = toThread[d]
    <3>1. PICK t \in ClientTexts : toThread' = (IF c \notin torn THEN Posted(toThread, c, t) ELSE toThread)
      BY <1>3 DEF ClientSends
    <3> QED BY <1>2, <3>1
  <2>3. SocketsType'
    BY <1>0, <2>1, <2>2, SocketsTypes DEF SocketsType, threadVars, pastVars
  <2>4. Private(c) /\ Cardinality(entries') <= MaxAccepted /\ UNCHANGED reaped
    BY <1>0, <2>1, <2>2, EntriesBound DEF Private, threadVars, pastVars
  <2>5. Answered(c)' /\ Pinned(c)' /\ Listed(c)'
    BY <1>0, <1>i, <2>1 DEF Answered, Forthcoming, Pinned, Listed, threadVars, pastVars
  <2> QED BY <2>3, <2>4, <2>5, PrivateKeeps
<1>4. CASE LineEnds(c)
  <2>1. /\ visitor[c] = "up" /\ visitor' = [visitor EXCEPT ![c] = "left"] /\ pins' = pins \ {c} /\ UNCHANGED texts
        /\ toThread' = (IF c \notin torn THEN Posted(toThread, c, "close") ELSE toThread)
    BY <1>4 DEF LineEnds
  <2>2. /\ toThread' \in [Clients -> Seq(ClientTexts \cup {"close"})] /\ \A d \in Clients \ {c} : toThread'[d] = toThread[d]
        /\ c \notin torn => toThread'[c] # <<>> /\ toThread'[c][Len(toThread'[c])] = "close"
    BY <1>2, <2>1
  <2>3. /\ visitor' \in [Clients -> {"none", "calling", "offered", "up", "left", "failed", "dropped"}]
        /\ visitor'[c] = "left" /\ \A d \in Clients \ {c} : visitor'[d] = visitor[d]
        /\ pins' \subseteq Clients
    BY <2>1, SocketsTypes
  <2>4. SocketsType'
    BY <1>0, <2>1, <2>2, <2>3, SocketsTypes, SMTT(30) DEF SocketsType, threadVars, pastVars
  <2>5. Private(c) /\ Cardinality(entries') <= MaxAccepted /\ UNCHANGED reaped
    BY <1>0, <2>1, <2>2, <2>3, EntriesBound DEF Private, threadVars, pastVars
  <2>6. Answered(c)'
    BY <1>0, <1>i, <2>1, <2>3 DEF Answered, Forthcoming, threadVars
  <2>7. Pinned(c)' /\ Listed(c)'
    BY <1>0, <1>i, <2>1, <2>2, <2>3 DEF Pinned, Listed, threadVars, pastVars
  <2> QED BY <2>4, <2>5, <2>6, <2>7, PrivateKeeps
<1> QED BY <1>1, <1>3, <1>4

\* An executor goes: nobody is listed, pinned or waits.  If it went for being idle, no
\* socket was open.
LEMMA TornKeeps ==
  ASSUME SocketsInv, EvictUnused \/ Replaced
  PROVE  SocketsInv'
<1>0. SocketsTorn
  BY DEF EvictUnused, Replaced
<1>1. /\ alive' = FALSE /\ stale' = stale
      /\ told' = told \cup {c \in Clients : visitor[c] \in {"offered", "up"}}
      /\ visitor' = [c \in Clients |-> IF visitor[c] = "calling" THEN "failed" ELSE visitor[c]]
      /\ pins' = {} /\ entries' = {} /\ heeded' = {} /\ shipped' = {} /\ pair' = FALSE
      /\ torn' = {c \in Clients : visitor[c] # "none"}
      /\ server' = [c \in Clients |-> IF visitor[c] = "none" THEN "none" ELSE "closed"]
      /\ handlers' = [c \in Clients |-> 0]
      /\ toThread' = [c \in Clients |-> <<>>] /\ toMain' = [c \in Clients |-> <<>>]
      /\ UNCHANGED <<instances, texts, closes>>
  BY <1>0 DEF SocketsTorn
<1>2. reaped' = {} /\ severed' \subseteq Clients
      /\ \A c \in severed' : c \in severed \/ (handlers[c] > 0 /\ visitor[c] # "calling")
  <2>1. CASE Replaced
    BY <2>1, SocketsTypes DEF Replaced
  <2>2. CASE EvictUnused
    <3>1. Open = {}
      <4> SUFFICES ASSUME NEW c \in Clients, visitor[c] \in {"calling", "offered", "up"}, c \notin told PROVE FALSE
        BY DEF Open
      <4>1. Pinned(c) /\ pins = {} /\ Calling = {}
        BY <2>2 DEF SocketsInv, EvictUnused
      <4> QED BY <4>1 DEF Pinned, Calling
    <3>2. \A c \in Clients : visitor[c] # "calling"
      BY <2>2 DEF EvictUnused, Calling
    <3> QED BY <2>2, <3>1, <3>2, SocketsTypes DEF EvictUnused
  <2> QED BY <2>1, <2>2
<1>3. SocketsType'
  <2>1. \A S : <<>> \in Seq(S)
    OBVIOUS
  <2> QED BY <1>1, <1>2, <2>1, SocketsTypes DEF SocketsType
<1>4. Cardinality(entries') <= MaxAccepted
  BY <1>1, FS_EmptySet, SocketsAssumption
<1>5. ASSUME NEW c \in Clients PROVE Answered(c)' /\ Pinned(c)' /\ Listed(c)'
  <2>1. Answered(c) /\ Pinned(c) /\ Listed(c) /\ handlers[c] \in Nat
    BY SocketsTypes DEF SocketsInv
  <2>2. Answered(c)'
    BY <1>1 DEF Answered, Forthcoming
  <2>3. Pinned(c)'
    <3>1. c \in severed' => visitor[c] \notin {"none", "calling"} \/ c \in severed
      BY <1>2, <2>1 DEF Answered
    <3> QED BY <1>1, <2>1, <3>1, SocketsTypes DEF Pinned
  <2>4. Listed(c)'
    <3>1. closes[c] = 1 => visitor[c] # "none"
      BY <2>1 DEF Answered, Listed
    <3> QED BY <1>1, <2>1, <3>1 DEF Listed
  <2> QED BY <2>2, <2>3, <2>4
<1> QED BY <1>2, <1>3, <1>4, <1>5 DEF SocketsInv

LEMMA QuietKeeps ==
  ASSUME SocketsInv,
         UNCHANGED <<instances, alive, pins, visitor, told, torn, texts, threadVars, toThread, toMain, pastVars>>,
         stale' \in BOOLEAN
  PROVE  SocketsInv'
<1>1. SocketsType'
  BY SocketsTypes DEF SocketsType, threadVars, pastVars
<1> QED BY <1>1 DEF SocketsInv, Answered, Forthcoming, Pinned, Listed, threadVars, pastVars

LEMMA SocketsAlways == SocketsSpec => []SocketsInv
<1>1. SocketsInit => SocketsInv
  <2> SUFFICES ASSUME SocketsInit PROVE SocketsInv
    OBVIOUS
  <2>1. SocketsType
    <3>1. \A S : <<>> \in Seq(S)
      OBVIOUS
    <3>2. alive = FALSE /\ stale = FALSE /\ pair = FALSE /\ instances \in 0..MaxInstances /\ texts \in 0..MaxTexts
      BY SocketsAssumption DEF SocketsInit
    <3>3. {alive, stale, pair} \subseteq BOOLEAN
      BY <3>2
    <3>4. UNION {pins, told, torn, entries, heeded, shipped, reaped, severed} \subseteq Clients
      BY DEF SocketsInit
    <3>5. /\ visitor \in [Clients -> {"none", "calling", "offered", "up", "left", "failed", "dropped"}]
          /\ server \in [Clients -> {"none", "made", "open", "closed"}]
          /\ handlers \in [Clients -> Nat] /\ closes \in [Clients -> Nat]
      BY DEF SocketsInit
    <3>6. /\ toThread \in [Clients -> Seq(ClientTexts \cup {"close"})]
          /\ toMain \in [Clients -> Seq({"close", "result", "error"})]
      BY <3>1 DEF SocketsInit
    <3> QED BY <3>2, <3>3, <3>4, <3>5, <3>6 DEF SocketsType
  <2>2. Cardinality(entries) <= MaxAccepted
    BY FS_EmptySet, SocketsAssumption DEF SocketsInit
  <2> QED BY <2>1, <2>2 DEF SocketsInit, SocketsInv, Answered, Forthcoming, Pinned, Listed
<1>2. SocketsInv /\ [SocketsNext]_socketsVars => SocketsInv'
  <2> SUFFICES ASSUME SocketsInv, [SocketsNext]_socketsVars PROVE SocketsInv'
    OBVIOUS
  <2>1. ASSUME NEW c \in Clients,
               \/ AcceptWebSocket(c) \/ AcceptPlain(c) \/ Ship(c) \/ FetchThrows(c)
               \/ ServerCloses(c) \/ TextArrives(c) \/ CloseArrives(c) \/ HandlerEnds(c)
        PROVE  SocketsInv'
    BY <2>1, AcceptsKeep, RepliesKeep, ServerClosesKeeps, ArrivesKeep, HandlerEndsKeeps
  <2>2. ASSUME NEW c \in Clients,
               \/ Upgrade(c) \/ ResultArrives(c) \/ ErrorArrives(c) \/ CloseComesOut(c)
               \/ LineUp(c) \/ ClientSends(c) \/ LineEnds(c)
        PROVE  SocketsInv'
    BY <2>2, UpgradeKeeps, AnswersArriveKeep, CloseComesOutKeeps, LineKeeps
  <2>3. CASE TurnsStale
    BY <2>3, QuietKeeps DEF TurnsStale
  <2>4. CASE EvictUnused \/ Replaced
    BY <2>4, TornKeeps
  <2>5. CASE UNCHANGED socketsVars
    BY <2>5, SocketsTypes, QuietKeeps DEF socketsVars, mainVars
  <2> QED BY <2>1, <2>2, <2>3, <2>4, <2>5 DEF SocketsNext
<1> QED BY <1>1, <1>2, PTL DEF SocketsSpec

\* The reaper never cuts off an open socket, a pin goes with its socket, the list and its
\* limit count open ones, and webSocketClose runs once (executeFetch, clientClose,
\* _evictIdle), for any number of clients and executors.
THEOREM SocketsHeldAlways == SocketsSpec => []SocketsHeld
<1>1. SocketsInv => SocketsHeld
  <2> SUFFICES ASSUME SocketsInv PROVE SocketsHeld
    OBVIOUS
  <2>1. \A c \in Clients : Pinned(c) /\ Listed(c)
    BY DEF SocketsInv
  <2>2. reaped = {} /\ \A c \in severed : c \in told \/ visitor[c] # "up"
    BY <2>1, SocketsTypes DEF Pinned
  <2>3. PinsReleased
    BY <2>1, SocketsTypes DEF PinsReleased, Pinned
  <2>4. EntriesLive
    <3> SUFFICES ASSUME NEW c \in entries, visitor[c] = "left" PROVE Len(toThread[c]) > 0
      BY DEF EntriesLive
    <3>1. c \in Clients /\ toThread[c] \in Seq(ClientTexts \cup {"close"}) /\ toThread[c] # <<>>
      BY <2>1, SocketsTypes DEF Listed
    <3> QED BY <3>1
  <2>5. Cardinality(entries) <= MaxAccepted /\ \A c \in Clients : closes[c] <= 1
    BY <2>1 DEF SocketsInv, Listed
  <2> QED BY <2>2, <2>3, <2>4, <2>5 DEF SocketsHeld
<1> QED BY <1>1, SocketsAlways, PTL

-----------------------------------------------------------------------------
(* Cron triggers.                                                            *)

\* How many days up to the d-th are that weekday.
Closed(month, w, d) == ((month.first + d + 6 - w) \div 7) - ((month.first + 6 - w) \div 7)

\* Division and remainder by seven, as quotient and rest.
LEMMA Sevens ==
  ASSUME NEW x \in Nat
  PROVE  /\ x \div 7 \in Nat /\ x % 7 \in 0..6 /\ x = 7 * (x \div 7) + (x % 7)
         /\ \A q \in Nat, r \in 0..6 : x = 7 * q + r => q = x \div 7 /\ r = x % 7
<1>1. x \div 7 \in Nat /\ x % 7 \in 0..6 /\ x = 7 * (x \div 7) + (x % 7)
  OBVIOUS
<1> QED BY <1>1

\* A month begins on one of seven weekdays and has 28 to 31 days.
LEMMA DaysTyped == ASSUME NEW month \in Months PROVE month.first \in 0..6 /\ month.last \in 28..31
BY DEF Months

\* One more if the d-th day itself is that weekday.
LEMMA ClosedStep ==
  ASSUME NEW month \in Months, NEW w \in 0..6, NEW d \in 1..month.last
  PROVE  Closed(month, w, d) = Closed(month, w, d - 1) + (IF DayOfWeek(month, d) = w THEN 1 ELSE 0)
<1> DEFINE y == month.first + d - 1
           z == month.first + d + 6 - w
<1>1. month.first \in 0..6 /\ month.last \in 28..31
  BY DaysTyped
<1>2. y \in Nat /\ z \in Nat /\ z - 1 \in Nat /\ z = y + 7 - w
  BY <1>1
<1>3. /\ y = 7 * (y \div 7) + (y % 7) /\ y % 7 \in 0..6 /\ y \div 7 \in Nat
      /\ z = 7 * (z \div 7) + (z % 7) /\ z % 7 \in 0..6 /\ z \div 7 \in Nat
      /\ z - 1 = 7 * ((z - 1) \div 7) + ((z - 1) % 7) /\ (z - 1) % 7 \in 0..6 /\ (z - 1) \div 7 \in Nat
  <2> HIDE DEF y, z
  <2> QED BY <1>2, Sevens
<1>4. z \div 7 = ((z - 1) \div 7) + (IF y % 7 = w THEN 1 ELSE 0)
  <2> HIDE DEF y, z
  <2> QED BY <1>2, <1>3
<1>5. month.first + (d - 1) + 6 - w = z - 1
  BY <1>1
<1>6. (month.first + 6 - w) \div 7 \in Int
  BY <1>1
<1>7. DayOfWeek(month, d) = y % 7
  BY DEF DayOfWeek
<1> HIDE DEF y
<1>8. Closed(month, w, d - 1) = ((z - 1) \div 7) - ((month.first + 6 - w) \div 7)
  BY <1>5 DEF Closed
<1>9. Closed(month, w, d) = (z \div 7) - ((month.first + 6 - w) \div 7)
  BY DEF Closed
<1> HIDE DEF z
<1> QED BY <1>3, <1>4, <1>6, <1>7, <1>8, <1>9

\* The count is defined: the closed form satisfies its recursion.
LEMMA CountDef ==
  ASSUME NEW month \in Months, NEW w \in 0..6
  PROVE  CountOf(month, w) = [d \in 0..month.last |->
           IF d = 0 THEN 0 ELSE CountOf(month, w)[d - 1] + (IF DayOfWeek(month, d) = w THEN 1 ELSE 0)]
<1> DEFINE Step(f) == [d \in 0..month.last |->
             IF d = 0 THEN 0 ELSE f[d - 1] + (IF DayOfWeek(month, d) = w THEN 1 ELSE 0)]
           g == [d \in 0..month.last |-> Closed(month, w, d)]
<1>1. Closed(month, w, 0) = 0
  BY DaysTyped DEF Closed
<1>2. g = Step(g)
  BY <1>1, ClosedStep, DaysTyped
<1>3. CountOf(month, w) = CHOOSE f : f = Step(f)
  BY DEF CountOf
<1> QED BY <1>2, <1>3

\* And it is the closed form: on the first day on which they differed they would not.
LEMMA CountIs ==
  ASSUME NEW month \in Months, NEW w \in 0..6, NEW d \in 0..month.last
  PROVE  CountOf(month, w)[d] = Closed(month, w, d)
<1> DEFINE f == CountOf(month, w)
           T == {e \in 0..month.last : f[e] # Closed(month, w, e)}
<1>1. \A e \in 0..month.last :
        f[e] = IF e = 0 THEN 0 ELSE f[e - 1] + (IF DayOfWeek(month, e) = w THEN 1 ELSE 0)
  <2> HIDE DEF f
  <2>1. f = [e \in 0..month.last |->
               IF e = 0 THEN 0 ELSE f[e - 1] + (IF DayOfWeek(month, e) = w THEN 1 ELSE 0)]
    BY CountDef DEF f
  <2> QED BY <2>1
<1>2. Closed(month, w, 0) = 0
  BY DaysTyped DEF Closed
<1> HIDE DEF f
<1>3. ASSUME T # {} PROVE FALSE
  <2>1. PICK m \in T : \A n \in T : m <= n
    <3>1. T \subseteq Nat
      BY DaysTyped
    <3> HIDE DEF T
    <3> QED BY <1>3, <3>1, LeastNumber
  <2>2. m # 0 /\ m \in 1..month.last /\ m - 1 \in 0..month.last
    BY <1>1, <1>2, <2>1, DaysTyped
  <2>3. m - 1 \notin T
    BY <2>1, <2>2, DaysTyped
  <2>4. f[m - 1] = Closed(month, w, m - 1)
    BY <2>2, <2>3
  <2>5. f[m] = Closed(month, w, m)
    BY <1>1, <2>2, <2>4, ClosedStep
  <2> QED BY <2>1, <2>5
<1> QED BY <1>3 DEF f

\* Days of the same weekday are weeks apart.
LEMMA Week ==
  ASSUME NEW month \in Months, NEW d \in Days(month)
  PROVE  /\ DayOfWeek(month, d) \in 0..6
         /\ \E q \in 0..5 : month.first + d - 1 = 7 * q + DayOfWeek(month, d)
<1> DEFINE x == month.first + d - 1
<1>1. x \in Nat /\ x <= 36
  BY DaysTyped DEF Days
<1>2. x \div 7 \in 0..5 /\ x % 7 \in 0..6 /\ x = 7 * (x \div 7) + (x % 7)
  <2> HIDE DEF x
  <2>1. x \div 7 \in Nat /\ x % 7 \in 0..6 /\ x = 7 * (x \div 7) + (x % 7)
    BY <1>1, Sevens
  <2>2. ASSUME NEW q \in Nat, NEW r \in 0..6, x = 7 * q + r PROVE q \in 0..5
    BY <1>1, <2>2
  <2> QED BY <2>1, <2>2
<1>3. DayOfWeek(month, d) = x % 7
  BY DEF DayOfWeek
<1> HIDE DEF x
<1>4. DayOfWeek(month, d) \in 0..6 /\ \E q \in 0..5 : x = 7 * q + DayOfWeek(month, d)
  BY <1>2, <1>3
<1> QED BY <1>4 DEF x

\* A weekday is the n-th of its kind if it lies in the n-th seven days of the month.
LEMMA CountOnDay ==
  ASSUME NEW month \in Months, NEW w \in 0..6, NEW d \in Days(month), DayOfWeek(month, d) = w,
         NEW n \in 1..5
  PROVE  CountOf(month, w)[d] = n <=> d \in 7 * (n - 1) + 1 .. 7 * n
<1> DEFINE a == month.first
<1>1. PICK q \in 0..5 : a + d - 1 = 7 * q + w
  BY Week
<1>2. a \in 0..6 /\ d \in 1..31 /\ d \in 0..month.last
  BY DaysTyped DEF Days
<1>3. (a + d + 6 - w) \div 7 = q + 1
  <2>1. a + d + 6 - w \in Nat /\ a + d + 6 - w = 7 * (q + 1) + 0
    <3> HIDE DEF a
    <3> QED BY <1>1, <1>2
  <2> QED BY <2>1, Sevens, 0 \in 0..6, q + 1 \in Nat
<1>4. (a + 6 - w) \div 7 = IF a > w THEN 1 ELSE 0
  <2>1. a + 6 - w \in Nat
    BY <1>2
  <2>2. CASE a > w
    <3>1. a + 6 - w = 7 * 1 + (a - 1 - w) /\ a - 1 - w \in 0..6
      BY <1>2, <2>2
    <3> QED BY <2>1, <2>2, <3>1, Sevens
  <2>3. CASE ~(a > w)
    <3>1. a + 6 - w = 7 * 0 + (a + 6 - w) /\ a + 6 - w \in 0..6
      BY <1>2, <2>3
    <3> QED BY <2>1, <2>3, <3>1, Sevens
  <2> QED BY <2>2, <2>3
<1>5. CountOf(month, w)[d] = q + 1 - (IF a > w THEN 1 ELSE 0)
  <2>1. CountOf(month, w)[d] = Closed(month, w, d)
    BY <1>2, CountIs
  <2>2. Closed(month, w, d) = ((a + d + 6 - w) \div 7) - ((a + 6 - w) \div 7)
    BY DEF Closed
  <2> HIDE DEF a
  <2> QED BY <1>3, <1>4, <2>1, <2>2
<1> HIDE DEF a
<1> QED BY <1>1, <1>2, <1>5

\* What # selects.
LEMMA NthTrue ==
  ASSUME NEW month \in Months, NEW w \in 0..6, NEW n \in 1..5, NEW d \in Days(month)
  PROVE  NthWeekday(month, w, n) # 0 /\ d = NthWeekday(month, w, n)
           <=> DayOfWeek(month, d) = w /\ d \in 7 * (n - 1) + 1 .. 7 * n
<1> DEFINE hits == {e \in Days(month) : DayOfWeek(month, e) = w /\ CountOf(month, w)[e] = n}
<1>1. \A e \in Days(month) : e \in hits <=> DayOfWeek(month, e) = w /\ e \in 7 * (n - 1) + 1 .. 7 * n
  BY CountOnDay
<1>2. \A e \in hits : e \in Days(month)
  OBVIOUS
<1>3. NthWeekday(month, w, n) = IF hits = {} THEN 0 ELSE Min(hits)
  BY DEF NthWeekday
<1> HIDE DEF hits
<1>4. \A e, g \in hits : e = g
  <2> SUFFICES ASSUME NEW e \in hits, NEW g \in hits PROVE e = g
    OBVIOUS
  <2>1. /\ \E q \in 0..5 : month.first + e - 1 = 7 * q + w
        /\ \E q \in 0..5 : month.first + g - 1 = 7 * q + w
    BY <1>1, <1>2, Week
  <2>2. e \in 7 * (n - 1) + 1 .. 7 * n /\ g \in 7 * (n - 1) + 1 .. 7 * n
    BY <1>1, <1>2
  <2> QED BY <2>1, <2>2, DaysTyped
<1>5. ASSUME NEW e \in hits PROVE NthWeekday(month, w, n) = e /\ e # 0
  <2>1. hits = {e} /\ e \in Int /\ e # 0
    BY <1>2, <1>4 DEF Days
  <2>2. Min({e}) = e
    BY <2>1 DEF Min
  <2> QED BY <1>3, <2>1, <2>2
<1> QED BY <1>1, <1>2, <1>3, <1>5

\* What L behind a weekday selects: a day with no such day a week later.
LEMMA LastOfTrue ==
  ASSUME NEW month \in Months, NEW w \in 0..6, NEW d \in Days(month)
  PROVE  d = LastWeekday(month, w) <=> DayOfWeek(month, d) = w /\ d + 7 \notin Days(month)
<1> DEFINE S == {e \in Days(month) : DayOfWeek(month, e) = w}
           a == month.first
           l == month.last
           x == a + l - 1 - w
<1>1. a \in 0..6 /\ l \in 28..31
  BY DaysTyped
<1>2. x \in Nat /\ x % 7 \in 0..6 /\ x = 7 * (x \div 7) + (x % 7) /\ x \div 7 \in Nat
  <2>1. x \in Nat
    BY <1>1
  <2> HIDE DEF x
  <2> QED BY <2>1, Sevens
<1> DEFINE z == l - (x % 7)
<1>3. z \in 1..l /\ z + 7 > l /\ z \in Nat /\ a + z - 1 = 7 * (x \div 7) + w
  <2>1. ASSUME NEW q \in Nat, NEW r \in 0..6, a + l - 1 - w = 7 * q + r
        PROVE  l - r \in 1..l /\ (l - r) + 7 > l /\ l - r \in Nat /\ a + (l - r) - 1 = 7 * q + w
    <3> HIDE DEF a, l
    <3> QED BY <1>1, <2>1
  <2> HIDE DEF a, l
  <2>2. x = a + l - 1 - w
    OBVIOUS
  <2> HIDE DEF x
  <2> QED BY <1>2, <2>1, <2>2
<1>4. z \in Days(month)
  BY <1>3 DEF Days
<1>5. DayOfWeek(month, z) = w
  <2>1. a + z - 1 \in Nat
    BY <1>1, <1>3
  <2> HIDE DEF z, x
  <2> QED BY <1>2, <1>3, <2>1, Sevens DEF DayOfWeek
<1> HIDE DEF z
<1>6. \A e \in S : e <= z
  <2> SUFFICES ASSUME NEW e \in S PROVE e <= z
    OBVIOUS
  <2>1. PICK q \in 0..5 : a + e - 1 = 7 * q + w
    BY Week
  <2>2. e <= l /\ e \in Nat
    BY <1>1 DEF Days
  <2> DEFINE k == x \div 7
  <2>3. k \in Nat /\ a + z - 1 = 7 * k + w
    BY <1>2, <1>3
  <2> HIDE DEF S, a, l, k
  <2> QED BY <1>1, <1>3, <2>1, <2>2, <2>3
<1>7. LastWeekday(month, w) = z
  <2>1. z \in S
    BY <1>4, <1>5
  <2>2. S \subseteq Int
    BY DEF Days
  <2>3. LastWeekday(month, w) = CHOOSE t \in S : \A y \in S : t >= y
    BY DEF LastWeekday, Max
  <2>4. z \in S /\ \A y \in S : z >= y
    BY <1>6, <2>1, <2>2
  <2>5. \A t \in S : (\A y \in S : t >= y) => t = z
    BY <1>6, <2>1, <2>2
  <2> HIDE DEF S
  <2> QED BY <2>3, <2>4, <2>5
<1>8. d + 7 \notin Days(month) <=> d + 7 > l
  BY <1>1 DEF Days
<1>9. ASSUME DayOfWeek(month, d) = w, d + 7 > l PROVE d = z
  <2>1. PICK q \in 0..5 : a + d - 1 = 7 * q + w
    BY <1>9, Week
  <2>2. d <= l /\ d \in Nat /\ d <= z
    BY <1>1, <1>6, <1>9 DEF Days
  <2> DEFINE k == x \div 7
  <2>3. k \in Nat /\ a + z - 1 = 7 * k + w
    BY <1>2, <1>3
  <2> HIDE DEF S, a, l, k
  <2> QED BY <1>1, <1>3, <1>9, <2>1, <2>2, <2>3
<1> QED BY <1>1, <1>3, <1>5, <1>7, <1>8, <1>9

\* From one day of a month to another one near it.
Wrapped(x) == IF x < 0 THEN x + 7 ELSE IF x > 6 THEN x - 7 ELSE x

LEMMA Shift ==
  ASSUME NEW month \in Months, NEW d \in Days(month), NEW e \in Days(month), e - d \in -2..2
  PROVE  DayOfWeek(month, e) = Wrapped(DayOfWeek(month, d) + (e - d))
<1> DEFINE a == month.first
           v == DayOfWeek(month, d)
           w == DayOfWeek(month, e)
<1>1. PICK p \in 0..5 : a + d - 1 = 7 * p + v
  BY Week
<1>2. PICK q \in 0..5 : a + e - 1 = 7 * q + w
  BY Week
<1>3. v \in 0..6 /\ w \in 0..6 /\ a \in 0..6 /\ d \in 1..31 /\ e \in 1..31
  BY Week, DaysTyped DEF Days
<1> HIDE DEF a, v, w
<1>4. e - d = 7 * q - 7 * p + w - v
  BY <1>1, <1>2, <1>3
<1>5. q = p \/ q = p + 1 \/ p = q + 1
  BY <1>3, <1>4
<1> QED BY <1>3, <1>4, <1>5 DEF Wrapped, v, w

\* The working day that is nearest to a day on the weekend is the only one so near.
LEMMA NearestTrue ==
  ASSUME NEW month \in Months, NEW n \in 1..31, NEW d \in Days(month)
  PROVE  LET m == IF n < month.last THEN n ELSE month.last IN
         d = NearestWeekday(month, n)
           <=> /\ IsWeekday(month, d)
               /\ \A e \in Days(month) : IsWeekday(month, e) => Distance(d, m) <= Distance(e, m)
<1> DEFINE l == month.last
           m == IF n < l THEN n ELSE l
           D(e) == DayOfWeek(month, e)
           near == CASE D(m) \in 1..5 -> m
                     [] D(m) = 6 -> IF m > 1 THEN m - 1 ELSE m + 2
                     [] D(m) = 0 -> IF m < l THEN m + 1 ELSE m - 2
<1>1. l \in 28..31 /\ m \in 1..l
  BY DaysTyped
<1>2. \A e : e \in Days(month) <=> e \in 1..l
  BY DEF Days
<1>3. NearestWeekday(month, n) = near
  BY DEF NearestWeekday
<1>4. \A e \in 1..l : D(e) \in 0..6 /\ (e - m \in -2..2 => D(e) = Wrapped(D(m) + (e - m)))
  <2> SUFFICES ASSUME NEW e \in 1..l PROVE D(e) \in 0..6 /\ (e - m \in -2..2 => D(e) = Wrapped(D(m) + (e - m)))
    OBVIOUS
  <2>1. e \in Days(month) /\ m \in Days(month)
    BY <1>1, <1>2
  <2> HIDE DEF m, l
  <2> QED BY <2>1, Week, Shift
<1>5. \A e : IsWeekday(month, e) <=> D(e) \in 1..5
  BY DEF IsWeekday
<1>6. \A e \in Int : Distance(e, m) = IF e < m THEN m - e ELSE e - m
  BY <1>1 DEF Distance
<1> HIDE DEF m, l, D
<1>7. near \in 1..l /\ D(near) \in 1..5 /\ \A e \in 1..l : e # near /\ D(e) \in 1..5 =>
        (IF near < m THEN m - near ELSE near - m) < (IF e < m THEN m - e ELSE e - m)
  <2>1. CASE D(m) \in 1..5
    <3>1. near = m
      BY <2>1
    <3> HIDE DEF near
    <3> QED BY <1>1, <2>1, <3>1
  <2>2. CASE D(m) = 6 /\ m > 1
    <3>1. near = m - 1
      BY <2>2
    <3> HIDE DEF near
    <3>2. near \in 1..l
      BY <1>1, <2>2, <3>1
    <3>3. D(near) = 5
      BY <1>1, <1>4, <2>2, <3>1, <3>2 DEF Wrapped
    <3>4. ASSUME NEW e \in 1..l, e # near, D(e) \in 1..5, ~(e + 1 < m), ~(e > m + 1) PROVE FALSE
      BY <1>1, <1>4, <2>2, <3>1, <3>4 DEF Wrapped
    <3> QED BY <1>1, <2>2, <3>1, <3>2, <3>3, <3>4
  <2>3. CASE D(m) = 6 /\ ~(m > 1)
    <3>1. near = m + 2 /\ m = 1
      BY <1>1, <2>3
    <3> HIDE DEF near
    <3>2. near \in 1..l
      BY <1>1, <3>1
    <3>3. D(near) = 1
      BY <1>1, <1>4, <2>3, <3>1, <3>2 DEF Wrapped
    <3>4. ASSUME NEW e \in 1..l, e # near, D(e) \in 1..5, ~(e > m + 2) PROVE FALSE
      BY <1>1, <1>4, <2>3, <3>1, <3>4 DEF Wrapped
    <3> QED BY <1>1, <3>1, <3>2, <3>3, <3>4
  <2>4. CASE D(m) = 0 /\ m < l
    <3>1. near = m + 1
      BY <2>4
    <3> HIDE DEF near
    <3>2. near \in 1..l
      BY <1>1, <2>4, <3>1
    <3>3. D(near) = 1
      BY <1>1, <1>4, <2>4, <3>1, <3>2 DEF Wrapped
    <3>4. ASSUME NEW e \in 1..l, e # near, D(e) \in 1..5, ~(e + 1 < m), ~(e > m + 1) PROVE FALSE
      BY <1>1, <1>4, <2>4, <3>1, <3>4 DEF Wrapped
    <3> QED BY <1>1, <2>4, <3>1, <3>2, <3>3, <3>4
  <2>5. CASE D(m) = 0 /\ ~(m < l)
    <3>1. near = m - 2 /\ m = l
      BY <1>1, <2>5
    <3> HIDE DEF near
    <3>2. near \in 1..l
      BY <1>1, <3>1
    <3>3. D(near) = 5
      BY <1>1, <1>4, <2>5, <3>1, <3>2 DEF Wrapped
    <3>4. ASSUME NEW e \in 1..l, e # near, D(e) \in 1..5, ~(e < m - 2) PROVE FALSE
      BY <1>1, <1>4, <2>5, <3>1, <3>4 DEF Wrapped
    <3> QED BY <1>1, <3>1, <3>2, <3>3, <3>4
  <2>6. D(m) \in 0..6
    BY <1>1, <1>4
  <2> HIDE DEF near
  <2> QED BY <2>1, <2>2, <2>3, <2>4, <2>5, <2>6
<1> HIDE DEF near
<1>8. d \in 1..l
  BY <1>2
<1>9. d = near <=> D(d) \in 1..5 /\ \A e \in 1..l : D(e) \in 1..5 => Distance(d, m) <= Distance(e, m)
  <2>1. \A e \in 1..l : D(e) \in 1..5 => Distance(near, m) <= Distance(e, m)
    <3> SUFFICES ASSUME NEW e \in 1..l, D(e) \in 1..5, e # near PROVE Distance(near, m) <= Distance(e, m)
      BY <1>1, <1>6, <1>7
    <3> QED BY <1>1, <1>6, <1>7
  <2>2. ASSUME d # near, D(d) \in 1..5 PROVE ~(Distance(d, m) <= Distance(near, m))
    BY <1>1, <1>6, <1>7, <1>8, <2>2
  <2> QED BY <1>7, <1>8, <2>1, <2>2
<1>10. d = NearestWeekday(month, n)
         <=> /\ IsWeekday(month, d)
             /\ \A e \in Days(month) : IsWeekday(month, e) => Distance(d, m) <= Distance(e, m)
  BY <1>2, <1>3, <1>5, <1>9
<1> QED BY <1>10 DEF m, l

\* What LW selects.
LEMMA LastWorkdayTrue ==
  ASSUME NEW month \in Months, NEW d \in Days(month)
  PROVE  d = LastWorkday(month)
           <=> IsWeekday(month, d) /\ \A e \in Days(month) : IsWeekday(month, e) => e <= d
<1> DEFINE l == month.last
           D(e) == DayOfWeek(month, e)
           workday == l - (CASE D(l) = 0 -> 2 [] D(l) = 6 -> 1 [] OTHER -> 0)
<1>1. l \in 28..31
  BY DaysTyped
<1>2. \A e : e \in Days(month) <=> e \in 1..l
  BY DEF Days
<1>3. LastWorkday(month) = workday
  BY DEF LastWorkday
<1>4. \A e \in 1..l : D(e) \in 0..6 /\ (e - l \in -2..2 => D(e) = Wrapped(D(l) + (e - l)))
  <2> SUFFICES ASSUME NEW e \in 1..l PROVE D(e) \in 0..6 /\ (e - l \in -2..2 => D(e) = Wrapped(D(l) + (e - l)))
    OBVIOUS
  <2>1. e \in Days(month) /\ l \in Days(month)
    BY <1>1, <1>2
  <2> HIDE DEF l
  <2> QED BY <2>1, Week, Shift
<1>5. \A e : IsWeekday(month, e) <=> D(e) \in 1..5
  BY DEF IsWeekday
<1> HIDE DEF l, D
<1>6. workday \in 1..l /\ D(workday) \in 1..5 /\ \A e \in 1..l : D(e) \in 1..5 => e <= workday
  <2>1. CASE D(l) = 0
    <3>1. workday = l - 2
      BY <2>1
    <3> HIDE DEF workday
    <3>2. workday \in 1..l
      BY <1>1, <3>1
    <3>3. D(workday) = 5
      BY <1>1, <1>4, <2>1, <3>1, <3>2 DEF Wrapped
    <3>4. ASSUME NEW e \in 1..l, e > workday, D(e) \in 1..5 PROVE FALSE
      BY <1>1, <1>4, <2>1, <3>1, <3>4 DEF Wrapped
    <3> QED BY <1>1, <3>1, <3>2, <3>3, <3>4
  <2>2. CASE D(l) = 6
    <3>1. workday = l - 1
      BY <2>2
    <3> HIDE DEF workday
    <3>2. workday \in 1..l
      BY <1>1, <3>1
    <3>3. D(workday) = 5
      BY <1>1, <1>4, <2>2, <3>1, <3>2 DEF Wrapped
    <3>4. ASSUME NEW e \in 1..l, e > workday, D(e) \in 1..5 PROVE FALSE
      BY <1>1, <1>4, <2>2, <3>1, <3>4 DEF Wrapped
    <3> QED BY <1>1, <3>1, <3>2, <3>3, <3>4
  <2>3. CASE D(l) \in 1..5
    <3>1. workday = l
      BY <1>1, <2>3
    <3> HIDE DEF workday
    <3> QED BY <1>1, <2>3, <3>1
  <2>4. D(l) \in 0..6
    BY <1>1, <1>4
  <2> HIDE DEF workday
  <2> QED BY <2>1, <2>2, <2>3, <2>4
<1> HIDE DEF workday
<1>7. d \in 1..l
  BY <1>2
<1> QED BY <1>1, <1>2, <1>3, <1>5, <1>6, <1>7

\* What a range with a step selects.
LEMMA StepsTrue ==
  ASSUME NEW a \in {1, 4}, NEW b \in {2, 9, 31}, NEW n \in 1..3, NEW d \in 1..31
  PROVE  d \in Stepped(a, b, n) <=> d >= a /\ d <= b /\ (d - a) % n = 0
<1>1. d \in Stepped(a, b, n) <=> d >= a /\ d <= b /\ \E i \in 0..31 : d = a + i * n
  BY DEF Stepped
<1>2. ASSUME d >= a, d <= b PROVE (d - a) % n = 0 <=> \E i \in 0..31 : d = a + i * n
  <2> DEFINE x == d - a
  <2>1. x \in 0..31
    BY <1>2
  <2>2. (\E i \in 0..31 : d = a + i * n) <=> \E i \in 0..31 : x = i * n
    <3>1. \A i \in 0..31 : i * n \in Int
      OBVIOUS
    <3> QED BY <3>1
  <2> HIDE DEF x
  <2>3. /\ x % n \in 0..(n - 1) /\ x \div n \in Int
        /\ x = n * (x \div n) + (x % n)
        /\ n \in {1, 2, 3}
    <3>1. CASE n = 1
      BY <2>1, <3>1
    <3>2. CASE n = 2
      BY <2>1, <3>2
    <3>3. CASE n = 3
      BY <2>1, <3>3
    <3> QED BY <3>1, <3>2, <3>3
  <2> DEFINE q == x \div n
             r == x % n
  <2> HIDE DEF q, r
  <2>4. r \in 0..(n - 1) /\ q \in Int /\ x = n * q + r
    BY <2>3 DEF q, r
  <2>5. r = 0 <=> \E i \in 0..31 : x = i * n
    <3>1. CASE n = 1
      BY <2>1, <2>4, <3>1
    <3>2. CASE n = 2
      <4>1. ASSUME r = 0 PROVE q \in 0..31 /\ x = q * n
        BY <2>1, <2>4, <3>2, <4>1
      <4>2. ASSUME NEW i \in 0..31, x = i * n PROVE r = 0
        BY <2>1, <2>4, <3>2, <4>2
      <4> QED BY <4>1, <4>2
    <3>3. CASE n = 3
      <4>1. ASSUME r = 0 PROVE q \in 0..31 /\ x = q * n
        BY <2>1, <2>4, <3>3, <4>1
      <4>2. ASSUME NEW i \in 0..31, x = i * n PROVE r = 0
        BY <2>1, <2>4, <3>3, <4>2
      <4> QED BY <4>1, <4>2
    <3> QED BY <2>3, <3>1, <3>2, <3>3
  <2>6. x % n = 0 <=> \E i \in 0..31 : x = i * n
    BY <2>5 DEF r
  <2> QED BY <2>2, <2>6 DEF x
<1> QED BY <1>1, <1>2

\* Every part of a field selects the days that it names, in every month.
LEMMA SelectionAlways == SelectionTrue
<1> SUFFICES ASSUME NEW month \in Months, NEW p \in Part, NEW d \in Days(month)
             PROVE  MatchPart(p, month, d) <=> Means(p, month, d)
  BY DEF SelectionTrue
<1>0. month.last \in 28..31 /\ d \in 1..month.last
  BY DaysTyped DEF Days
<1>1. CASE p.kind = "nearest" /\ p.n \in 1..31
  BY <1>1, NearestTrue DEF MatchPart, Means
<1>2. CASE p.kind = "last"
  <2>1. d = month.last <=> d + 1 \notin Days(month)
    BY <1>0 DEF Days
  <2> QED BY <1>2, <2>1 DEF MatchPart, Means
<1>3. CASE p.kind = "lastWorkday"
  BY <1>3, LastWorkdayTrue DEF MatchPart, Means
<1>4. CASE p.kind = "nth" /\ p.n \in 1..5 /\ p.w \in 0..6
  BY <1>4, NthTrue DEF MatchPart, Means
<1>5. CASE p.kind = "lastOf" /\ p.w \in 0..6
  BY <1>5, LastOfTrue DEF MatchPart, Means
<1>6. CASE p.kind = "steps" /\ p.n \in 1..3 /\ p.from \in {1, 4} /\ p.to \in {2, 9, 31}
  <2>1. d \in 1..31
    BY <1>0
  <2> DEFINE a == p.from
             b == p.to
             n == p.n
  <2>2. a \in {1, 4} /\ b \in {2, 9, 31} /\ n \in 1..3
    BY <1>6
  <2> HIDE DEF a, b, n
  <2>3. d \in Stepped(a, b, n) <=> d >= a /\ d <= b /\ (d - a) % n = 0
    BY <2>1, <2>2, StepsTrue
  <2> QED BY <1>6, <2>3 DEF MatchPart, Means, a, b, n
<1> QED BY <1>1, <1>2, <1>3, <1>4, <1>5, <1>6 DEF Part

\* A minute fires at most once and only if it matches, not before it begins; the minute
\* that fired last is remembered.  A poll that is due is never overdue for longer than
\* timers may be late.
CronShape ==
  /\ matching \in [Crons -> SUBSET Minutes]
  /\ clock \in Nat /\ clock < (MaxMinutes + 1) * Minute
  /\ nextPoll \in Int /\ upSince \in Int
  /\ lastFired \in [Crons -> Minutes \cup {-1}]
  /\ fires \in [Crons -> [Minutes -> Nat]]
  /\ nextPoll # -1 => nextPoll >= 0 /\ clock <= nextPoll + Late

FiredOnce(c, m) ==
  /\ fires[c][m] \in {0, 1}
  /\ fires[c][m] = 1 => m \in matching[c] /\ m * Minute <= clock
  /\ fires[c][m] = 1 /\ clock < (m + 1) * Minute => lastFired[c] = m
  /\ lastFired[c] = m => fires[c][m] = 1

\* A minute that is over for the timer, which ran from before it, has fired.
FiredInTime(c, m) ==
  nextPoll # -1 /\ m \in matching[c] /\ upSince <= m * Minute /\ nextPoll > m * Minute + Interval => fires[c][m] = 1

CronInv == CronShape /\ \A c \in Crons, m \in Minutes : FiredOnce(c, m) /\ FiredInTime(c, m)

\* No handler has run at the start.
LEMMA CronStarts == CronInit => CronInv
<1> SUFFICES ASSUME CronInit PROVE CronInv
  OBVIOUS
<1>1. CronShape
  BY CronAssumption DEF CronInit, CronShape, Minutes, Minute, Late
<1>2. ASSUME NEW c \in Crons, NEW m \in Minutes PROVE FiredOnce(c, m) /\ FiredInTime(c, m)
  BY CronAssumption DEF CronInit, FiredOnce, FiredInTime, Minutes
<1> QED BY <1>1, <1>2 DEF CronInv

\* The minute of the clock.
LEMMA ThisMinute ==
  ASSUME clock \in Nat
  PROVE  MinuteKey \in Nat /\ MinuteKey * Minute <= clock /\ clock < (MinuteKey + 1) * Minute
BY DEF MinuteKey, Minute

\* A poll fires the minute of the clock, if nobody has.
LEMMA PollKeeps ==
  ASSUME CronInv, Poll PROVE CronInv'
<1> DEFINE k == MinuteKey
           hit(c) == k \in matching[c] /\ lastFired[c] # k
<1>0. CronShape
  BY DEF CronInv
<1>1. k \in Minutes /\ k * 12 <= clock /\ clock < (k + 1) * 12
  <2>1. k \in Nat /\ k * 12 <= clock /\ clock < (k + 1) * 12
    BY <1>0, ThisMinute DEF CronShape, Minute
  <2> HIDE DEF k
  <2> QED BY <1>0, <2>1, CronAssumption DEF CronShape, Minutes, Minute
<1> HIDE DEF k
<1>2. /\ nextPoll # -1 /\ clock >= nextPoll /\ nextPoll' \in {nextPoll + 3, clock + 3}
      /\ UNCHANGED <<matching, clock, upSince, restarts>>
  BY DEF Poll, Interval
<1>3. \A c \in Crons : /\ lastFired'[c] = IF hit(c) THEN k ELSE lastFired[c]
                       /\ \A m \in Minutes : fires'[c][m] = IF hit(c) /\ m = k THEN fires[c][m] + 1 ELSE fires[c][m]
  <2> SUFFICES ASSUME NEW c \in Crons
               PROVE  /\ lastFired'[c] = IF hit(c) THEN k ELSE lastFired[c]
                      /\ \A m \in Minutes : fires'[c][m] = IF hit(c) /\ m = k THEN fires[c][m] + 1 ELSE fires[c][m]
    OBVIOUS
  <2>1. lastFired' = [e \in Crons |-> IF hit(e) THEN k ELSE lastFired[e]]
    BY DEF Poll, k
  <2>2. fires' = [e \in Crons |-> IF hit(e) THEN [fires[e] EXCEPT ![k] = @ + 1] ELSE fires[e]]
    BY DEF Poll, k
  <2> HIDE DEF hit
  <2> QED BY <1>0, <1>1, <2>1, <2>2 DEF CronShape
<1>4. CronShape'
  <2>1. lastFired' = [c \in Crons |-> lastFired'[c]]
    BY DEF Poll
  <2>2. fires' = [c \in Crons |-> [m \in Minutes |-> fires'[c][m]]]
    <3>1. fires' = [e \in Crons |-> IF hit(e) THEN [fires[e] EXCEPT ![k] = @ + 1] ELSE fires[e]]
      BY DEF Poll, k
    <3> HIDE DEF hit
    <3> QED BY <1>0, <3>1 DEF CronShape
  <2>3. \A c \in Crons : lastFired'[c] \in Minutes \cup {-1}
    BY <1>0, <1>1, <1>3 DEF CronShape
  <2>4. \A c \in Crons, m \in Minutes : fires'[c][m] \in Nat
    BY <1>0, <1>3 DEF CronShape
  <2>5. lastFired' \in [Crons -> Minutes \cup {-1}]
    BY <2>1, <2>3
  <2>6. fires' \in [Crons -> [Minutes -> Nat]]
    BY <2>2, <2>4
  <2>7. nextPoll' \in Int /\ nextPoll' >= 0 /\ clock <= nextPoll' + 1
    <3>1. clock \in Nat /\ nextPoll \in Int /\ nextPoll >= 0 /\ clock <= nextPoll + 1
      BY <1>0, <1>2 DEF CronShape, Late
    <3>2. nextPoll' = nextPoll + 3 \/ nextPoll' = clock + 3
      BY <1>2
    <3>3. CASE nextPoll' = nextPoll + 3
      BY <3>1, <3>3
    <3>4. CASE nextPoll' = clock + 3
      BY <3>1, <3>4
    <3> QED BY <3>2, <3>3, <3>4
  <2> QED BY <1>0, <1>2, <2>5, <2>6, <2>7 DEF CronShape, Late, Minute
<1>5. ASSUME NEW c \in Crons, NEW m \in Minutes PROVE FiredOnce(c, m)' /\ FiredInTime(c, m)'
  <2>1. FiredOnce(c, m) /\ FiredInTime(c, m) /\ FiredOnce(c, k)
    BY <1>1 DEF CronInv
  <2>2. m \in Nat /\ k \in Nat /\ clock \in Nat /\ nextPoll \in Int /\ upSince \in Int /\ clock <= nextPoll + 1 /\ nextPoll >= 0
    BY <1>0, <1>1, <1>2, CronAssumption DEF CronShape, Minutes, Late
  <2>3. /\ lastFired'[c] = IF hit(c) THEN k ELSE lastFired[c]
        /\ fires'[c][m] = IF hit(c) /\ m = k THEN fires[c][m] + 1 ELSE fires[c][m]
    BY <1>3
  <2>4. CASE m # k
    <3>1. fires'[c][m] = fires[c][m] /\ (lastFired'[c] = m => lastFired[c] = m)
      BY <2>3, <2>4
    <3>2. nextPoll' > m * 12 + 3 /\ upSince <= m * 12 => nextPoll > m * 12 + 3
      BY <1>1, <1>2, <2>2, <2>4
    <3>3. ~(m * 12 <= clock /\ clock < (m + 1) * 12)
      BY <1>1, <2>2, <2>4
    <3> QED BY <1>2, <2>1, <2>2, <3>1, <3>2, <3>3 DEF FiredOnce, FiredInTime, Minute, Interval
  <2>5. CASE m = k /\ hit(c)
    <3>1. fires[c][m] = 0
      BY <1>1, <2>1, <2>5 DEF FiredOnce, Minute
    <3> QED BY <1>1, <1>2, <2>1, <2>2, <2>3, <2>5, <3>1 DEF FiredOnce, FiredInTime, Minute, Interval
  <2>6. CASE m = k /\ ~hit(c)
    <3>1. fires'[c][m] = fires[c][m] /\ lastFired'[c] = lastFired[c] /\ (m \in matching[c] => lastFired[c] = m)
      BY <2>3, <2>6
    <3> QED BY <1>1, <1>2, <2>1, <2>2, <2>6, <3>1 DEF FiredOnce, FiredInTime, Minute, Interval
  <2> QED BY <2>4, <2>5, <2>6
<1> QED BY <1>4, <1>5, <1>2 DEF CronInv, Poll

\* Time passes, and timers stop and start, between the polls.
LEMMA OthersKeep ==
  ASSUME CronInv, Pass \/ StartConsumers \/ StopConsumers \/ UNCHANGED cronVars PROVE CronInv'
<1>0. CronShape /\ UNCHANGED <<matching, lastFired, fires>>
  BY DEF CronInv, Pass, StartConsumers, StopConsumers, cronVars
<1>1. CronShape'
  <2>1. CASE Pass
    BY <1>0, <2>1, CronAssumption DEF CronShape, Pass, Minute, Late
  <2>2. CASE ~Pass
    BY <1>0, <2>2 DEF CronShape, StartConsumers, StopConsumers, cronVars, Minute, Interval, Late
  <2> QED BY <2>1, <2>2
<1>2. ASSUME NEW c \in Crons, NEW m \in Minutes PROVE FiredOnce(c, m)' /\ FiredInTime(c, m)'
  <2>1. FiredOnce(c, m) /\ FiredInTime(c, m) /\ m \in Nat
    BY CronAssumption DEF CronInv, Minutes
  <2>2. clock \in Nat /\ nextPoll \in Int /\ upSince \in Int
    BY <1>0 DEF CronShape
  <2>3. clock' \in Nat /\ clock' >= clock
    BY <2>2 DEF Pass, StartConsumers, StopConsumers, cronVars
  <2>4. nextPoll' # -1 /\ upSince' <= m * 12 /\ nextPoll' > m * 12 + 3
          => nextPoll # -1 /\ upSince <= m * 12 /\ nextPoll > m * 12 + 3
    BY <2>1, <2>2 DEF Pass, StartConsumers, StopConsumers, cronVars, Interval
  <2>5. FiredOnce(c, m)'
    BY <1>0, <2>1, <2>2, <2>3 DEF FiredOnce, Minute
  <2>6. FiredInTime(c, m)'
    BY <1>0, <2>1, <2>2, <2>4 DEF FiredInTime, Minute, Interval
  <2> QED BY <2>5, <2>6
<1> QED BY <1>0, <1>1, <1>2 DEF CronInv

\* The invariant of the timers.
LEMMA CronAlways == CronSpec => []CronInv
<1>1. CronInv /\ [CronNext]_cronVars => CronInv'
  BY PollKeeps, OthersKeep DEF CronNext
<1> QED BY CronStarts, <1>1, PTL DEF CronSpec

\* A minute that matches fires its handler once, and in time if the timer ran from before
\* it began (startCronTimer); L, W, LW and # select the days that they name (parseField).
THEOREM CronFiresAlways == CronSpec => []CronFires
<1>1. CronInv => CronFires
  <2> SUFFICES ASSUME CronInv PROVE CronFires
    OBVIOUS
  <2>1. CronShape
    BY DEF CronInv
  <2>2. ASSUME NEW c \in Crons, NEW m \in Minutes
        PROVE  /\ fires[c][m] <= (IF m \in matching[c] THEN 1 ELSE 0)
               /\ nextPoll # -1 /\ m \in matching[c] /\ upSince <= m * Minute /\ clock >= (m + 1) * Minute
                    => fires[c][m] = 1
    <3>1. FiredOnce(c, m) /\ FiredInTime(c, m) /\ m \in Nat
      BY CronAssumption DEF CronInv, Minutes
    <3>2. fires[c][m] <= (IF m \in matching[c] THEN 1 ELSE 0)
      BY <3>1 DEF FiredOnce
    <3>3. ASSUME nextPoll # -1, clock >= (m + 1) * Minute PROVE nextPoll > m * Minute + Interval
      BY <2>1, <3>1, <3>3 DEF CronShape, Minute, Interval, Late
    <3> QED BY <3>1, <3>2, <3>3 DEF FiredInTime
  <2> QED BY <2>2, SelectionAlways DEF CronFires
<1> QED BY CronAlways, <1>1, PTL

-----------------------------------------------------------------------------
(* Vite's server.                                                            *)

\* What is known of a visit: what it was given exports every class, and what it was given
\* in spite of a newer source has its reason.
VisitStates ==
  [at : {"idle", "importing", "serving", "retrying", "failed", "done"}, kind : {"fetch", "trigger"},
   from : Nat, got : Nat, gen : ViteGens \cup {0}, tries : {0, 1}]

VisitSound(r) ==
  /\ visit[r].at # "idle" => visit[r].from \in 1..source
  /\ visit[r].at \in {"serving", "done"} =>
       /\ visit[r].got \in Sources /\ lacks[visit[r].got] = 0 /\ visit[r].gen # 0
       /\ visit[r].got < visit[r].from => \E v \in visit[r].from..source : lacks[v] # 0

\* The current module exports every class, and has a generation.
ModuleSound ==
  /\ module # NoModule => lacks[module] = 0 /\ module <= source /\ viteGen # 0
  /\ module # NoModule /\ ~failed => \A c \in Classes : wired[c] = module

ActiveIsCurrent == \A g \in ViteGens : viteGens[g] = "active" => g = viteGen
CountsRequests == \A g \in ViteGens : inFlight[g] = Cardinality(ServedBy(g))

ViteInv ==
  /\ ViteType /\ visit \in [Visits -> VisitStates]
  /\ \A r \in Visits : VisitSound(r)
  /\ ModuleSound /\ ActiveIsCurrent /\ CountsRequests

LEMMA ViteNumbers ==
  /\ Sources \subseteq Nat /\ ViteGens \subseteq Nat /\ 0 \notin Sources /\ 0 \notin ViteGens
  /\ 1 \in Sources /\ MaxEdits \in Nat /\ MaxGens \in Nat
BY ViteAssumption DEF Sources, ViteGens

LEMMA ViteStarts == ViteInit => ViteInv
<1> SUFFICES ASSUME ViteInit PROVE ViteInv
  OBVIOUS
<1>1. ViteType
  BY ViteNumbers DEF ViteInit, ViteType, NoModule
<1>2. visit \in [Visits -> VisitStates]
  BY DEF ViteInit, VisitStates, Idle, NoModule
<1>3. \A r \in Visits : visit[r].at = "idle"
  BY DEF ViteInit, Idle
<1>4. \A r \in Visits : VisitSound(r)
  BY <1>3 DEF VisitSound
<1>5. CountsRequests
  <2>1. \A g \in ViteGens : ServedBy(g) = {}
    BY <1>3 DEF ServedBy
  <2> QED BY <2>1, FS_EmptySet DEF CountsRequests, ViteInit
<1>6. ModuleSound /\ ActiveIsCurrent
  BY DEF ViteInit, ModuleSound, ActiveIsCurrent
<1> QED BY <1>1, <1>2, <1>4, <1>5, <1>6 DEF ViteInv

\* A visit that is given a module, of the current generation.
LEMMA ServesKeeps ==
  ASSUME ViteInv, NEW r \in Visits, NEW v \in Sources, NEW g \in ViteGens,
         visit[r].at = "importing", Serves(r, v, g), lacks' = lacks, source' = source,
         lacks[v] = 0, v < visit[r].from => \E w \in visit[r].from..source : lacks[w] # 0
  PROVE  /\ visit' \in [Visits -> VisitStates] /\ inFlight' \in [ViteGens -> Nat]
         /\ \A s \in Visits : VisitSound(s)'
         /\ CountsRequests'
<1> DEFINE fetch == visit[r].kind = "fetch"
<1>1. /\ visit \in [Visits -> VisitStates] /\ inFlight \in [ViteGens -> Nat]
      /\ VisitSound(r) /\ \A s \in Visits : VisitSound(s)
  BY DEF ViteInv, ViteType
<1>2. visit' = [visit EXCEPT ![r].at = "serving", ![r].got = v, ![r].gen = g]
  BY DEF Serves
<1>3. visit' \in [Visits -> VisitStates]
  <2>1. v \in Nat
    BY ViteNumbers
  <2>2. [visit[r] EXCEPT !.at = "serving", !.got = v, !.gen = g] \in VisitStates
    BY <1>1, <2>1, ZenonT(60) DEF VisitStates
  <2> QED BY <1>1, <1>2, <2>2
<1>4. /\ \A s \in Visits \ {r} : visit'[s] = visit[s]
      /\ visit'[r].at = "serving" /\ visit'[r].got = v /\ visit'[r].gen = g
      /\ visit'[r].kind = visit[r].kind /\ visit'[r].from = visit[r].from
  BY <1>1, <1>2 DEF VisitStates
<1>5. inFlight' = IF fetch THEN [inFlight EXCEPT ![g] = @ + 1] ELSE inFlight
  BY DEF Serves
<1>6. inFlight' \in [ViteGens -> Nat]
  BY <1>1, <1>5
<1>7. ASSUME NEW s \in Visits PROVE VisitSound(s)'
  <2>1. CASE s = r
    BY <1>1, <1>4, <2>1, ViteNumbers DEF VisitSound, Sources
  <2>2. CASE s # r
    BY <1>1, <1>4, <2>2 DEF VisitSound, Sources
  <2> QED BY <2>1, <2>2
<1>8. ASSUME NEW h \in ViteGens PROVE inFlight'[h] = Cardinality(ServedBy(h)')
  <2>1. inFlight[h] = Cardinality(ServedBy(h)) /\ inFlight[h] \in Nat
    BY <1>1 DEF ViteInv, CountsRequests
  <2>2. CASE fetch /\ h = g
    <3>1. ServedBy(h)' = ServedBy(h) \cup {r} /\ r \notin ServedBy(h)
      BY <1>4, <2>2 DEF ServedBy
    <3>2. IsFiniteSet(ServedBy(h))
      BY ViteAssumption, FS_Subset DEF ServedBy
    <3>3. Cardinality(ServedBy(h)') = Cardinality(ServedBy(h)) + 1
      BY <3>1, <3>2, FS_AddElement
    <3> QED BY <1>1, <1>5, <2>1, <2>2, <3>3
  <2>3. CASE ~(fetch /\ h = g)
    <3>1. ServedBy(h)' = ServedBy(h)
      BY <1>4, <2>3 DEF ServedBy
    <3> QED BY <1>1, <1>5, <2>1, <2>3, <3>1
  <2> QED BY <2>2, <2>3
<1> QED BY <1>3, <1>6, <1>7, <1>8 DEF CountsRequests

\* A visit that is no longer, or not yet, served.
LEMMA LeavesKeeps ==
  ASSUME ViteInv, NEW r \in Visits, NEW rec \in VisitStates,
         visit' = [visit EXCEPT ![r] = rec], lacks' = lacks, source' = source,
         rec.at # "idle" => rec.from \in 1..source,
         rec.at # "serving", rec.at = "done" => visit[r].at = "serving" /\ rec = [visit[r] EXCEPT !.at = "done"],
         IF visit[r].at = "serving" /\ visit[r].kind = "fetch" THEN Released(r) ELSE inFlight' = inFlight
  PROVE  /\ visit' \in [Visits -> VisitStates] /\ inFlight' \in [ViteGens -> Nat]
         /\ \A s \in Visits : VisitSound(s)'
         /\ CountsRequests'
<1> DEFINE served == visit[r].at = "serving" /\ visit[r].kind = "fetch"
           g == visit[r].gen
<1>1. /\ visit \in [Visits -> VisitStates] /\ inFlight \in [ViteGens -> Nat]
      /\ VisitSound(r) /\ \A s \in Visits : VisitSound(s)
  BY DEF ViteInv, ViteType
<1>2. visit' \in [Visits -> VisitStates]
  BY <1>1
<1>3. visit'[r] = rec /\ \A s \in Visits \ {r} : visit'[s] = visit[s]
  BY <1>1
<1>4. ASSUME NEW s \in Visits PROVE VisitSound(s)'
  <2>1. CASE s = r /\ rec.at = "done"
    <3>1. rec.from = visit[r].from /\ rec.got = visit[r].got /\ rec.gen = visit[r].gen
      BY <1>1, <2>1 DEF VisitStates
    <3> QED BY <1>1, <1>3, <2>1, <3>1 DEF VisitSound, Sources
  <2>2. CASE s = r /\ rec.at # "done"
    BY <1>3, <2>2 DEF VisitSound
  <2>3. CASE s # r
    BY <1>1, <1>3, <2>3 DEF VisitSound, Sources
  <2> QED BY <2>1, <2>2, <2>3
<1>5. served => g \in ViteGens
  BY <1>1 DEF VisitSound, VisitStates
<1>6. inFlight' = IF served THEN [inFlight EXCEPT ![g] = @ - 1] ELSE inFlight
  BY DEF Released
<1>7. ASSUME NEW h \in ViteGens PROVE inFlight'[h] = Cardinality(ServedBy(h)') /\ inFlight'[h] \in Nat
  <2>1. inFlight[h] = Cardinality(ServedBy(h)) /\ inFlight[h] \in Nat
    BY <1>1 DEF ViteInv, CountsRequests
  <2>2. CASE served /\ h = g
    <3>1. ServedBy(h)' = ServedBy(h) \ {r} /\ r \in ServedBy(h)
      BY <1>3, <2>2 DEF ServedBy
    <3>2. IsFiniteSet(ServedBy(h))
      BY ViteAssumption, FS_Subset DEF ServedBy
    <3>3. Cardinality(ServedBy(h)') = Cardinality(ServedBy(h)) - 1 /\ Cardinality(ServedBy(h)') \in Nat
      BY <3>1, <3>2, FS_RemoveElement, FS_CardinalityType, FS_Subset
    <3> QED BY <1>1, <1>5, <1>6, <2>1, <2>2, <3>3
  <2>3. CASE ~(served /\ h = g)
    <3>1. ServedBy(h)' = ServedBy(h)
      BY <1>3, <2>3 DEF ServedBy
    <3> QED BY <1>1, <1>5, <1>6, <2>1, <2>3, <3>1
  <2> QED BY <2>2, <2>3
<1>8. inFlight' \in [ViteGens -> Nat]
  <2>1. inFlight' = [h \in ViteGens |-> inFlight'[h]]
    BY <1>1, <1>6
  <2> QED BY <1>7, <2>1
<1> QED BY <1>2, <1>4, <1>7, <1>8 DEF CountsRequests

LEMMA VisitsKeep ==
  ASSUME ViteInv, NEW r \in Visits,
         \/ \E kind \in {"fetch", "trigger"} : VisitArrives(r, kind)
         \/ \E race \in BOOLEAN : LoadFails(r, race)
         \/ FetchEnds(r) \/ TriggerEnds(r) \/ VisitRetries(r) \/ VisitRaces(r)
  PROVE  ViteInv'
<1>1. /\ UNCHANGED <<lacks, source, wired, viteGen, viteGens, forgetting, failed>>
      /\ module' \in {module, NoModule}
  BY DEF VisitArrives, LoadFails, FetchEnds, TriggerEnds, VisitRaces, VisitRetries
<1>2. ViteType /\ visit \in [Visits -> VisitStates] /\ VisitSound(r) /\ visit[r] \in VisitStates
  BY DEF ViteInv
<1> DEFINE Kept == /\ visit' \in [Visits -> VisitStates] /\ inFlight' \in [ViteGens -> Nat]
                   /\ \A s \in Visits : VisitSound(s)'
                   /\ CountsRequests'
<1>3. Kept
  <2>1. ASSUME NEW kind \in {"fetch", "trigger"}, VisitArrives(r, kind) PROVE Kept
    <3> DEFINE rec == [Idle EXCEPT !.at = "importing", !.kind = kind, !.from = source]
    <3>1. source \in 1..source /\ source \in Nat
      BY <1>2, ViteNumbers DEF ViteType, Sources
    <3>2. rec \in VisitStates /\ rec.at = "importing" /\ rec.from \in 1..source
      BY <3>1 DEF VisitStates, Idle, NoModule
    <3>3. visit' = [visit EXCEPT ![r] = rec] /\ inFlight' = inFlight /\ visit[r].at = "idle"
      BY <2>1 DEF VisitArrives, Idle
    <3> HIDE DEF rec
    <3> QED BY <1>1, <3>2, <3>3, LeavesKeeps
  <2>2. ASSUME NEW race \in BOOLEAN, LoadFails(r, race) PROVE Kept
    <3> DEFINE to == IF race /\ visit[r].kind = "fetch" /\ visit[r].tries = 0 THEN "retrying" ELSE "failed"
               rec == [visit[r] EXCEPT !.at = to]
    <3>1. to \in {"retrying", "failed"}
      OBVIOUS
    <3>2. visit' = [visit EXCEPT ![r].at = to] /\ inFlight' = inFlight /\ visit[r].at = "importing"
      BY <2>2 DEF LoadFails
    <3> HIDE DEF to
    <3>3. rec \in VisitStates /\ rec.at = to /\ rec.from \in 1..source
      BY <1>2, <3>1, <3>2 DEF VisitStates, VisitSound
    <3>4. visit' = [visit EXCEPT ![r] = rec]
      BY <1>2, <3>2
    <3> HIDE DEF rec
    <3> QED BY <1>1, <3>1, <3>2, <3>3, <3>4, LeavesKeeps
  <2>3. ASSUME FetchEnds(r) \/ TriggerEnds(r) PROVE Kept
    <3> DEFINE rec == [visit[r] EXCEPT !.at = "done"]
    <3>1. /\ visit' = [visit EXCEPT ![r].at = "done"] /\ visit[r].at = "serving"
          /\ IF visit[r].kind = "fetch" THEN Released(r) ELSE inFlight' = inFlight
      BY <2>3 DEF FetchEnds, TriggerEnds
    <3>2. rec \in VisitStates /\ rec.at = "done" /\ rec.from \in 1..source
      BY <1>2, <3>1 DEF VisitStates, VisitSound
    <3>3. visit' = [visit EXCEPT ![r] = rec] /\ rec = [visit[r] EXCEPT !.at = "done"]
      BY <1>2, <3>1
    <3> HIDE DEF rec
    <3> QED BY <1>1, <3>1, <3>2, <3>3, LeavesKeeps
  <2>4. ASSUME VisitRaces(r) PROVE Kept
    <3> DEFINE to == IF visit[r].tries = 0 THEN "retrying" ELSE "failed"
               rec == [visit[r] EXCEPT !.at = to]
    <3>1. to \in {"retrying", "failed"}
      OBVIOUS
    <3>2. visit' = [visit EXCEPT ![r].at = to] /\ Released(r) /\ visit[r].at = "serving" /\ visit[r].kind = "fetch"
      BY <2>4 DEF VisitRaces
    <3> HIDE DEF to
    <3>3. rec \in VisitStates /\ rec.at = to /\ rec.from \in 1..source
      BY <1>2, <3>1, <3>2 DEF VisitStates, VisitSound
    <3>4. visit' = [visit EXCEPT ![r] = rec]
      BY <1>2, <3>2
    <3> HIDE DEF rec
    <3> QED BY <1>1, <3>1, <3>2, <3>3, <3>4, LeavesKeeps
  <2>5. ASSUME VisitRetries(r) PROVE Kept
    <3> DEFINE rec == [visit[r] EXCEPT !.at = "importing", !.from = source, !.tries = 1]
    <3>1. visit[r].at = "retrying" /\ inFlight' = inFlight /\ visit' = [visit EXCEPT ![r] = rec]
      BY <1>2, <2>5 DEF VisitRetries
    <3>2. source \in 1..source /\ source \in Nat
      BY <1>2, ViteNumbers DEF ViteType, Sources
    <3>3. rec \in VisitStates /\ rec.at = "importing" /\ rec.from \in 1..source
      BY <1>2, <3>2 DEF VisitStates
    <3> HIDE DEF rec
    <3> QED BY <1>1, <3>1, <3>3, LeavesKeeps
  <2> QED BY <2>1, <2>2, <2>3, <2>4, <2>5
<1>4. ModuleSound' /\ ActiveIsCurrent'
  BY <1>1 DEF ViteInv, ModuleSound, ActiveIsCurrent
<1>5. ViteType'
  BY <1>1, <1>2, <1>3 DEF ViteType
<1> QED BY <1>3, <1>4, <1>5 DEF ViteInv

\* A visit imports a module: the current one, another one that is wired, or one that is not.
LEMMA ImportsKeep ==
  ASSUME ViteInv, NEW r \in Visits, SameModule(r) \/ \E v \in Sources : Rewires(r, v) \/ RewireFails(r, v)
  PROVE  ViteInv'
<1> DEFINE Kept == /\ visit' \in [Visits -> VisitStates] /\ inFlight' \in [ViteGens -> Nat]
                   /\ \A s \in Visits : VisitSound(s)'
                   /\ CountsRequests'
<1>1. /\ ViteType /\ ModuleSound /\ ActiveIsCurrent /\ VisitSound(r) /\ visit \in [Visits -> VisitStates]
      /\ source \in Nat /\ viteGen \in Nat /\ viteGen \in ViteGens \cup {0}
  BY ViteNumbers DEF ViteInv, ViteType
<1>2. ASSUME SameModule(r) PROVE ViteInv'
  <2>1. /\ visit[r].at = "importing" /\ module \in visit[r].from..source /\ Serves(r, module, viteGen)
        /\ UNCHANGED <<lacks, source, module, wired, viteGen, viteGens, forgetting, failed>>
    BY <1>2 DEF SameModule, Loads
  <2>2. visit[r].from \in 1..source
    BY <1>1, <2>1 DEF VisitSound
  <2>3. module \in Sources /\ lacks[module] = 0 /\ viteGen \in ViteGens /\ ~(module < visit[r].from)
    BY <1>1, <2>1, <2>2 DEF ModuleSound, ViteType, NoModule
  <2>4. Kept
    BY <2>1, <2>3, ServesKeeps
  <2>5. ModuleSound' /\ ActiveIsCurrent' /\ ViteType'
    BY <1>1, <2>1, <2>4 DEF ModuleSound, ActiveIsCurrent, ViteType
  <2> QED BY <2>4, <2>5 DEF ViteInv
<1>3. ASSUME NEW v \in Sources, Rewires(r, v) PROVE ViteInv'
  <2>1. /\ visit[r].at = "importing" /\ v \in visit[r].from..source /\ Serves(r, v, viteGen + 1)
        /\ lacks[v] = 0 /\ viteGen < MaxGens
        /\ module' = v /\ wired' = [c \in Classes |-> v] /\ failed' = FALSE
        /\ viteGen' = viteGen + 1
        /\ viteGens' = [Marked(viteGens, viteGen, "stopped") EXCEPT ![viteGen + 1] = "active"]
        /\ forgetting' = forgetting \cup {g \in {viteGen} : g # 0 /\ viteGens[g] # "none"}
        /\ UNCHANGED <<lacks, source>>
    BY <1>3 DEF Rewires, Loads
  <2>2. visit[r].from \in 1..source
    BY <1>1, <2>1 DEF VisitSound
  <2>3. viteGen + 1 \in ViteGens /\ ~(v < visit[r].from) /\ v <= source
    BY <1>1, <2>1, <2>2, ViteNumbers DEF ViteGens
  <2>4. Kept
    BY <2>1, <2>3, ServesKeeps
  <2>5. \A g \in ViteGens : viteGens'[g] = IF g = viteGen + 1 THEN "active"
                                          ELSE IF g = viteGen /\ viteGens[g] # "none" THEN "stopped" ELSE viteGens[g]
    BY <2>1, <2>3 DEF Marked
  <2>6. viteGens' \in [ViteGens -> {"none", "active", "stopped"}]
    BY <1>1, <2>1, <2>3 DEF Marked, ViteType
  <2>7. ActiveIsCurrent'
    BY <1>1, <2>1, <2>5 DEF ActiveIsCurrent
  <2>8. ModuleSound'
    BY <1>1, <2>1, <2>3 DEF ModuleSound
  <2>9. forgetting' \subseteq ViteGens
    BY <1>1, <2>1 DEF ViteType
  <2>10. ViteType'
    BY <1>1, <2>1, <2>3, <2>4, <2>6, <2>9 DEF ViteType
  <2> QED BY <2>4, <2>7, <2>8, <2>10 DEF ViteInv
<1>4. ASSUME NEW v \in Sources, RewireFails(r, v) PROVE ViteInv'
  <2>1. /\ visit[r].at = "importing" /\ v \in visit[r].from..source
        /\ lacks[v] # 0 /\ wired' = HalfWired(v) /\ failed' = TRUE
        /\ viteGens' = Marked(viteGens, viteGen, "active")
        /\ UNCHANGED <<lacks, source, module, viteGen, forgetting>>
    BY <1>4 DEF RewireFails, Loads
  <2>2. visit[r].from \in 1..source
    BY <1>1, <2>1 DEF VisitSound
  <2>3. ASSUME module # NoModule PROVE Kept
    <3>1. Serves(r, module, viteGen)
      BY <1>4, <2>3 DEF RewireFails
    <3>2. module \in Sources /\ lacks[module] = 0 /\ viteGen \in ViteGens
      BY <1>1, <2>3 DEF ModuleSound, ViteType
    <3>3. \E w \in visit[r].from..source : lacks[w] # 0
      BY <2>1
    <3> QED BY <2>1, <3>1, <3>2, <3>3, ServesKeeps
  <2>4. ASSUME module = NoModule PROVE Kept
    <3> DEFINE rec == [visit[r] EXCEPT !.at = "failed"]
    <3>1. visit' = [visit EXCEPT ![r].at = "failed"] /\ inFlight' = inFlight
      BY <1>4, <2>4 DEF RewireFails
    <3>2. rec \in VisitStates /\ rec.at = "failed" /\ rec.from \in 1..source
      BY <1>1, <2>1, <2>2 DEF VisitStates
    <3>3. visit' = [visit EXCEPT ![r] = rec]
      BY <1>1, <3>1
    <3> HIDE DEF rec
    <3> QED BY <2>1, <3>1, <3>2, <3>3, LeavesKeeps
  <2>5. Kept
    BY <2>3, <2>4
  <2>6. wired' \in [Classes -> Sources \cup {NoModule}]
    BY <1>1, <2>1 DEF HalfWired, ViteType
  <2>7. viteGens' \in [ViteGens -> {"none", "active", "stopped"}]
    BY <1>1, <2>1 DEF Marked, ViteType
  <2>8. ActiveIsCurrent'
    BY <1>1, <2>1 DEF ActiveIsCurrent, Marked
  <2>9. ModuleSound'
    BY <1>1, <2>1 DEF ModuleSound
  <2>10. ViteType'
    BY <1>1, <2>1, <2>5, <2>6, <2>7 DEF ViteType
  <2> QED BY <2>5, <2>8, <2>9, <2>10 DEF ViteInv
<1> QED BY <1>2, <1>3, <1>4

\* The user edits, and the list of generations changes.
LEMMA RestKeeps ==
  ASSUME ViteInv, Edit \/ UNCHANGED viteVars \/ \E g \in ViteGens : StopListed(g) \/ Forget(g)
  PROVE  ViteInv'
<1>1. /\ ViteType /\ ModuleSound /\ ActiveIsCurrent /\ visit \in [Visits -> VisitStates]
      /\ source \in Nat /\ \A s \in Visits : VisitSound(s)
  BY ViteNumbers DEF ViteInv, ViteType
<1>2. /\ UNCHANGED <<lacks, module, wired, viteGen, inFlight, failed, visit>>
      /\ source' \in {source, source + 1} /\ source' \in Sources
  BY <1>1, ViteAssumption DEF Edit, StopListed, Forget, viteVars, Sources, ViteType
<1>3. ASSUME NEW s \in Visits PROVE VisitSound(s)'
  <2>1. visit[s].at # "idle" => visit[s].from \in 1..source'
    BY <1>1, <1>2 DEF VisitSound
  <2>2. ASSUME NEW w \in visit[s].from..source, visit[s].at # "idle" PROVE w \in visit[s].from..source'
    BY <1>1, <1>2, <2>2 DEF VisitSound
  <2> QED BY <1>1, <1>2, <2>1, <2>2 DEF VisitSound, Sources
<1>4. CountsRequests'
  BY <1>2 DEF ViteInv, CountsRequests, ServedBy
<1>5. ModuleSound'
  BY <1>1, <1>2, ViteNumbers DEF ModuleSound, ViteType, NoModule
<1>6. /\ viteGens' \in [ViteGens -> {"none", "active", "stopped"}]
      /\ \A g \in ViteGens : viteGens'[g] = "active" => viteGens[g] = "active"
  BY <1>1 DEF Edit, StopListed, Forget, viteVars, ViteType
<1>7. ActiveIsCurrent'
  BY <1>1, <1>2, <1>6 DEF ActiveIsCurrent
<1>8. forgetting' \subseteq ViteGens
  BY <1>1 DEF Edit, StopListed, Forget, viteVars, ViteType
<1>9. ViteType'
  BY <1>1, <1>2, <1>6, <1>8 DEF ViteType
<1> QED BY <1>1, <1>2, <1>3, <1>4, <1>5, <1>7, <1>9 DEF ViteInv

LEMMA ViteAlways == ViteSpec => []ViteInv
<1>1. ViteInv /\ [ViteNext]_viteVars => ViteInv'
  <2> SUFFICES ASSUME ViteInv, [ViteNext]_viteVars PROVE ViteInv'
    OBVIOUS
  <2>1. ASSUME NEW r \in Visits,
               \/ \E kind \in {"fetch", "trigger"} : VisitArrives(r, kind)
               \/ SameModule(r) \/ \E v \in Sources : Rewires(r, v) \/ RewireFails(r, v)
               \/ \E race \in BOOLEAN : LoadFails(r, race)
               \/ FetchEnds(r) \/ TriggerEnds(r) \/ VisitRaces(r) \/ VisitRetries(r)
        PROVE  ViteInv'
    BY <2>1, VisitsKeep, ImportsKeep
  <2>2. CASE Edit \/ UNCHANGED viteVars \/ \E g \in ViteGens : StopListed(g) \/ Forget(g)
    BY <2>2, RestKeeps
  <2> QED BY <2>1, <2>2 DEF ViteNext
<1> QED BY ViteStarts, <1>1, PTL DEF ViteSpec

\* A visit is served by a module that is no older than the source at its arrival, unless
\* a version since then could not be wired, generations count what they serve and the
\* current one alone is active (ensureWorkerModule), for any visits, classes and edits.
THEOREM ViteServesAlways == ViteSpec => []ViteServes
<1>1. ViteInv => ViteServes
  <2> SUFFICES ASSUME ViteInv PROVE ViteServes
    OBVIOUS
  <2>1. \A r \in Visits : visit[r].at \in {"serving", "done"} =>
          /\ Exported(visit[r].got)
          /\ visit[r].got < visit[r].from => \E v \in visit[r].from..source : ~Exported(v)
    BY ViteNumbers DEF ViteInv, VisitSound, Exported, NoModule
  <2> QED BY <2>1 DEF ViteInv, ViteServes, ModuleSound, ActiveIsCurrent, CountsRequests
<1> QED BY ViteAlways, <1>1, PTL

-----------------------------------------------------------------------------
(* Bindings from one worker to another.                                      *)

\* What is known of a call: it is served by a generation that was active since it was made
\* and is not gone, and it is refused only when the budget is spent.
CallRecords ==
  [state : {"idle", "shipped", "running", "ok", "error", "refused"}, op : Ops,
   began : Nat, gen : Nat, by : {"none", "default", "named", "assets"}]

Fits(rec) ==
  /\ rec.began <= liveGen
  /\ rec.state \in {"running", "ok"} => rec.gen >= rec.began
  /\ rec.state = "running" => rec.gen \in 1..liveGen /\ (svc.target = "thread" => rec.gen \notin deadGens)

CallSound(c) ==
  /\ Fits(calls[c])
  /\ calls[c].state = "refused" => spent[c[1]] > MaxSubrequests
  /\ calls[c].state = "shipped" => side[c[1]] # "main"

Counts(rec) == rec.op \in {"fetch", "call"} /\ rec.state \in {"shipped", "running", "ok"}

\* Calls that were not refused are within what was spent, and within the budget.
Budget(q) ==
  side[q] \in {"main", "thread"} =>
    Cardinality(Counted(q)) <= spent[q] /\ Cardinality(Counted(q)) <= MaxSubrequests

TargetSound ==
  /\ side \in [Callers -> Sides] /\ svc \in Services
  /\ liveGen \in Nat /\ deadGens \subseteq 1..(liveGen - 1)
  /\ spent \in [Callers -> Nat]
  /\ stub \in [Callers -> 0..liveGen]

BindingsInv ==
  /\ TargetSound /\ calls \in [CallIds -> CallRecords]
  /\ \A c \in CallIds : CallSound(c)
  /\ \A q \in Callers : Budget(q)

LEMMA CallersOf == \A c \in CallIds : c[1] \in Callers
BY DEF CallIds

LEMMA CountedFinite == \A q \in Callers : IsFiniteSet(Counted(q))
<1> SUFFICES ASSUME NEW q \in Callers PROVE IsFiniteSet(Counted(q))
  OBVIOUS
<1> DEFINE Own == {q} \X (1..MaxCalls)
           f == [n \in 1..MaxCalls |-> <<q, n>>]
<1>1. f \in Surjection(1..MaxCalls, Own)
  BY DEF Surjection
<1>2. IsFiniteSet(1..MaxCalls)
  BY BindingsAssumption, FS_Interval
<1>3. IsFiniteSet(Own)
  <2> HIDE DEF Own, f
  <2> QED BY <1>1, <1>2, FS_Surjection
<1>4. Counted(q) \in SUBSET Own
  BY DEF Counted, CallIds
<1> QED BY <1>3, <1>4, FS_Subset

LEMMA BindingsStart == BindingsInit => BindingsInv
<1> SUFFICES ASSUME BindingsInit PROVE BindingsInv
  OBVIOUS
<1>1. TargetSound
  BY DEF BindingsInit, TargetSound
<1>2. \A c \in CallIds : calls[c] = Fresh
  BY DEF BindingsInit
<1>3. calls \in [CallIds -> CallRecords]
  BY DEF BindingsInit, CallRecords, Fresh, Ops
<1>4. \A c \in CallIds : CallSound(c)
  BY <1>1, <1>2 DEF CallSound, Fits, Fresh, TargetSound
<1>5. ASSUME NEW q \in Callers PROVE Budget(q)
  <2>1. Counted(q) = {}
    BY <1>2 DEF Counted, Fresh
  <2> QED BY <1>1, <2>1, FS_EmptySet, BindingsAssumption DEF Budget, TargetSound
<1> QED BY <1>1, <1>3, <1>4, <1>5 DEF BindingsInv

\* One call changes.  It counts if it did before, or if its caller has just paid for it.
LEMMA BecomesKeeps ==
  ASSUME BindingsInv, NEW c \in CallIds, NEW rec \in CallRecords, Become(c, rec), Fits(rec),
         UNCHANGED <<side, svc, liveGen, deadGens>>,
         spent' = spent \/ spent' = [spent EXCEPT ![c[1]] = @ + 1],
         stub' = stub \/ (stub' = [stub EXCEPT ![c[1]] = calls[c].gen] /\ calls[c].state = "running"),
         rec.state = "refused" => spent'[c[1]] > MaxSubrequests,
         rec.state = "shipped" => side[c[1]] # "main",
         Counts(rec) /\ ~Counts(calls[c]) /\ side[c[1]] \in {"main", "thread"} =>
           spent'[c[1]] = spent[c[1]] + 1 /\ spent'[c[1]] <= MaxSubrequests
  PROVE  BindingsInv'
<1> DEFINE p == c[1]
<1>1. TargetSound /\ calls \in [CallIds -> CallRecords] /\ p \in Callers /\ MaxSubrequests \in Nat
  BY CallersOf, BindingsAssumption DEF BindingsInv
<1>2. calls'[c] = rec /\ \A d \in CallIds \ {c} : calls'[d] = calls[d]
  BY <1>1 DEF Become
<1>3. calls' \in [CallIds -> CallRecords]
  BY <1>1 DEF Become
<1>4. \A q \in Callers : spent[q] \in Nat /\ spent'[q] \in Nat /\ spent'[q] >= spent[q]
  BY <1>1 DEF TargetSound
<1>5. TargetSound'
  <2>1. spent' \in [Callers -> Nat]
    BY <1>1 DEF TargetSound
  <2>2. calls[c].state = "running" => calls[c].gen \in 0..liveGen
    BY <1>1 DEF BindingsInv, CallSound, Fits, TargetSound
  <2>3. stub' \in [Callers -> 0..liveGen]
    BY <1>1, <2>2 DEF TargetSound
  <2> QED BY <1>1, <2>1, <2>3 DEF TargetSound
<1>6. ASSUME NEW d \in CallIds PROVE CallSound(d)'
  <2>1. CallSound(d) /\ d[1] \in Callers
    BY CallersOf DEF BindingsInv
  <2>2. CASE d = c
    BY <1>2, <2>2 DEF CallSound, Fits
  <2>3. CASE d # c
    BY <1>1, <1>2, <1>4, <2>1, <2>3 DEF CallSound, Fits
  <2> QED BY <2>2, <2>3
<1>7. ASSUME NEW q \in Callers PROVE Budget(q)'
  <2>1. Budget(q) /\ IsFiniteSet(Counted(q)) /\ Cardinality(Counted(q)) \in Nat
    BY CountedFinite, FS_CardinalityType DEF BindingsInv
  <2>2. \A d \in CallIds : d \in Counted(q)' <=> d[1] = q /\ Counts(calls'[d])
    BY DEF Counted, Counts
  <2>3. \A d \in CallIds : d \in Counted(q) <=> d[1] = q /\ Counts(calls[d])
    BY DEF Counted, Counts
  <2>4. Counted(q) \subseteq CallIds /\ Counted(q)' \subseteq CallIds
    BY DEF Counted, CallIds
  <2>5. CASE q = p /\ Counts(rec) /\ ~Counts(calls[c])
    <3>1. Counted(q)' = Counted(q) \cup {c}
      BY <1>2, <2>2, <2>3, <2>4, <2>5
    <3>2. Cardinality(Counted(q)') <= Cardinality(Counted(q)) + 1 /\ Cardinality(Counted(q)') \in Nat
      BY <2>1, <3>1, FS_AddElement, FS_CardinalityType, SMTT(30)
    <3>3. side[q] \in {"main", "thread"} => spent'[q] = spent[q] + 1 /\ spent'[q] <= MaxSubrequests
      BY <2>5
    <3> QED BY <1>1, <1>4, <2>1, <3>2, <3>3 DEF Budget
  <2>6. CASE ~(q = p /\ Counts(rec) /\ ~Counts(calls[c]))
    <3>1. Counted(q)' \in SUBSET Counted(q)
      BY <1>2, <2>2, <2>3, <2>4, <2>6
    <3>2. Cardinality(Counted(q)') <= Cardinality(Counted(q)) /\ Cardinality(Counted(q)') \in Nat
      BY <2>1, <3>1, FS_Subset, FS_CardinalityType
    <3> QED BY <1>1, <1>4, <2>1, <3>2 DEF Budget
  <2> QED BY <2>5, <2>6
<1> QED BY <1>3, <1>5, <1>6, <1>7 DEF BindingsInv

\* The binding in the main thread resolves the target when the call arrives.
LEMMA ReachesKeeps ==
  ASSUME BindingsInv, NEW c \in CallIds, NEW rec \in CallRecords, ReachesMain(c, rec),
         UNCHANGED <<side, svc, liveGen, deadGens, stub>>, rec.began <= liveGen,
         (calls[c].state = "idle" /\ side[c[1]] = "main") \/ (calls[c].state = "shipped" /\ rec = calls[c])
  PROVE  BindingsInv'
<1> DEFINE direct == side[c[1]] = "main"
           used == (IF direct THEN spent[c[1]] ELSE 0) + 1
<1>1. TargetSound /\ calls \in [CallIds -> CallRecords] /\ c[1] \in Callers /\ MaxSubrequests \in Nat \ {0}
      /\ CallSound(c) /\ spent[c[1]] \in Nat
  BY CallersOf, BindingsAssumption DEF BindingsInv, TargetSound
<1>2. ~direct <=> calls[c].state = "shipped"
  BY <1>1 DEF CallSound
<1>3. CASE ~Resolved(c)
  <2> DEFINE new == [rec EXCEPT !.state = "error"]
  <2>1. Become(c, new) /\ spent' = spent
    BY <1>3 DEF ReachesMain
  <2>2. new \in CallRecords /\ new.state = "error" /\ new.began = rec.began
    BY DEF CallRecords
  <2> HIDE DEF new
  <2>3. Fits(new) /\ ~Counts(new)
    BY <2>2 DEF Fits, Counts
  <2> QED BY <2>1, <2>2, <2>3, BecomesKeeps
<1>4. CASE Resolved(c)
  <2>1. spent' = IF direct THEN [spent EXCEPT ![c[1]] = used] ELSE spent
    BY <1>4 DEF ReachesMain
  <2>2. spent' = spent \/ spent' = [spent EXCEPT ![c[1]] = @ + 1]
    BY <2>1
  <2>3. direct => spent'[c[1]] = spent[c[1]] + 1
    BY <1>1, <2>1 DEF TargetSound
  <2>4. CASE used > MaxSubrequests
    <3> DEFINE new == [rec EXCEPT !.state = "refused"]
    <3>1. Become(c, new) /\ direct
      BY <1>1, <1>4, <2>4 DEF ReachesMain
    <3>2. new \in CallRecords /\ new.state = "refused" /\ new.began = rec.began
      BY DEF CallRecords
    <3> HIDE DEF new
    <3>3. Fits(new) /\ ~Counts(new)
      BY <3>2 DEF Fits, Counts
    <3>4. spent'[c[1]] > MaxSubrequests
      BY <2>3, <2>4, <3>1
    <3> QED BY <2>2, <3>1, <3>2, <3>3, <3>4, BecomesKeeps
  <2>5. CASE ~(used > MaxSubrequests) /\ ~CanAnswer(rec.op)
    <3> DEFINE new == [rec EXCEPT !.state = "error"]
    <3>1. Become(c, new)
      BY <1>4, <2>5 DEF ReachesMain
    <3>2. new \in CallRecords /\ new.state = "error" /\ new.began = rec.began
      BY DEF CallRecords
    <3> HIDE DEF new
    <3>3. Fits(new) /\ ~Counts(new)
      BY <3>2 DEF Fits, Counts
    <3> QED BY <2>2, <3>1, <3>2, <3>3, BecomesKeeps
  <2>6. CASE ~(used > MaxSubrequests) /\ CanAnswer(rec.op)
    <3> DEFINE new == [rec EXCEPT !.state = "running", !.gen = ResolvedGen(c), !.by = AnsweredBy(rec.op)]
    <3>1. Become(c, new)
      BY <1>4, <2>6 DEF ReachesMain
    <3>2. ResolvedGen(c) = liveGen /\ liveGen # 0 /\ liveGen \in Nat
      BY <1>1, <1>4 DEF ResolvedGen, Resolved, TargetSound
    <3>3. AnsweredBy(rec.op) \in {"none", "default", "named", "assets"}
      BY DEF AnsweredBy
    <3>4. /\ new \in CallRecords /\ new.state = "running" /\ new.began = rec.began
          /\ new.gen = liveGen /\ new.op = rec.op
      BY <3>2, <3>3 DEF CallRecords
    <3> HIDE DEF new
    <3>5. Fits(new)
      BY <1>1, <3>2, <3>4 DEF Fits, TargetSound, CallRecords
    <3>6. ~direct /\ Counts(new) => Counts(calls[c])
      BY <1>2, <3>4 DEF Counts
    <3>7. direct => spent'[c[1]] <= MaxSubrequests
      BY <1>1, <2>3, <2>6
    <3> QED BY <2>2, <2>3, <3>1, <3>4, <3>5, <3>6, <3>7, BecomesKeeps
  <2> QED BY <2>4, <2>5, <2>6
<1> QED BY <1>3, <1>4

LEMMA CallsKeep ==
  ASSUME BindingsInv, NEW c \in CallIds,
         (\E op \in Ops : Invoke(c, op)) \/ CallArrives(c) \/ CallReturned(c) \/ CallStub(c)
  PROVE  BindingsInv'
<1>1. TargetSound /\ calls \in [CallIds -> CallRecords] /\ c[1] \in Callers /\ MaxSubrequests \in Nat \ {0}
      /\ CallSound(c) /\ spent[c[1]] \in Nat /\ calls[c] \in CallRecords /\ liveGen \in Nat
  BY CallersOf, BindingsAssumption DEF BindingsInv, TargetSound
<1>2. ASSUME NEW op \in Ops, Invoke(c, op) PROVE BindingsInv'
  <2> DEFINE rec == [Fresh EXCEPT !.op = op, !.began = liveGen]
  <2>1. /\ calls[c].state = "idle" /\ UNCHANGED <<side, svc, liveGen, deadGens, stub>>
        /\ IF side[c[1]] = "main" THEN ReachesMain(c, rec) ELSE Proxied(c, rec)
    BY <1>2 DEF Invoke
  <2>2. rec \in CallRecords /\ rec.began = liveGen /\ rec.op = op
    BY <1>1 DEF CallRecords, Fresh, Ops
  <2> HIDE DEF rec
  <2>3. CASE side[c[1]] = "main"
    BY <1>1, <2>1, <2>2, <2>3, ReachesKeeps
  <2>4. CASE side[c[1]] # "main"
    <3> DEFINE counts == side[c[1]] = "thread" /\ rec.op # "get"
               to == IF counts /\ spent[c[1]] >= MaxSubrequests THEN "refused" ELSE "shipped"
               new == [rec EXCEPT !.state = to]
    <3>1. /\ spent' = IF counts THEN [spent EXCEPT ![c[1]] = @ + 1] ELSE spent
          /\ Become(c, new)
      BY <2>1, <2>4 DEF Proxied
    <3>2. to \in {"refused", "shipped"}
      OBVIOUS
    <3>3. to = "refused" => counts /\ spent[c[1]] >= MaxSubrequests
      OBVIOUS
    <3>4. counts /\ to = "shipped" => spent[c[1]] + 1 <= MaxSubrequests
      BY <1>1
    <3> HIDE DEF to
    <3>5. new \in CallRecords /\ new.state = to /\ new.began = liveGen /\ new.op = op
      BY <2>2, <3>2 DEF CallRecords
    <3> HIDE DEF new
    <3>6. Fits(new)
      BY <1>1, <3>2, <3>5 DEF Fits
    <3>7. counts => spent'[c[1]] = spent[c[1]] + 1
      BY <1>1, <3>1 DEF TargetSound
    <3>8. spent' = spent \/ spent' = [spent EXCEPT ![c[1]] = @ + 1]
      BY <3>1
    <3>9. new.state = "refused" => spent'[c[1]] > MaxSubrequests
      BY <1>1, <3>3, <3>5, <3>7
    <3>10. Counts(new) /\ side[c[1]] \in {"main", "thread"} =>
             spent'[c[1]] = spent[c[1]] + 1 /\ spent'[c[1]] <= MaxSubrequests
      BY <1>1, <2>2, <2>4, <3>2, <3>4, <3>5, <3>7 DEF Counts
    <3>11. UNCHANGED <<side, svc, liveGen, deadGens>> /\ stub' = stub
      BY <2>1
    <3> HIDE DEF counts
    <3> QED BY <2>4, <3>1, <3>5, <3>6, <3>8, <3>9, <3>10, <3>11, BecomesKeeps
  <2> QED BY <2>3, <2>4
<1>3. ASSUME CallArrives(c) PROVE BindingsInv'
  BY <1>1, <1>3, ReachesKeeps DEF CallArrives, CallSound, Fits
<1>4. ASSUME CallReturned(c) PROVE BindingsInv'
  <2>1. PICK how \in {"ok", "error"} : Fail(c, how)
    BY <1>4 DEF CallReturned
  <2> DEFINE new == [calls[c] EXCEPT !.state = how]
  <2>2. /\ Become(c, new) /\ calls[c].state = "running"
        /\ UNCHANGED <<side, svc, liveGen, deadGens, spent>>
        /\ stub' = stub \/ (stub' = [stub EXCEPT ![c[1]] = calls[c].gen] /\ calls[c].state = "running")
    BY <1>4, <2>1 DEF CallReturned, Fail
  <2>3. /\ new \in CallRecords /\ new.state = how /\ new.began = calls[c].began
        /\ new.gen = calls[c].gen /\ new.op = calls[c].op
    BY <1>1 DEF CallRecords
  <2> HIDE DEF new
  <2>4. Fits(new) /\ (Counts(new) => Counts(calls[c]))
    BY <1>1, <2>2, <2>3 DEF Fits, CallSound, Counts
  <2>5. new.state # "refused" /\ new.state # "shipped"
    BY <2>3
  <2> QED BY <2>2, <2>3, <2>4, <2>5, BecomesKeeps
<1>5. ASSUME CallStub(c) PROVE BindingsInv'
  <2> DEFINE q == c[1]
             to == IF svc.target = "thread" /\ stub[q] \in deadGens THEN "error" ELSE "running"
             rec == [Fresh EXCEPT !.op = "stub", !.began = stub[q], !.gen = stub[q], !.by = AnsweredBy("call")]
             new == [rec EXCEPT !.state = to]
  <2>1. /\ calls[c].state = "idle" /\ stub[q] # 0 /\ Become(c, new)
        /\ UNCHANGED <<side, svc, liveGen, deadGens, spent, stub>>
    BY <1>5 DEF CallStub
  <2>2. stub[q] \in 1..liveGen /\ to \in {"error", "running"}
    BY <1>1, <2>1 DEF TargetSound
  <2>3. to = "running" => ~(svc.target = "thread" /\ stub[q] \in deadGens)
    OBVIOUS
  <2> HIDE DEF to
  <2>4. AnsweredBy("call") \in {"none", "default", "named", "assets"}
    BY DEF AnsweredBy
  <2>5. /\ new \in CallRecords /\ new.state = to /\ new.began = stub[q]
        /\ new.gen = stub[q] /\ new.op = "stub"
    <3> DEFINE by == AnsweredBy("call")
               g == stub[q]
    <3>1. g \in Nat /\ by \in {"none", "default", "named", "assets"}
      BY <1>1, <2>2, <2>4
    <3> HIDE DEF by, g
    <3>2. rec = [Fresh EXCEPT !.op = "stub", !.began = g, !.gen = g, !.by = by]
      BY DEF by, g
    <3>3. Fresh \in CallRecords
      BY DEF CallRecords, Fresh, Ops
    <3>4. rec \in CallRecords /\ rec.began = g /\ rec.gen = g /\ rec.op = "stub"
      <4> HIDE DEF rec
      <4> QED BY <3>1, <3>2, <3>3 DEF CallRecords, Ops
    <3>5. new = [rec EXCEPT !.state = to]
      OBVIOUS
    <3> HIDE DEF rec, new
    <3> QED BY <2>2, <3>4, <3>5 DEF CallRecords, g
  <2> HIDE DEF rec, new
  <2>6. Fits(new) /\ ~Counts(new)
    BY <1>1, <2>2, <2>3, <2>5 DEF Fits, Counts
  <2>7. new.state # "refused" /\ new.state # "shipped"
    BY <2>2, <2>5
  <2> QED BY <2>1, <2>5, <2>6, <2>7, BecomesKeeps
<1> QED BY <1>2, <1>3, <1>4, <1>5

\* The target loads another generation, and disposes of one that is not the active one.
LEMMA TargetsKeep ==
  ASSUME BindingsInv, TargetLoads \/ Disposes \/ UNCHANGED bindingVars PROVE BindingsInv'
<1>1. TargetSound /\ calls \in [CallIds -> CallRecords] /\ liveGen \in Nat /\ deadGens \subseteq 1..(liveGen - 1)
  BY DEF BindingsInv, TargetSound
<1>2. /\ UNCHANGED <<side, svc, spent, stub>> /\ liveGen' \in Nat /\ liveGen' >= liveGen
      /\ deadGens' \subseteq 1..(liveGen' - 1)
  BY <1>1 DEF TargetLoads, Disposes, bindingVars
<1>3. TargetSound'
  <2>1. \A q \in Callers : stub[q] \in 0..liveGen'
    BY <1>1, <1>2 DEF TargetSound
  <2>2. stub \in [Callers -> 0..liveGen']
    BY <1>1, <2>1 DEF TargetSound
  <2> QED BY <1>1, <1>2, <2>2 DEF TargetSound
<1>4. /\ calls' \in [CallIds -> CallRecords]
      /\ \A c \in CallIds : CallSound(c)' /\ (Counts(calls'[c]) => Counts(calls[c]))
  <2>1. CASE Disposes
    <3>1. PICK g \in 1..(liveGen - 1) \ deadGens :
            /\ deadGens' = deadGens \cup {g} /\ liveGen' = liveGen
            /\ calls' = [c \in CallIds |->
                 IF calls[c].state = "running" /\ calls[c].gen = g /\ svc.target = "thread"
                 THEN [calls[c] EXCEPT !.state = "error"] ELSE calls[c]]
      BY <2>1 DEF Disposes
    <3>2. ASSUME NEW c \in CallIds
          PROVE  calls'[c] \in CallRecords /\ CallSound(c)' /\ (Counts(calls'[c]) => Counts(calls[c]))
      <4>0. CallSound(c) /\ calls[c] \in CallRecords
        BY <1>1 DEF BindingsInv
      <4>1. CASE calls[c].state = "running" /\ calls[c].gen = g /\ svc.target = "thread"
        <5>1. calls'[c] \in CallRecords /\ calls'[c].state = "error" /\ calls'[c].began = calls[c].began
          BY <3>1, <4>0, <4>1 DEF CallRecords
        <5> QED BY <1>2, <3>1, <4>0, <5>1 DEF CallSound, Fits, Counts
      <4>2. CASE ~(calls[c].state = "running" /\ calls[c].gen = g /\ svc.target = "thread")
        <5>1. calls'[c] = calls[c]
          BY <3>1, <4>2
        <5> QED BY <1>2, <3>1, <4>0, <4>2, <5>1 DEF CallSound, Fits
      <4> QED BY <4>1, <4>2
    <3> QED BY <3>1, <3>2
  <2>2. CASE ~Disposes
    <3>1. calls' = calls /\ deadGens' = deadGens
      BY <2>2 DEF TargetLoads, bindingVars
    <3>2. ASSUME NEW c \in CallIds PROVE CallSound(c)'
      <4>1. CallSound(c) /\ calls[c] \in CallRecords
        BY <1>1 DEF BindingsInv
      <4> QED BY <1>1, <1>2, <3>1, <4>1 DEF CallSound, Fits, CallRecords
    <3> QED BY <1>1, <3>1, <3>2
  <2> QED BY <2>1, <2>2
<1>5. ASSUME NEW q \in Callers PROVE Budget(q)'
  <2>1. Counted(q)' \in SUBSET Counted(q)
    BY <1>4 DEF Counted, Counts
  <2>2. Budget(q) /\ IsFiniteSet(Counted(q))
    BY CountedFinite DEF BindingsInv
  <2>3. Cardinality(Counted(q)') <= Cardinality(Counted(q)) /\ Cardinality(Counted(q)') \in Nat /\ Cardinality(Counted(q)) \in Nat
    BY <2>1, <2>2, FS_Subset, FS_CardinalityType
  <2> QED BY <1>1, <1>2, <2>2, <2>3, BindingsAssumption DEF Budget, TargetSound
<1> QED BY <1>3, <1>4, <1>5 DEF BindingsInv

LEMMA BindingsAlways == BindingsSpec => []BindingsInv
<1>1. BindingsInv /\ [BindingsNext]_bindingVars => BindingsInv'
  BY CallsKeep, TargetsKeep DEF BindingsNext
<1> QED BY BindingsStart, <1>1, PTL DEF BindingsSpec

\* Whichever thread a binding is used in, it reaches the state of its kind.
LEMMA AllReachAlways == AllReach
<1>1. /\ Env["main"] = MainEnv /\ Env["thread"] = ThreadEnv /\ Env["do"] = DoEnv
  BY DEF Env
<1>2. \A k \in BindingKinds : /\ Env["main"][k] = (IF k = "workflow" THEN "router" ELSE "here")
                             /\ Env["thread"][k] = (IF k \in {"store", "workflow", "newer"} THEN "here" ELSE "proxy")
  BY <1>1 DEF MainEnv, ThreadEnv
<1>3. \A k \in BindingKinds : Env["do"][k] = IF k \in {"store", "queue"} THEN "here"
                                           ELSE IF k = "newer" THEN "absent" ELSE "proxy"
  BY <1>1 DEF DoEnv
<1> SUFFICES ASSUME NEW s \in Sides, NEW k \in BindingKinds PROVE Lands(s, k) \in Owners(k) \cup {"nowhere"}
  BY DEF AllReach
<1>4. CASE s = "main"
  BY <1>2, <1>4 DEF Lands, Hop, Owners, BindingKinds, Sides
<1>5. CASE s = "thread"
  BY <1>2, <1>5 DEF Lands, Hop, Owners, BindingKinds, Sides
<1>6. CASE s = "do"
  BY <1>2, <1>3, <1>6 DEF Lands, Hop, Owners, BindingKinds, Sides
<1> QED BY <1>4, <1>5, <1>6 DEF Sides

\* A call is served by a generation that was active since it was made and is not gone, and
\* a budget is kept and used up before a call is refused (resolveTarget,
\* checkSubrequestLimit), for any callers, calls, budgets and reloads of the target.
THEOREM BindingsTrueAlways == BindingsSpec => []BindingsTrue
<1>1. BindingsInv => BindingsTrue
  BY AllReachAlways DEF BindingsInv, CallSound, Fits, Budget, BindingsTrue
<1> QED BY BindingsAlways, <1>1, PTL

-----------------------------------------------------------------------------
(* The watchers.                                                             *)

\* A time says which text it is, and no text is younger than the last save.  A file outside
\* of the project imports none from inside.
SameText(a, b) == a.at = b.at => a = b
Timed(f) ==
  /\ text[f].at <= saves /\ read[f].at <= saves /\ mtimes[f] <= saves /\ extraTimes[f] <= saves
  /\ SameText(read[f], text[f])
  /\ (text[f].at = 0 => text[f] = NoFile) /\ (read[f].at = 0 => read[f] = NoFile)
  /\ f \in Outside => text[f].imports \subseteq Outside /\ read[f].imports \subseteq Outside

\* A scan of the graph is under way only with a load, and a queued one with a queued load.
Scans ==
  /\ loading = "no" => rescans = {} /\ ~followUp
  /\ loading = "first" => rescans = {"now"} /\ ~followUp
  /\ "next" \in rescans => followUp

\* What the load has read is reached from the entry point.
Inside(f) == read[f].imports \ Outside
Reached ==
  \A S \in SUBSET SourceFiles :
    MainFile \in S /\ (\A p \in S \cap opened : read[p].parses => Inside(p) \subseteq S) => opened \ Outside \subseteq S

\* As long as no scan is due, the watched files that are unchanged import what is watched,
\* or what the last scan did not find.
GraphClosed ==
  rescans = {} =>
    /\ MainFile \in Watched \cup absent
    /\ \A f \in Watched : mtimes[f] = text[f].at /\ text[f].parses => text[f].imports \ Outside \subseteq Watched \cup absent

\* A watched file that is unchanged was read as it is; the same for the extra directories.
ReadAsWatched ==
  rescans = {} /\ (loading = "no" => unseen = {}) =>
    \A f \in opened \cap Watched : mtimes[f] = text[f].at => read[f].at = text[f].at
ReadAsExtra ==
  (loading = "no" /\ unseen = {}) \/ (loading = "again" /\ ~followUp) =>
    \A f \in opened \cap Extra : extraTimes[f] = text[f].at /\ text[f].at # 0 => read[f].at = text[f].at

WatchInv ==
  /\ WatchType /\ \A f \in SourceFiles : Timed(f)
  /\ Scans /\ Reached /\ GraphClosed /\ ReadAsWatched /\ ReadAsExtra

LEMMA FilesAre ==
  /\ MainFile \in SourceFiles /\ MainFile \notin Outside /\ MainFile \notin Extra
  /\ Outside \subseteq SourceFiles /\ Extra \subseteq SourceFiles
BY WatchAssumption

LEMMA FileTypes ==
  ASSUME WatchInv, NEW f \in SourceFiles
  PROVE  /\ text[f] \in FileStates /\ read[f] \in FileStates
         /\ text[f].at \in Nat /\ read[f].at \in Nat /\ mtimes[f] \in Nat /\ extraTimes[f] \in Nat /\ saves \in Nat
         /\ text[f].imports \subseteq SourceFiles /\ read[f].imports \subseteq SourceFiles
         /\ Timed(f)
BY DEF WatchInv, WatchType, FileStates, Imports

LEMMA WatchStarts == WatchInit => WatchInv
<1> SUFFICES ASSUME WatchInit PROVE WatchInv
  OBVIOUS
<1>0. PICK first \in Imports, parse \in SUBSET SourceFiles :
        text = [f \in SourceFiles |->
                  [at |-> 1, parses |-> f \in parse, imports |-> IF f = MainFile THEN first ELSE {}]]
  BY DEF WatchInit
<1>1. \A f \in SourceFiles : text[f] \in FileStates /\ text[f].at = 1 /\ (f # MainFile => text[f].imports = {})
  BY <1>0 DEF FileStates, Imports
<1>2. NoFile \in FileStates /\ NoFile.at = 0 /\ NoFile.imports = {}
  BY DEF NoFile, FileStates, Imports
<1>3. /\ saves = 1 /\ mtimes = Unwatched /\ extraTimes = Unwatched /\ loading = "first" /\ opened = {}
      /\ read = [f \in SourceFiles |-> NoFile] /\ followUp = FALSE /\ rescans = {"now"} /\ unseen = {} /\ absent = {}
  BY DEF WatchInit
<1>4. WatchType
  <2>1. text \in [SourceFiles -> FileStates] /\ read \in [SourceFiles -> FileStates]
    BY <1>0, <1>1, <1>2, <1>3
  <2> QED BY <1>3, <2>1 DEF WatchType, Unwatched
<1>5. \A f \in SourceFiles : Timed(f)
  BY <1>1, <1>2, <1>3, FilesAre DEF Timed, SameText, Unwatched
<1>6. Scans /\ Reached /\ GraphClosed /\ ReadAsWatched /\ ReadAsExtra
  BY <1>3 DEF Scans, Reached, GraphClosed, ReadAsWatched, ReadAsExtra
<1> QED BY <1>4, <1>5, <1>6 DEF WatchInv

\* The thread reads a file that is not yet read.
LEMMA ReadKeeps ==
  ASSUME WatchInv, NEW f \in SourceFiles, ReadModule(f)
  PROVE  WatchInv'
<1>1. /\ Running /\ ~Broken /\ f \in Needed \ opened /\ opened' = opened \cup {f}
      /\ read' = [read EXCEPT ![f] = text[f]]
      /\ UNCHANGED <<text, saves, mtimes, extraTimes, loading, followUp, rescans, unseen, absent>>
  BY DEF ReadModule
<1>2. WatchType /\ Scans /\ Reached /\ GraphClosed /\ ReadAsWatched /\ ReadAsExtra
  BY DEF WatchInv
<1>3. read'[f] = text[f] /\ \A g \in SourceFiles \ {f} : read'[g] = read[g]
  BY <1>1, <1>2 DEF WatchType
<1>4. WatchType'
  <2>1. read' \in [SourceFiles -> FileStates]
    BY <1>1, <1>2 DEF WatchType
  <2>2. opened' \subseteq SourceFiles
    BY <1>1, <1>2 DEF WatchType
  <2> QED BY <1>1, <1>2, <2>1, <2>2 DEF WatchType
<1>5. ASSUME NEW g \in SourceFiles PROVE Timed(g)'
  BY <1>1, <1>3, FileTypes DEF Timed, SameText
<1>6. Scans' /\ GraphClosed'
  BY <1>1, <1>2 DEF Scans, GraphClosed, Watched
<1>7. Reached'
  <2> SUFFICES ASSUME NEW S \in SUBSET SourceFiles, MainFile \in S,
                      \A p \in S \cap opened' : read'[p].parses => Inside(p)' \subseteq S
               PROVE  opened' \ Outside \subseteq S
    BY DEF Reached
  <2>1. opened \subseteq SourceFiles
    BY <1>2 DEF WatchType
  <2>2. \A p \in opened : read'[p] = read[p]
    BY <1>1, <1>3, <2>1
  <2>3. \A p \in S \cap opened : read[p].parses => Inside(p) \subseteq S
    BY <1>1, <2>2 DEF Inside
  <2>4. opened \ Outside \subseteq S
    BY <1>2, <2>3 DEF Reached
  <2>5. f \notin Outside => f \in S
    <3> SUFFICES ASSUME f \notin Outside, f # MainFile PROVE f \in S
      OBVIOUS
    <3>1. PICK p \in opened : f \in read[p].imports
      BY <1>1 DEF Needed
    <3>2. p \notin Outside
      BY <2>1, <3>1, FileTypes DEF Timed
    <3>3. read[p].parses
      BY <1>1, <3>1 DEF Broken
    <3> QED BY <2>3, <2>4, <3>1, <3>2, <3>3 DEF Inside
  <2> QED BY <1>1, <2>4, <2>5
<1>8. ReadAsWatched'
  <2>1. loading # "no"
    BY <1>1 DEF Running
  <2> SUFFICES ASSUME rescans = {}, NEW g \in opened', g \in Watched, mtimes[g] = text[g].at PROVE read'[g].at = text[g].at
    BY <1>1 DEF ReadAsWatched, Watched
  <2> QED BY <1>1, <1>2, <1>3, <2>1 DEF ReadAsWatched, Watched
<1>9. ReadAsExtra'
  <2> SUFFICES ASSUME ~followUp, loading = "again", NEW g \in opened', g \in Extra, extraTimes[g] = text[g].at, text[g].at # 0
               PROVE  read'[g].at = text[g].at
    BY <1>1 DEF ReadAsExtra, Running
  <2> QED BY <1>1, <1>2, <1>3, FilesAre DEF ReadAsExtra
<1> QED BY <1>4, <1>5, <1>6, <1>7, <1>8, <1>9 DEF WatchInv

\* A file is written or removed: its time is another one from then on.
LEMMA EditsKeep ==
  ASSUME WatchInv, NEW f \in SourceFiles, NEW new \in FileStates,
         text' = [text EXCEPT ![f] = new], saves' = saves + 1,
         new.at = saves + 1 \/ new = NoFile, f \in Outside => new.imports \subseteq Outside,
         UNCHANGED <<mtimes, extraTimes, loading, opened, read, followUp, rescans, unseen, absent>>
  PROVE  WatchInv'
<1>1. WatchType /\ Scans /\ Reached /\ GraphClosed /\ ReadAsWatched /\ ReadAsExtra
  BY DEF WatchInv
<1>2. text'[f] = new /\ \A g \in SourceFiles \ {f} : text'[g] = text[g]
  BY <1>1 DEF WatchType
<1>3. NoFile.at = 0 /\ NoFile.imports = {}
  BY DEF NoFile
<1>4. WatchType'
  BY <1>1 DEF WatchType
<1>5. ASSUME NEW g \in SourceFiles PROVE Timed(g)'
  <2>1. CASE g = f
    BY <1>2, <1>3, <2>1, FileTypes DEF Timed, SameText
  <2>2. CASE g # f
    BY <1>2, <2>2, FileTypes DEF Timed, SameText
  <2> QED BY <2>1, <2>2
<1>6. Scans' /\ Reached'
  BY <1>1 DEF Scans, Reached, Inside
<1>7. \A g \in Watched : mtimes[g] = text'[g].at => text'[g] = text[g]
  BY <1>2, <1>3, FileTypes DEF Watched, Timed
<1>8. GraphClosed'
  BY <1>1, <1>7 DEF GraphClosed, Watched
<1>9. ReadAsWatched'
  BY <1>1, <1>7 DEF ReadAsWatched, Watched
<1>10. \A g \in SourceFiles : extraTimes[g] = text'[g].at /\ text'[g].at # 0 => text'[g] = text[g]
  BY <1>2, <1>3, FileTypes DEF Timed
<1>11. ReadAsExtra'
  BY <1>1, <1>10, FilesAre DEF ReadAsExtra
<1> QED BY <1>4, <1>5, <1>6, <1>8, <1>9, <1>11 DEF WatchInv

\* The graph that a scan finds is closed: what it does not reach was not there.
LEMMA GraphIs ==
  /\ MainFile \in ImportGraph /\ ImportGraph \subseteq SourceFiles
  /\ \A f \in ImportGraph : Followed(f) \subseteq SourceFiles => Followed(f) \subseteq ImportGraph
<1>1. MainFile \in ImportGraph /\ ImportGraph \subseteq SourceFiles
  BY FilesAre DEF ImportGraph
<1>2. ASSUME NEW f \in ImportGraph, NEW g \in SourceFiles, g \in Followed(f) PROVE g \in ImportGraph
  <2> SUFFICES ASSUME NEW S \in SUBSET SourceFiles, MainFile \in S, \A h \in S : Followed(h) \subseteq S
               PROVE  g \in S
    BY DEF ImportGraph
  <2>1. f \in S
    BY DEF ImportGraph
  <2> QED BY <1>2, <2>1
<1> QED BY <1>1, <1>2

\* What a scan at the end of a load leaves behind.
LEMMA ScanLeaves ==
  ASSUME WatchInv, mtimes' = Scanned, UNCHANGED <<text, read>>,
         unseen' = {f \in opened : read[f].at # text[f].at}, absent' = {f \in SourceFiles : text[f].at = 0},
         (opened' = opened /\ loading' = "no") \/ opened' = {}
  PROVE  GraphClosed' /\ ReadAsWatched' /\ mtimes' \in [SourceFiles -> Nat] /\ (\A f \in SourceFiles : mtimes'[f] <= saves)
<1>1. \A f \in SourceFiles : mtimes'[f] = IF f \in ImportGraph THEN text[f].at ELSE 0
  BY DEF Scanned
<1>2. \A f \in SourceFiles : f \in Watched' <=> f \in ImportGraph /\ text[f].at # 0
  BY <1>1 DEF Watched
<1>3. ASSUME NEW f \in SourceFiles, f \in Watched', text[f].parses
      PROVE  text[f].imports \ Outside \subseteq Watched' \cup absent'
  <2> SUFFICES ASSUME NEW g \in text[f].imports, g \notin Outside, text[g].at # 0 PROVE g \in Watched'
    BY FileTypes
  <2>1. g \in Followed(f) /\ g \in SourceFiles /\ Followed(f) \subseteq SourceFiles
    BY <1>3, FileTypes DEF Followed
  <2> QED BY <1>2, <1>3, <2>1, GraphIs
<1>4. MainFile \in Watched' \cup absent'
  BY <1>2, GraphIs, FilesAre
<1>5. Watched' \subseteq SourceFiles
  BY DEF Watched
<1>6. GraphClosed'
  BY <1>3, <1>4, <1>5 DEF GraphClosed
<1>7. ReadAsWatched'
  <2> SUFFICES ASSUME loading' = "no" => unseen' = {}, NEW f \in opened', f \in Watched' PROVE read[f].at = text[f].at
    BY DEF ReadAsWatched
  <2> QED OBVIOUS
<1>8. mtimes' \in [SourceFiles -> Nat]
  <2>1. mtimes' = [f \in SourceFiles |-> mtimes'[f]]
    BY DEF Scanned
  <2> QED BY <1>1, <2>1, FileTypes
<1>9. \A f \in SourceFiles : mtimes'[f] <= saves
  BY <1>1, FileTypes DEF Timed
<1> QED BY <1>6, <1>7, <1>8, <1>9

\* A load is over, with a scan of the graph or without.
LEMMA LoadsKeep ==
  ASSUME WatchInv, Loaded \/ Started PROVE WatchInv'
<1>1. WatchType /\ Scans /\ Reached /\ GraphClosed /\ ReadAsWatched /\ ReadAsExtra
  BY DEF WatchInv
<1>2. UNCHANGED <<text, saves, read>>
  BY DEF Loaded, Started
<1>3. opened' = opened \/ opened' = {}
  BY DEF Loaded, Started
<1>4. Reached'
  BY <1>1, <1>2, <1>3 DEF Reached, Inside
<1>5. /\ loading' \in {"no", "again", "exit"} /\ followUp' = FALSE /\ rescans' \subseteq {"now"}
      /\ loading' = "no" => rescans' = {} /\ opened' = opened /\ loading \in {"again", "first"}
      /\ loading' = "again" => opened' = {} /\ loading = "again"
      /\ loading' = "exit" => UNCHANGED <<mtimes, extraTimes, unseen, absent, rescans>> /\ loading = "first"
  BY <1>1 DEF Loaded, Started, Scans
<1>6. Scans'
  BY <1>5 DEF Scans
<1>7. CASE loading' = "exit"
  <2>1. rescans' = {"now"}
    BY <1>1, <1>5, <1>7 DEF Scans
  <2>2. WatchType'
    BY <1>1, <1>2, <1>3, <1>5, <1>7 DEF WatchType
  <2>3. \A f \in SourceFiles : Timed(f)'
    BY <1>2, <1>5, <1>7, FileTypes DEF Timed
  <2>4. GraphClosed' /\ ReadAsWatched' /\ ReadAsExtra'
    BY <1>7, <2>1 DEF GraphClosed, ReadAsWatched, ReadAsExtra
  <2> QED BY <1>4, <1>6, <2>2, <2>3, <2>4 DEF WatchInv
<1>8. CASE loading' # "exit" /\ "now" \in rescans
  <2>1. /\ mtimes' = Scanned
        /\ unseen' = {f \in opened : read[f].at # text[f].at} /\ absent' = {f \in SourceFiles : text[f].at = 0}
    BY <1>8 DEF Loaded, Started, Rescan
  <2>2. (opened' = opened /\ loading' = "no") \/ opened' = {}
    BY <1>5, <1>8
  <2>3. GraphClosed' /\ ReadAsWatched' /\ mtimes' \in [SourceFiles -> Nat] /\ \A f \in SourceFiles : mtimes'[f] <= saves
    BY <1>2, <2>1, <2>2, ScanLeaves
  <2>4. extraTimes' = extraTimes \/ extraTimes' = ExtraScanned
    BY <1>8 DEF Loaded, Started
  <2>5. extraTimes' \in [SourceFiles -> Nat] /\ \A f \in SourceFiles : extraTimes'[f] <= saves
    BY <1>1, <2>4, FileTypes DEF ExtraScanned, WatchType, Timed
  <2>6. WatchType'
    <3>1. opened' \subseteq SourceFiles /\ unseen' \subseteq SourceFiles /\ absent' \subseteq SourceFiles
      BY <1>1, <1>3, <2>1 DEF WatchType
    <3>2. text' \in [SourceFiles -> FileStates] /\ read' \in [SourceFiles -> FileStates] /\ saves' \in Nat
      BY <1>1, <1>2 DEF WatchType
    <3>3. rescans' \subseteq {"now", "next"} /\ loading' \in {"no", "first", "again", "exit"} /\ followUp' \in BOOLEAN
      BY <1>5
    <3> QED BY <2>3, <2>5, <3>1, <3>2, <3>3 DEF WatchType
  <2>7. \A f \in SourceFiles : Timed(f)'
    BY <1>2, <2>3, <2>5, FileTypes DEF Timed
  <2>8. ReadAsExtra'
    BY <1>2, <1>5, <2>1 DEF ReadAsExtra
  <2> QED BY <1>4, <1>6, <2>3, <2>6, <2>7, <2>8 DEF WatchInv
<1>9. CASE loading' # "exit" /\ "now" \notin rescans
  <2>1. Loaded /\ loading = "again"
    BY <1>1, <1>9 DEF Loaded, Started, Scans
  <2>2. mtimes' = mtimes /\ absent' = absent /\ unseen' = {} /\ extraTimes' = extraTimes
    BY <1>9, <2>1 DEF Loaded, Rescan
  <2>3. rescans' = {} => rescans = {}
    BY <1>1, <1>9, <2>1 DEF Loaded, WatchType
  <2>4. WatchType'
    BY <1>1, <1>2, <1>3, <1>5, <2>2, ZenonT(60) DEF WatchType
  <2>5. \A f \in SourceFiles : Timed(f)'
    BY <1>2, <2>2, FileTypes DEF Timed
  <2>6. GraphClosed'
    BY <1>1, <1>2, <2>2, <2>3 DEF GraphClosed, Watched
  <2>7. ReadAsWatched'
    BY <1>1, <1>2, <1>3, <2>1, <2>2, <2>3 DEF ReadAsWatched, Watched
  <2>8. ReadAsExtra'
    <3>1. loading' = "no" => ~followUp
      BY <2>1 DEF Loaded
    <3> QED BY <1>1, <1>2, <1>3, <1>5, <2>1, <2>2, <3>1 DEF ReadAsExtra
  <2> QED BY <1>4, <1>6, <2>4, <2>5, <2>6, <2>7, <2>8 DEF WatchInv
<1> QED BY <1>7, <1>8, <1>9

\* A poll finds a change, and asks for a load.
LEMMA PollsKeep ==
  ASSUME WatchInv, PollGraph \/ PollExtra PROVE WatchInv'
<1>1. WatchType /\ Scans /\ Reached /\ GraphClosed /\ ReadAsWatched /\ ReadAsExtra
  BY DEF WatchInv
<1>2. UNCHANGED <<text, saves, read, unseen, absent>> /\ loading \in {"no", "again"}
  BY DEF PollGraph, PollExtra
<1>3. \/ Reload(TRUE) /\ extraTimes' = extraTimes
         /\ mtimes' = [f \in SourceFiles |-> IF f \in ChangedFiles THEN text[f].at ELSE mtimes[f]]
      \/ Reload(FALSE) /\ mtimes' = mtimes /\ extraTimes' = ExtraScanned
  BY DEF PollGraph, PollExtra
<1>4. /\ opened' = opened \/ opened' = {}
      /\ loading' = "again" /\ (loading = "again" => followUp') /\ (loading = "no" => opened' = {} /\ followUp' = followUp)
      /\ (mtimes' = mtimes /\ rescans' = rescans) \/ rescans' # {}
      /\ rescans' \subseteq {"now", "next"} /\ ("next" \in rescans' => followUp') /\ followUp' \in BOOLEAN
  <2>1. CASE Running
    BY <1>1, <1>2, <1>3, <2>1 DEF Reload, Running, Scans, WatchType
  <2>2. CASE ~Running
    BY <1>1, <1>2, <1>3, <2>2 DEF Reload, Running, Scans, WatchType
  <2> QED BY <2>1, <2>2
<1>5. /\ mtimes' \in [SourceFiles -> Nat] /\ extraTimes' \in [SourceFiles -> Nat]
      /\ \A f \in SourceFiles : mtimes'[f] <= saves /\ extraTimes'[f] <= saves
  <2>1. \A f \in SourceFiles : text[f].at \in Nat /\ text[f].at <= saves /\ mtimes[f] <= saves /\ extraTimes[f] <= saves /\ saves \in Nat
    BY FileTypes DEF Timed
  <2>2. CASE extraTimes' = extraTimes /\ mtimes' = [f \in SourceFiles |-> IF f \in ChangedFiles THEN text[f].at ELSE mtimes[f]]
    BY <1>1, <2>1, <2>2 DEF WatchType
  <2>3. CASE mtimes' = mtimes /\ extraTimes' = ExtraScanned
    BY <1>1, <2>1, <2>3 DEF WatchType, ExtraScanned
  <2> QED BY <1>3, <2>2, <2>3
<1>6. WatchType'
  BY <1>1, <1>2, <1>4, <1>5 DEF WatchType
<1>7. \A f \in SourceFiles : Timed(f)'
  BY <1>2, <1>5, FileTypes DEF Timed
<1>8. Scans' /\ Reached'
  BY <1>1, <1>2, <1>4 DEF Scans, Reached, Inside
<1>9. GraphClosed'
  BY <1>1, <1>2, <1>4 DEF GraphClosed, Watched
<1>10. ReadAsWatched'
  BY <1>1, <1>2, <1>4 DEF ReadAsWatched, Watched, Scans
<1>11. ReadAsExtra'
  BY <1>1, <1>2, <1>4 DEF ReadAsExtra, Scans
<1> QED BY <1>6, <1>7, <1>8, <1>9, <1>10, <1>11 DEF WatchInv

\* The invariant of the watchers.
LEMMA WatchAlways == WatchSpec => []WatchInv
<1>1. WatchInv /\ [WatchNext]_watchVars => WatchInv'
  <2> SUFFICES ASSUME WatchInv, [WatchNext]_watchVars PROVE WatchInv'
    OBVIOUS
  <2>1. ASSUME NEW f \in SourceFiles, ReadModule(f) PROVE WatchInv'
    BY <2>1, ReadKeeps
  <2>2. ASSUME NEW f \in SourceFiles, RemoveFile(f) PROVE WatchInv'
    <3>1. NoFile \in FileStates /\ NoFile.imports = {}
      BY DEF NoFile, FileStates, Imports
    <3> QED BY <2>2, <3>1, EditsKeep DEF RemoveFile
  <2>3. ASSUME NEW f \in SourceFiles, NEW parses \in BOOLEAN, NEW imports \in Imports, SaveFile(f, parses, imports)
        PROVE  WatchInv'
    <3> DEFINE new == [at |-> saves + 1, parses |-> parses, imports |-> imports]
    <3>1. new \in FileStates /\ new.at = saves + 1 /\ new.imports = imports
      BY DEF WatchInv, WatchType, FileStates
    <3>2. text' = [text EXCEPT ![f] = new] /\ (f \in Outside => new.imports \subseteq Outside)
      BY <2>3, <3>1 DEF SaveFile
    <3> HIDE DEF new
    <3> QED BY <2>3, <3>1, <3>2, EditsKeep DEF SaveFile
  <2>4. CASE Loaded \/ Started
    BY <2>4, LoadsKeep
  <2>5. CASE PollGraph \/ PollExtra
    BY <2>5, PollsKeep
  <2>6. CASE UNCHANGED watchVars
    BY <2>6 DEF watchVars, WatchInv, WatchType, Timed, Scans, Reached, Inside, GraphClosed, ReadAsWatched, ReadAsExtra, Watched
  <2> QED BY <2>1, <2>2, <2>3, <2>4, <2>5, <2>6 DEF WatchNext
<1> QED BY <1>1, WatchStarts, PTL DEF WatchSpec

\* If no poll finds a change, what is watched was read as it is; so were then its imports,
\* and so on, from the entry point to whatever the load has read.
LEMMA WatchKnows == WatchInv => EditsNoticed
<1> SUFFICES ASSUME WatchInv, loading = "no", unseen = {}, opened \cap absent = {}, ~Pending
             PROVE  StaleModules \cap Covered = {}
  BY DEF EditsNoticed
<1>1. WatchType /\ Scans /\ Reached /\ GraphClosed /\ ReadAsWatched /\ ReadAsExtra
  BY DEF WatchInv
<1>2. rescans = {} /\ opened \subseteq SourceFiles /\ Watched \subseteq SourceFiles
  BY <1>1 DEF Scans, WatchType, Watched
<1>3. \A f \in Watched : mtimes[f] = text[f].at
  BY DEF Pending, ChangedFiles
<1>4. \A f \in opened \cap Watched : read[f] = text[f]
  BY <1>1, <1>2, <1>3, FileTypes DEF ReadAsWatched, Timed, SameText
<1>5. \A f \in opened \cap Extra : text[f].at # 0 => read[f].at = text[f].at
  <2>1. \A f \in Extra : extraTimes[f] = text[f].at
    BY FilesAre DEF Pending, ExtraChanged, ExtraScanned
  <2> QED BY <1>1, <2>1 DEF ReadAsExtra
<1>6. opened \ Outside \subseteq Watched
  <2> DEFINE S == Watched \cup (SourceFiles \ opened)
  <2>1. MainFile \in S
    BY <1>1, <1>2, FilesAre DEF GraphClosed
  <2>2. ASSUME NEW p \in S \cap opened, read[p].parses PROVE Inside(p) \subseteq S
    BY <1>1, <1>2, <1>3, <1>4, <2>2, FileTypes DEF GraphClosed, Inside
  <2>3. S \subseteq SourceFiles
    BY <1>2
  <2>4. opened \ Outside \subseteq S
    <3> HIDE DEF S
    <3> QED BY <1>1, <2>1, <2>2, <2>3 DEF Reached
  <2> QED BY <2>4
<1>7. ASSUME NEW f \in opened, f \in Covered, read[f].at # text[f].at, f \in Outside => text[f].at # 0 PROVE FALSE
  BY <1>4, <1>5, <1>6, <1>7 DEF Covered
<1> QED BY <1>7 DEF StaleModules

\* When no load runs, an edited file of the last load is one that a poll is going to find
\* changed, but for edits before the scan and files that it did not find (dev.ts,
\* ImportGraphWatcher, FileWatcher), for any files, imports and edits.
THEOREM EditsNoticedAlways == WatchSpec => []EditsNoticed
BY WatchAlways, WatchKnows, PTL

-----------------------------------------------------------------------------
(* Repositories, their tokens and git (Artifacts).                           *)

\* Every call works on an id of its own, and the ids are given out one after the other.
Taken == {m \in Makers : making[m].id # 0}
RepoDone(id) == \E m \in Makers : making[m].id = id /\ making[m].phase = "done"
RepoRows == [name : Names, readOnly : BOOLEAN, at : Nat]
TokenRows == [repo : Nat, scope : {"read", "write"}, revoked : Nat, expires : Nat]
ArtifactsType ==
  /\ repoRow \in [RepoIds -> {NoRow} \cup RepoRows] /\ repoDir \subseteq RepoIds
  /\ tokens \in Seq(TokenRows) /\ artNow \in Nat
MakersType ==
  /\ making = [m \in Makers |-> making[m]]
  /\ \A m \in Makers :
       /\ making[m].phase \in {"idle", "git", "failed", "lost", "done"}
       /\ making[m].id \in RepoIds \cup {0} /\ making[m].id <= Cardinality(Taken)
       /\ making[m].phase = "idle" <=> making[m].id = 0
       /\ making[m].phase = "git" => making[m].name \in Names /\ making[m].readOnly \in BOOLEAN
  /\ \A m, k \in Makers : making[m].id # 0 /\ making[m].id = making[k].id => m = k

\* A directory is made ahead of its row and goes with it, or with the call that fails.
RowsKept ==
  /\ \A a, b \in Repos : repoRow[a].name = repoRow[b].name => a = b
  /\ \A id \in Repos : id \in repoDir /\ RepoDone(id)
  /\ \A m \in Makers : making[m].phase = "git" => making[m].id \in repoDir
  /\ \A id \in repoDir \ Repos : \E m \in Makers : making[m].id = id /\ making[m].phase \in {"git", "lost"}

\* A client that git is open for; an id that was deleted never comes back.
OpenKept ==
  client.phase = "open" =>
    /\ client.token \in DOMAIN tokens /\ client.since \in Nat /\ client.since <= artNow
    /\ RepoDone(client.repo)
    /\ tokens[client.token].repo = client.repo \/ client.repo \notin Repos
    /\ tokens[client.token].revoked = 0 \/ tokens[client.token].revoked >= client.since
    /\ client.write => tokens[client.token].scope = "write"
    /\ client.write /\ client.repo \in Repos => ~repoRow[client.repo].readOnly
PushesKept == \A id \in pushed : RepoDone(id) /\ (id \in Repos => ~repoRow[id].readOnly)

\* What a listing has not yet shown is on its next pages.
ListKept ==
  /\ client.phase = "paging" =>
       /\ client.cursor \in Nat /\ client.missed \subseteq Repos
       /\ \A id \in client.missed : repoRow[id].at >= client.cursor
  /\ client.phase = "listed" => client.missed = {}
  /\ client.phase = "answered" => client.status = client.sent

ArtifactsInv ==
  /\ ArtifactsType /\ MakersType /\ RowsKept /\ OpenKept /\ PushesKept /\ ListKept

LEMMA NoRowIsNone == NoRow \notin RepoRows
BY DEF NoRow, RepoRows

\* What a step leaves of the promises to clients when it touches no row that they know.
RowsStay ==
  /\ \A id \in RepoIds : RepoDone(id) => RepoDone(id)'
  /\ \A id \in Repos' : ~RepoDone(id) \/ (id \in Repos /\ repoRow'[id] = repoRow[id])
TokensStay ==
  \A t \in DOMAIN tokens :
    /\ t \in DOMAIN tokens' /\ tokens'[t].scope = tokens[t].scope
    /\ tokens'[t].repo = tokens[t].repo \/ tokens[t].repo \notin Repos'
    /\ tokens'[t].revoked = tokens[t].revoked \/ (tokens'[t].revoked \in Nat /\ tokens'[t].revoked >= artNow)

LEMMA IdsAre == (\A id : RepoDone(id) /\ ArtifactsInv => id \in RepoIds \cup {0}) /\ Repos \subseteq RepoIds /\ 0 \notin RepoIds
BY DEF RepoDone, ArtifactsInv, MakersType, Repos, RepoIds

LEMMA ClientsStay ==
  ASSUME ArtifactsInv, client' = client, artNow' \in Nat, artNow' >= artNow, RowsStay, TokensStay,
         client.phase = "paging" => client.missed \subseteq Repos'
  PROVE  OpenKept' /\ ListKept'
<1>1. ArtifactsType /\ MakersType /\ RowsKept /\ OpenKept /\ ListKept
  BY DEF ArtifactsInv
<1>2. OpenKept'
  <2> SUFFICES ASSUME client.phase = "open" PROVE OpenKept'
    BY DEF OpenKept
  <2>1. PICK m \in Makers : making[m].id = client.repo /\ making[m].phase = "done"
    BY <1>1 DEF OpenKept, RepoDone
  <2>2. client.repo \in RepoIds
    BY <1>1, <2>1 DEF MakersType
  <2>3. RepoDone(client.repo) /\ RepoDone(client.repo)'
    BY <2>1, <2>2 DEF RowsStay, RepoDone
  <2>4. client.repo \in Repos' => client.repo \in Repos /\ repoRow'[client.repo] = repoRow[client.repo]
    BY <2>3 DEF RowsStay
  <2>5. artNow \in Nat /\ client.since \in Nat /\ client.since <= artNow /\ client.token \in DOMAIN tokens
    BY <1>1 DEF ArtifactsType, OpenKept
  <2>6. tokens'[client.token].revoked = 0 \/ tokens'[client.token].revoked >= client.since
    BY <1>1, <2>5 DEF OpenKept, TokensStay
  <2> QED BY <1>1, <2>3, <2>4, <2>5, <2>6 DEF OpenKept, TokensStay
<1>3. ListKept'
  <2>1. \A id \in RepoIds : id \in Repos => RepoDone(id)
    BY <1>1 DEF RowsKept
  <2>2. client.phase = "paging" => \A id \in client.missed : id \in Repos' /\ id \in Repos /\ repoRow'[id] = repoRow[id]
    BY <1>1, <2>1, IdsAre DEF ListKept, RowsStay
  <2> QED BY <1>1, <2>2 DEF ListKept
<1> QED BY <1>2, <1>3

LEMMA PushesStay ==
  ASSUME ArtifactsInv, pushed' = pushed, RowsStay PROVE PushesKept'
<1>1. MakersType /\ PushesKept
  BY DEF ArtifactsInv
<1>2. ASSUME NEW id \in pushed PROVE RepoDone(id)' /\ (id \in Repos' => ~repoRow'[id].readOnly)
  <2>1. RepoDone(id)
    BY <1>1, <1>2 DEF PushesKept
  <2>2. PICK m \in Makers : making[m].id = id /\ making[m].phase = "done"
    BY <2>1 DEF RepoDone
  <2>3. id \in RepoIds
    BY <1>1, <2>2 DEF MakersType
  <2> QED BY <1>1, <2>1, <2>3 DEF RowsStay, PushesKept
<1> QED BY <1>2 DEF PushesKept

\* Nothing changes of rows and tokens.
LEMMA SameStay == UNCHANGED <<repoRow, making, tokens>> => RowsStay /\ TokensStay
BY DEF RowsStay, TokensStay, RepoDone, Repos

\* A row, or an id, for a call that has none yet: nobody has seen it.
LEMMA TakenFinite == IsFiniteSet(Taken) /\ Cardinality(Taken) \in Nat /\ Cardinality(Makers) \in Nat
BY ArtifactsAssumption, FS_Subset, FS_CardinalityType DEF Taken

LEMMA BeginKeeps ==
  ASSUME ArtifactsInv, NEW m \in Makers, NEW name \in Names, NEW origin, BeginRepo(m, name, origin)
  PROVE  ArtifactsInv'
<1>1. ArtifactsType /\ MakersType /\ RowsKept /\ OpenKept /\ PushesKept /\ ListKept
  BY DEF ArtifactsInv
<1>2. UNCHANGED <<repoRow, held, tokens, artNow, client, pushed>> /\ making[m].phase = "idle" /\ making[m].id = 0
  BY <1>1 DEF BeginRepo, MakersType
<1> DEFINE new == 1 + Cardinality(Taken)
<1>3. CASE UNCHANGED <<making, repoDir>>
  BY <1>1, <1>2, <1>3, SMTT(30) DEF ArtifactsInv, ArtifactsType, MakersType, RowsKept, OpenKept, PushesKept, ListKept, Repos, RepoDone, Taken
<1>4. CASE ~UNCHANGED <<making, repoDir>>
  <2>1. PICK readOnly \in BOOLEAN :
          /\ making' = [making EXCEPT ![m] = [phase |-> "git", name |-> name, id |-> new, readOnly |-> readOnly, source |-> origin]]
          /\ repoDir' = repoDir \cup {new}
    BY <1>4 DEF BeginRepo, Taken
  <2>2. Taken \subseteq Makers \ {m} /\ IsFiniteSet(Taken) /\ Cardinality(Taken) \in Nat /\ Cardinality(Makers) \in Nat
    BY <1>2, TakenFinite DEF Taken
  <2>3. Cardinality(Taken) < Cardinality(Makers)
    <3>1. IsFiniteSet(Makers \ {m}) /\ Cardinality(Makers \ {m}) = Cardinality(Makers) - 1
      BY ArtifactsAssumption, FS_RemoveElement
    <3> QED BY <2>2, <3>1, FS_Subset
  <2>4. new \in RepoIds /\ new # 0
    BY <2>2, <2>3 DEF RepoIds
  <2>5. \A k \in Makers : making[k].id # new
    BY <1>1, <2>2 DEF MakersType, RepoIds
  <2> HIDE DEF new
  <2>6. /\ making'[m].phase = "git" /\ making'[m].id = new /\ making'[m].name \in Names /\ making'[m].readOnly \in BOOLEAN
        /\ \A k \in Makers \ {m} : making'[k] = making[k]
        /\ making' = [k \in Makers |-> making'[k]]
    <3>1. making \in [Makers -> {making[k] : k \in Makers}]
      BY <1>1 DEF MakersType
    <3> QED BY <2>1, <3>1
  <2>7. Taken' = Taken \cup {m} /\ m \notin Taken
    BY <1>2, <2>4, <2>6 DEF Taken
  <2>8. Cardinality(Taken') = new
    <3>1. Cardinality(Taken \cup {m}) = Cardinality(Taken) + 1
      BY <2>2, <2>7, FS_AddElement
    <3>2. Cardinality(Taken') = Cardinality(Taken) + 1
      BY <2>7, <3>1
    <3> QED BY <2>2, <3>2 DEF new
  <2>9. MakersType'
    <3>0. new \in Nat /\ new = 1 + Cardinality(Taken)
      BY <2>2 DEF new
    <3>1. ASSUME NEW k \in Makers
          PROVE  /\ making'[k].phase \in {"idle", "git", "failed", "lost", "done"}
                 /\ making'[k].id \in RepoIds \cup {0} /\ making'[k].id <= Cardinality(Taken')
                 /\ making'[k].phase = "idle" <=> making'[k].id = 0
                 /\ making'[k].phase = "git" => making'[k].name \in Names /\ making'[k].readOnly \in BOOLEAN
      <4>1. CASE k = m
        BY <2>4, <2>6, <2>8, <3>0, <4>1
      <4>2. CASE k # m
        <5>1. making'[k] = making[k] /\ making[k].id \in Nat
          BY <1>1, <2>6, <4>2 DEF MakersType, RepoIds
        <5> QED BY <1>1, <2>2, <2>8, <3>0, <5>1 DEF MakersType
      <4> QED BY <4>1, <4>2
    <3>2. ASSUME NEW j \in Makers, NEW k \in Makers, making'[j].id # 0, making'[j].id = making'[k].id PROVE j = k
      BY <1>1, <2>5, <2>6, <3>2 DEF MakersType
    <3> QED BY <2>6, <3>1, <3>2 DEF MakersType
  <2>10. ArtifactsType'
    BY <1>1, <1>2, <2>1, <2>4 DEF ArtifactsType
  <2>11. RowsStay /\ TokensStay /\ Repos' = Repos
    <3>1. \A id : RepoDone(id) => RepoDone(id)'
      BY <1>2, <2>6 DEF RepoDone
    <3> QED BY <1>2, <3>1 DEF RowsStay, TokensStay, Repos
  <2>12. RowsKept'
    <3>1. \A id \in RepoIds : RepoDone(id) => RepoDone(id)'
      BY <2>11 DEF RowsStay
    <3>2. \A k \in Makers : making'[k].phase = "git" => making'[k].id \in repoDir'
      BY <1>1, <2>1, <2>6 DEF RowsKept
    <3>3. ASSUME NEW id \in repoDir' \ Repos PROVE \E k \in Makers : making'[k].id = id /\ making'[k].phase \in {"git", "lost"}
      <4>1. CASE id = new
        BY <2>6, <4>1
      <4>2. CASE id # new
        <5>1. PICK k \in Makers : making[k].id = id /\ making[k].phase \in {"git", "lost"}
          BY <1>1, <2>1, <4>2 DEF RowsKept
        <5> QED BY <1>2, <2>6, <5>1
      <4> QED BY <4>1, <4>2
    <3> QED BY <1>1, <1>2, <2>1, <2>11, <3>1, <3>2, <3>3, IdsAre DEF RowsKept
  <2>13. OpenKept' /\ ListKept' /\ PushesKept'
    BY <1>1, <1>2, <2>11, ClientsStay, PushesStay DEF ListKept, ArtifactsType
  <2> QED BY <2>9, <2>10, <2>12, <2>13 DEF ArtifactsInv
<1> QED BY <1>3, <1>4

\* A call's step changes nothing of the others.
LEMMA MakerMoves ==
  ASSUME ArtifactsInv, NEW m \in Makers, making[m].phase = "git", NEW phase \in {"failed", "lost", "done"},
         making' = [making EXCEPT ![m] = [phase |-> phase, id |-> making[m].id]]
  PROVE  /\ MakersType' /\ making'[m].phase = phase /\ making'[m].id = making[m].id
         /\ making[m].id \in RepoIds /\ ~RepoDone(making[m].id)
         /\ \A k \in Makers \ {m} : making'[k] = making[k] /\ making[k].id # making[m].id
         /\ \A id : RepoDone(id) => RepoDone(id)'
<1>1. MakersType
  BY DEF ArtifactsInv
<1> DEFINE new == [phase |-> phase, id |-> making[m].id]
<1>2. new.phase = phase /\ new.id = making[m].id
  OBVIOUS
<1>3. making' = [making EXCEPT ![m] = new]
  OBVIOUS
<1> HIDE DEF new
<1>4. /\ making'[m] = new /\ \A k \in Makers \ {m} : making'[k] = making[k]
      /\ making' = [k \in Makers |-> making'[k]]
  <2>1. making \in [Makers -> {making[k] : k \in Makers}]
    BY <1>1 DEF MakersType
  <2> QED BY <1>3, <2>1
<1>5. making[m].id # 0 /\ making[m].id \in RepoIds
  BY <1>1 DEF MakersType
<1>6. \A k \in Makers \ {m} : making[k].id # making[m].id
  BY <1>1, <1>5 DEF MakersType
<1>7. Taken' = Taken
  BY <1>2, <1>4 DEF Taken
<1>8. \A k \in Makers : making'[k].id = making[k].id
  BY <1>2, <1>4
<1>9. MakersType'
  <2>1. ASSUME NEW k \in Makers
        PROVE  /\ making'[k].phase \in {"idle", "git", "failed", "lost", "done"}
               /\ making'[k].id \in RepoIds \cup {0} /\ making'[k].id <= Cardinality(Taken')
               /\ making'[k].phase = "idle" <=> making'[k].id = 0
               /\ making'[k].phase = "git" => making'[k].name \in Names /\ making'[k].readOnly \in BOOLEAN
    <3>1. CASE k = m
      BY <1>1, <1>2, <1>4, <1>5, <1>7, <3>1 DEF MakersType
    <3>2. CASE k # m
      BY <1>1, <1>4, <1>7, <3>2 DEF MakersType
    <3> QED BY <3>1, <3>2
  <2> QED BY <1>1, <1>4, <1>8, <2>1 DEF MakersType
<1>10. ~RepoDone(making[m].id)
  <2> SUFFICES ASSUME NEW k \in Makers, making[k].id = making[m].id, making[k].phase = "done" PROVE FALSE
    BY DEF RepoDone
  <2> QED BY <1>6
<1>11. ASSUME NEW id, RepoDone(id) PROVE RepoDone(id)'
  <2>1. PICK k \in Makers : making[k].id = id /\ making[k].phase = "done"
    BY <1>11 DEF RepoDone
  <2> QED BY <1>4, <2>1 DEF RepoDone
<1> QED BY <1>2, <1>4, <1>5, <1>6, <1>9, <1>10, <1>11

LEMMA GitFailsKeeps ==
  ASSUME ArtifactsInv, NEW m \in Makers, GitFails(m) PROVE ArtifactsInv'
<1>1. ArtifactsType /\ MakersType /\ RowsKept /\ OpenKept /\ PushesKept /\ ListKept
  BY DEF ArtifactsInv
<1> DEFINE i == making[m].id
<1>2. /\ UNCHANGED <<repoRow, held, tokens, artNow, client, pushed>> /\ making[m].phase = "git"
      /\ making' = [making EXCEPT ![m] = [phase |-> "failed", id |-> making[m].id]] /\ repoDir' = repoDir \ {i}
  BY DEF GitFails
<1>3. /\ MakersType' /\ making'[m].phase = "failed" /\ making'[m].id = i /\ i \in RepoIds /\ ~RepoDone(i)
      /\ \A k \in Makers \ {m} : making'[k] = making[k] /\ making[k].id # i
      /\ \A id : RepoDone(id) => RepoDone(id)'
  BY <1>2, MakerMoves
<1> HIDE DEF i
<1>4. RowsStay /\ TokensStay /\ Repos' = Repos
  BY <1>2, <1>3 DEF RowsStay, TokensStay, Repos
<1>5. RowsKept'
  <2>1. \A k \in Makers : making'[k].phase = "git" => making'[k].id \in repoDir'
    BY <1>1, <1>2, <1>3 DEF RowsKept
  <2>2. ASSUME NEW id \in repoDir' \ Repos PROVE \E k \in Makers : making'[k].id = id /\ making'[k].phase \in {"git", "lost"}
    <3>1. PICK k \in Makers : making[k].id = id /\ making[k].phase \in {"git", "lost"}
      BY <1>1, <1>2 DEF RowsKept
    <3>2. id # i
      BY <1>2
    <3>3. k # m
      BY <3>1, <3>2 DEF i
    <3> QED BY <1>3, <3>1, <3>3
  <2>3. \A id \in Repos : id \in repoDir' /\ RepoDone(id)'
    BY <1>1, <1>2, <1>3 DEF RowsKept
  <2> QED BY <1>1, <1>2, <1>4, <2>1, <2>2, <2>3 DEF RowsKept
<1>6. OpenKept' /\ ListKept' /\ PushesKept'
  BY <1>1, <1>2, <1>4, ClientsStay, PushesStay DEF ListKept, ArtifactsType
<1>7. ArtifactsType'
  BY <1>1, <1>2 DEF ArtifactsType
<1> QED BY <1>3, <1>5, <1>6, <1>7 DEF ArtifactsInv

\* A token is added, and the others stay.
LEMMA IssueKeeps ==
  ASSUME tokens \in Seq(TokenRows), artNow \in Nat, NEW id \in Nat, NEW scope \in {"read", "write"}, NEW ttl \in Nat,
         Issue(id, scope, ttl)
  PROVE  tokens' \in Seq(TokenRows) /\ TokensStay
<1> DEFINE row == [repo |-> id, scope |-> scope, revoked |-> 0, expires |-> IF ttl = 0 THEN 0 ELSE artNow + ttl]
<1>1. row \in TokenRows
  BY DEF TokenRows
<1>2. tokens' = Append(tokens, row)
  BY DEF Issue
<1> HIDE DEF row
<1>3. tokens' \in Seq(TokenRows) /\ Len(tokens') = Len(tokens) + 1 /\ \A t \in 1..Len(tokens) : tokens'[t] = tokens[t]
  BY <1>1, <1>2, AppendProperties
<1>4. DOMAIN tokens = 1..Len(tokens) /\ DOMAIN tokens' = 1..Len(tokens') /\ Len(tokens) \in Nat
  BY <1>3
<1> QED BY <1>3, <1>4 DEF TokensStay

LEMMA GitSucceedsKeeps ==
  ASSUME ArtifactsInv, NEW m \in Makers, GitSucceeds(m) PROVE ArtifactsInv'
<1>1. ArtifactsType /\ MakersType /\ RowsKept /\ OpenKept /\ PushesKept /\ ListKept
  BY DEF ArtifactsInv
<1> DEFINE i == making[m].id
           n == making[m].name
           row == [name |-> n, readOnly |-> making[m].readOnly, at |-> artNow]
<1>2. UNCHANGED <<repoDir, held, artNow, client, pushed>> /\ making[m].phase = "git"
  BY DEF GitSucceeds
<1>3. \/ /\ making' = [making EXCEPT ![m] = [phase |-> "lost", id |-> making[m].id]] /\ UNCHANGED <<repoRow, tokens>>
      \/ /\ Named(n) = {} /\ making' = [making EXCEPT ![m] = [phase |-> "done", id |-> making[m].id]]
         /\ repoRow' = [repoRow EXCEPT ![i] = row] /\ Issue(i, "write", 0)
  BY DEF GitSucceeds
<1>4. CASE making' = [making EXCEPT ![m] = [phase |-> "lost", id |-> making[m].id]] /\ UNCHANGED <<repoRow, tokens>>
  <2>1. /\ MakersType' /\ making'[m].phase = "lost" /\ making'[m].id = i
        /\ \A k \in Makers \ {m} : making'[k] = making[k]
        /\ \A id : RepoDone(id) => RepoDone(id)'
    BY <1>2, <1>4, MakerMoves
  <2> HIDE DEF i
  <2>2. RowsStay /\ TokensStay /\ Repos' = Repos
    BY <1>2, <1>4, <2>1 DEF RowsStay, TokensStay, Repos
  <2>3. RowsKept'
    <3>1. \A k \in Makers : making'[k].phase = "git" => making'[k].id \in repoDir'
      BY <1>1, <1>2, <2>1 DEF RowsKept
    <3>2. ASSUME NEW id \in repoDir' \ Repos PROVE \E k \in Makers : making'[k].id = id /\ making'[k].phase \in {"git", "lost"}
      <4>1. PICK k \in Makers : making[k].id = id /\ making[k].phase \in {"git", "lost"}
        BY <1>1, <1>2 DEF RowsKept
      <4>2. making'[k].id = id /\ making'[k].phase \in {"git", "lost"}
        BY <2>1, <4>1 DEF i
      <4> QED BY <4>2
    <3>3. \A id \in Repos : id \in repoDir' /\ RepoDone(id)'
      BY <1>1, <1>2, <2>1 DEF RowsKept
    <3> QED BY <1>1, <1>4, <2>2, <3>1, <3>2, <3>3 DEF RowsKept
  <2>4. OpenKept' /\ ListKept' /\ PushesKept'
    BY <1>1, <1>2, <2>2, ClientsStay, PushesStay DEF ListKept, ArtifactsType
  <2>5. ArtifactsType'
    BY <1>1, <1>2, <1>4 DEF ArtifactsType
  <2> QED BY <2>1, <2>3, <2>4, <2>5 DEF ArtifactsInv
<1>5. CASE /\ Named(n) = {} /\ making' = [making EXCEPT ![m] = [phase |-> "done", id |-> making[m].id]]
           /\ repoRow' = [repoRow EXCEPT ![i] = row] /\ Issue(i, "write", 0)
  <2>1. /\ MakersType' /\ making'[m].phase = "done" /\ making'[m].id = i /\ i \in RepoIds /\ ~RepoDone(i)
        /\ \A k \in Makers \ {m} : making'[k] = making[k] /\ making[k].id # i
        /\ \A id : RepoDone(id) => RepoDone(id)'
    BY <1>2, <1>5, MakerMoves
  <2>2. row \in RepoRows /\ row.name = n /\ row # NoRow /\ i \in Nat
    BY <1>1, <1>2, <2>1, NoRowIsNone DEF ArtifactsType, MakersType, RepoRows, RepoIds
  <2> HIDE DEF row
  <2>3. repoRow'[i] = row /\ \A id \in RepoIds \ {i} : repoRow'[id] = repoRow[id]
    BY <1>1, <1>5, <2>1 DEF ArtifactsType
  <2>4. Repos' = Repos \cup {i} /\ i \notin Repos
    BY <1>1, <2>1, <2>2, <2>3 DEF Repos, RowsKept
  <2>5. tokens' \in Seq(TokenRows) /\ TokensStay
    <3>1. Issue(i, "write", 0) /\ tokens \in Seq(TokenRows) /\ artNow \in Nat
      BY <1>1, <1>5 DEF ArtifactsType
    <3> HIDE DEF i
    <3> QED BY <2>2, <3>1, IssueKeeps
  <2>6. RowsStay
    BY <2>1, <2>3, <2>4, IdsAre DEF RowsStay
  <2>7. ArtifactsType'
    BY <1>1, <1>2, <1>5, <2>1, <2>2, <2>5 DEF ArtifactsType
  <2>8. \A id \in Repos : repoRow[id].name # n
    BY <1>5 DEF Named
  <2>9. i \in repoDir
    BY <1>1, <1>2 DEF RowsKept
  <2>10. \A id : id = i => RepoDone(id)'
    BY <2>1 DEF RepoDone
  <2> HIDE DEF i, n
  <2>11. RowsKept'
    <3>1. \A k \in Makers : making'[k].phase = "git" => making'[k].id \in repoDir'
      BY <1>1, <1>2, <2>1 DEF RowsKept
    <3>2. ASSUME NEW id \in repoDir' \ Repos' PROVE \E k \in Makers : making'[k].id = id /\ making'[k].phase \in {"git", "lost"}
      <4>1. PICK k \in Makers : making[k].id = id /\ making[k].phase \in {"git", "lost"}
        BY <1>1, <1>2, <2>4 DEF RowsKept
      <4>2. id # i
        BY <2>4
      <4>3. making'[k].id = id /\ making'[k].phase \in {"git", "lost"}
        BY <2>1, <4>1, <4>2 DEF i
      <4> QED BY <4>3
    <3>3. \A id \in Repos' : id \in repoDir' /\ RepoDone(id)'
      <4>1. \A id \in Repos : id \in repoDir /\ RepoDone(id)
        BY <1>1 DEF RowsKept
      <4>2. \A id \in Repos' : id \in repoDir'
        BY <1>2, <2>4, <2>9, <4>1
      <4>3. \A id \in Repos : RepoDone(id)'
        BY <2>1, <4>1
      <4>4. \A id \in Repos' : id \in Repos \/ id = i
        BY <2>4
      <4>5. ASSUME NEW id \in Repos' PROVE RepoDone(id)'
        BY <2>10, <4>3, <4>4
      <4> QED BY <4>2, <4>5
    <3>4. \A a, b \in Repos' : repoRow'[a].name = repoRow'[b].name => a = b
      <4>1. \A a \in Repos : repoRow'[a] = repoRow[a]
        BY <2>3, <2>4, IdsAre
      <4> QED BY <1>1, <2>2, <2>3, <2>4, <2>8, <4>1 DEF RowsKept
    <3> QED BY <3>1, <3>2, <3>3, <3>4 DEF RowsKept
  <2>12. OpenKept' /\ ListKept' /\ PushesKept'
    BY <1>1, <1>2, <2>4, <2>5, <2>6, ClientsStay, PushesStay DEF ListKept, ArtifactsType
  <2> QED BY <2>1, <2>7, <2>11, <2>12 DEF ArtifactsInv
<1> QED BY <1>3, <1>4, <1>5

\* Tokens are added, and revoked.
LEMMA TokensKeep ==
  ASSUME ArtifactsInv, tokens' \in Seq(TokenRows), TokensStay,
         UNCHANGED <<repoRow, repoDir, making, held, artNow, client, pushed>>
  PROVE  ArtifactsInv'
<1>1. ArtifactsType /\ MakersType /\ RowsKept /\ ListKept
  BY DEF ArtifactsInv
<1>2. RowsStay /\ Repos' = Repos
  BY DEF RowsStay, RepoDone, Repos
<1>3. ArtifactsType' /\ MakersType' /\ RowsKept'
  <2>1. ArtifactsType'
    BY <1>1 DEF ArtifactsType
  <2>2. MakersType'
    BY <1>1 DEF MakersType, Taken
  <2>3. RowsKept'
    BY <1>1, <1>2 DEF RowsKept, RepoDone
  <2> QED BY <2>1, <2>2, <2>3
<1>4. OpenKept' /\ ListKept' /\ PushesKept'
  BY <1>1, <1>2, ClientsStay, PushesStay DEF ListKept, ArtifactsType
<1> QED BY <1>3, <1>4 DEF ArtifactsInv

LEMMA CreateTokenKeeps ==
  ASSUME ArtifactsInv, NEW id \in RepoIds, NEW scope \in {"read", "write"}, NEW ttl \in {0, 1}, CreateToken(id, scope, ttl)
  PROVE  ArtifactsInv'
<1>1. tokens \in Seq(TokenRows) /\ artNow \in Nat /\ id \in Nat /\ ttl \in Nat
  BY DEF ArtifactsInv, ArtifactsType, RepoIds
<1> QED BY <1>1, IssueKeeps, TokensKeep DEF CreateToken

LEMMA RevokeTokenKeeps ==
  ASSUME ArtifactsInv, NEW id \in RepoIds, NEW t, RevokeToken(id, t) PROVE ArtifactsInv'
<1>1. tokens \in Seq(TokenRows) /\ artNow \in Nat /\ t \in DOMAIN tokens /\ tokens' = [tokens EXCEPT ![t].revoked = artNow]
  BY DEF ArtifactsInv, ArtifactsType, RevokeToken
<1> DEFINE row == [tokens[t] EXCEPT !.revoked = artNow]
<1>2. /\ row \in TokenRows /\ row.scope = tokens[t].scope /\ row.repo = tokens[t].repo /\ row.revoked = artNow
      /\ tokens' = [tokens EXCEPT ![t] = row]
  <2>1. tokens[t] \in TokenRows
    BY <1>1, ElementOfSeq
  <2> QED BY <1>1, <2>1 DEF TokenRows
<1> HIDE DEF row
<1>3. tokens' \in Seq(TokenRows) /\ DOMAIN tokens' = DOMAIN tokens
  BY <1>1, <1>2, ExceptSeq
<1>4. tokens'[t] = row /\ \A o \in DOMAIN tokens \ {t} : tokens'[o] = tokens[o]
  BY <1>1, <1>2
<1>5. TokensStay
  BY <1>1, <1>2, <1>3, <1>4 DEF TokensStay
<1> QED BY <1>3, <1>5, TokensKeep DEF RevokeToken

LEMMA RepoDeleteKeeps ==
  ASSUME ArtifactsInv, NEW name \in Names, DeleteRepo(name) PROVE ArtifactsInv'
<1>1. ArtifactsType /\ MakersType /\ RowsKept /\ OpenKept /\ PushesKept /\ ListKept
  BY DEF ArtifactsInv
<1>2. PICK i \in Named(name) :
        /\ tokens' = [t \in DOMAIN tokens |-> IF tokens[t].repo = i THEN [tokens[t] EXCEPT !.repo = 0] ELSE tokens[t]]
        /\ repoRow' = [repoRow EXCEPT ![i] = NoRow] /\ repoDir' = repoDir \ {i}
        /\ client' = IF client.phase # "paging" THEN client
                     ELSE [phase |-> "paging", missed |-> client.missed \ {i}, cursor |-> client.cursor]
        /\ UNCHANGED <<making, held, artNow, pushed>>
  BY DEF DeleteRepo
<1>3. i \in Repos /\ i \in RepoIds
  BY <1>2, IdsAre DEF Named
<1>4. repoRow'[i] = NoRow /\ \A id \in RepoIds \ {i} : repoRow'[id] = repoRow[id]
  BY <1>1, <1>2, <1>3 DEF ArtifactsType
<1>5. Repos' = Repos \ {i}
  BY <1>3, <1>4 DEF Repos
<1>6. RowsStay
  BY <1>2, <1>4, <1>5, IdsAre DEF RowsStay, RepoDone
<1>7. tokens' \in Seq(TokenRows) /\ TokensStay
  <2>1. ASSUME NEW t \in 1..Len(tokens)
        PROVE  /\ tokens'[t] \in TokenRows /\ tokens'[t].scope = tokens[t].scope /\ tokens'[t].revoked = tokens[t].revoked
               /\ tokens'[t].repo = tokens[t].repo \/ tokens[t].repo = i
    <3>1. t \in DOMAIN tokens /\ tokens[t] \in TokenRows
      BY <1>1, <2>1, ElementOfSeq DEF ArtifactsType
    <3>2. tokens'[t] = IF tokens[t].repo = i THEN [tokens[t] EXCEPT !.repo = 0] ELSE tokens[t]
      BY <1>2, <3>1
    <3>3. CASE tokens[t].repo = i
      <4>1. tokens'[t] = [tokens[t] EXCEPT !.repo = 0]
        BY <3>2, <3>3
      <4> QED BY <3>1, <3>3, <4>1 DEF TokenRows
    <3>4. CASE tokens[t].repo # i
      BY <3>1, <3>2, <3>4
    <3> QED BY <3>3, <3>4
  <2>2. DOMAIN tokens = 1..Len(tokens) /\ DOMAIN tokens' = 1..Len(tokens) /\ Len(tokens) \in Nat
    BY <1>1, <1>2 DEF ArtifactsType
  <2>3. tokens' \in [1..Len(tokens) -> TokenRows]
    <3>1. tokens' = [t \in 1..Len(tokens) |-> tokens'[t]]
      BY <1>2, <2>2
    <3> QED BY <2>1, <3>1
  <2>4. tokens' \in Seq(TokenRows)
    BY <2>2, <2>3, IsASeq
  <2> QED BY <1>5, <2>1, <2>2, <2>4 DEF TokensStay
<1>8. ArtifactsType' /\ MakersType'
  BY <1>1, <1>2, <1>3, <1>7 DEF ArtifactsType, MakersType, Taken
<1>9. RowsKept'
  <2>1. \A k \in Makers : making[k].phase = "git" => making[k].id # i
    <3>1. PICK m \in Makers : making[m].id = i /\ making[m].phase = "done"
      BY <1>1, <1>3 DEF RowsKept, RepoDone
    <3> QED BY <1>1, <1>3, <3>1, IdsAre DEF MakersType
  <2>2. \A id \in Repos' : id \in Repos /\ id \in RepoIds \ {i}
    BY <1>5, IdsAre
  <2>3. \A id \in Repos' : id \in repoDir' /\ RepoDone(id)'
    BY <1>1, <1>2, <1>5 DEF RowsKept, RepoDone
  <2>4. \A a, b \in Repos' : repoRow'[a].name = repoRow'[b].name => a = b
    BY <1>1, <1>4, <2>2 DEF RowsKept
  <2> QED BY <1>1, <1>2, <1>5, <2>1, <2>3, <2>4 DEF RowsKept
<1>10. PushesKept'
  BY <1>2, <1>6, PushesStay
<1>11. CASE client.phase = "paging"
  <2>1. client'.phase = "paging" /\ client'.cursor = client.cursor /\ client'.missed = client.missed \ {i}
    BY <1>2, <1>11
  <2>2. \A id \in client'.missed : id \in Repos' /\ id \in Repos /\ repoRow'[id] = repoRow[id]
    BY <1>1, <1>4, <1>5, <1>11, <2>1, IdsAre DEF ListKept
  <2>3. OpenKept' /\ ListKept'
    BY <1>1, <1>11, <2>1, <2>2 DEF OpenKept, ListKept
  <2> QED BY <1>8, <1>9, <1>10, <2>3 DEF ArtifactsInv
<1>12. CASE client.phase # "paging"
  <2>1. OpenKept' /\ ListKept'
    BY <1>1, <1>2, <1>6, <1>7, <1>12, ClientsStay DEF ArtifactsType
  <2> QED BY <1>8, <1>9, <1>10, <2>1 DEF ArtifactsInv
<1> QED BY <1>11, <1>12

\* The client moves, and nothing else.
LEMMA ClientMoves ==
  ASSUME ArtifactsInv, UNCHANGED <<repoRow, repoDir, making, tokens, artNow, pushed>>, OpenKept', ListKept'
  PROVE  ArtifactsInv'
<1>1. ArtifactsType /\ MakersType /\ RowsKept /\ PushesKept
  BY DEF ArtifactsInv
<1>2. ArtifactsType' /\ MakersType'
  BY <1>1 DEF ArtifactsType, MakersType, Taken
<1>3. RowsKept' /\ PushesKept'
  BY <1>1 DEF RowsKept, PushesKept, RepoDone, Repos
<1> QED BY <1>2, <1>3 DEF ArtifactsInv

LEMMA GitAsksKeeps ==
  ASSUME ArtifactsInv, NEW id \in RepoIds, NEW t, NEW write \in BOOLEAN, GitAsks(id, t, write) PROVE ArtifactsInv'
<1>1. ArtifactsType /\ RowsKept
  BY DEF ArtifactsInv
<1>2. /\ UNCHANGED <<repoRow, repoDir, making, held, tokens, artNow, pushed>> /\ t \in DOMAIN tokens
      /\ \/ client' = [phase |-> "answered", status |-> 404, sent |-> 404]
         \/ client' = [phase |-> "answered", status |-> 500, sent |-> 404] /\ id \in Repos /\ id \notin repoDir
         \/ client' = [phase |-> "answered", status |-> 403, sent |-> 403]
         \/ client' = [phase |-> "answered", status |-> 401, sent |-> 401]
         \/ /\ client' = [phase |-> "open", repo |-> id, token |-> t, write |-> write, since |-> artNow]
            /\ id \in Repos /\ Authentic(id, t, write) /\ ~(write /\ repoRow[id].readOnly)
  BY DEF GitAsks
<1>3. CASE client'.phase = "answered" /\ client'.status = client'.sent
  BY <1>2, <1>3, ClientMoves DEF OpenKept, ListKept
<1>4. CASE client' = [phase |-> "open", repo |-> id, token |-> t, write |-> write, since |-> artNow]
           /\ id \in Repos /\ Authentic(id, t, write) /\ ~(write /\ repoRow[id].readOnly)
  <2>1. /\ client'.phase = "open" /\ client'.repo = id /\ client'.token = t /\ client'.write = write
        /\ client'.since = artNow
    BY <1>4
  <2>2. RepoDone(id) /\ artNow \in Nat
    BY <1>1, <1>4 DEF RowsKept, ArtifactsType
  <2>3. \A i : RepoDone(i)' <=> RepoDone(i)
    BY <1>2 DEF RepoDone
  <2>4. OpenKept'
    BY <1>2, <1>4, <2>1, <2>2, <2>3 DEF OpenKept, Authentic, Repos
  <2>5. ListKept'
    BY <2>1 DEF ListKept
  <2> QED BY <1>2, <2>4, <2>5, ClientMoves
<1>5. ~(id \in Repos /\ id \notin repoDir)
  BY <1>1 DEF RowsKept
<1> QED BY <1>2, <1>3, <1>4, <1>5

\* What git prints is cut where its headers end, whatever its body looks like.
LEMMA CgiTrue ==
  ASSUME NEW heads \in CgiHeads, NEW body \in CgiBodies
  PROVE  LET response == CgiResponse(heads \o <<"eol", "eol">> \o body)
         IN response.body = body /\ response.status = IF Len(heads) = 1 THEN 200 ELSE 404
<1> DEFINE Words == {"type", "status", "eol"}
           ends == <<"eol", "eol">>
           front == heads \o ends
           raw == front \o body
           h == Len(heads)
<1>1. heads \in Seq(Words) /\ body \in Seq(Words) /\ ends \in Seq(Words)
  <2>1. <<"type">> \in Seq(Words) /\ <<"status", "eol", "type">> \in Seq(Words)
    OBVIOUS
  <2>2. <<>> \in Seq(Words) /\ <<"eol", "eol", "status">> \in Seq(Words) /\ <<"eol", "eol">> \in Seq(Words)
    OBVIOUS
  <2> QED BY <2>1, <2>2 DEF CgiHeads, CgiBodies
<1>2. Len(ends) = 2 /\ ends[1] = "eol" /\ ends[2] = "eol"
  OBVIOUS
<1>3. \/ h = 1 /\ heads[1] = "type"
      \/ h = 3 /\ heads[1] = "status" /\ heads[2] = "eol" /\ heads[3] = "type"
  <2>1. CASE heads = <<"type">>
    BY <2>1
  <2>2. CASE heads = <<"status", "eol", "type">>
    BY <2>2
  <2> QED BY <2>1, <2>2 DEF CgiHeads
<1> HIDE DEF ends, Words
<1>4. front \in Seq(Words) /\ Len(front) = h + 2 /\ \A i \in 1..(h + 2) : front[i] = IF i <= h THEN heads[i] ELSE ends[i - h]
  <2> DEFINE s == heads
  <2>1. s \in Seq(Words) /\ front = s \o ends /\ s = heads
    BY <1>1
  <2> HIDE DEF s, front
  <2>2. /\ s \o ends \in Seq(Words) /\ Len(s \o ends) = Len(s) + Len(ends)
        /\ \A i \in 1..(Len(s) + Len(ends)) : (s \o ends)[i] = IF i <= Len(s) THEN s[i] ELSE ends[i - Len(s)]
    BY <1>1, <2>1, ConcatProperties
  <2>3. Len(s) = h
    BY <2>1
  <2> HIDE DEF h
  <2> QED BY <1>2, <2>1, <2>2, <2>3
<1> HIDE DEF front
<1>5. /\ raw \in Seq(Words) /\ Len(raw) = h + 2 + Len(body) /\ Len(body) \in Nat /\ DOMAIN raw = 1..Len(raw)
      /\ \A i \in 1..(h + 2 + Len(body)) : raw[i] = IF i <= h + 2 THEN front[i] ELSE body[i - (h + 2)]
  <2>1. Len(body) \in Nat
    BY <1>1
  <2>2. /\ raw \in Seq(Words) /\ Len(raw) = Len(front) + Len(body)
        /\ \A i \in 1..(Len(front) + Len(body)) : raw[i] = IF i <= Len(front) THEN front[i] ELSE body[i - Len(front)]
    <3> DEFINE f == front
               o == body
    <3>1. f \in Seq(Words) /\ o \in Seq(Words)
      BY <1>1, <1>4
    <3>2. raw = f \o o /\ f = front /\ o = body
      OBVIOUS
    <3> HIDE DEF f, o, raw
    <3>3. /\ f \o o \in Seq(Words) /\ Len(f \o o) = Len(f) + Len(o)
          /\ \A i \in 1..(Len(f) + Len(o)) : (f \o o)[i] = IF i <= Len(f) THEN f[i] ELSE o[i - Len(f)]
      BY <3>1, ConcatProperties
    <3> QED BY <3>2, <3>3
  <2> QED BY <1>4, <2>1, <2>2
<1>h. h \in {1, 3} /\ h + 1 \in Int
  BY <1>3
<1> HIDE DEF h
<1>6. SubSeq(raw, h + 3, Len(raw)) = body
  <2>1. \A i \in (h + 3)..Len(raw) : raw[i] \in Words
    BY <1>h, <1>3, <1>5
  <2>2. /\ SubSeq(raw, h + 3, Len(raw)) \in Seq(Words)
        /\ Len(SubSeq(raw, h + 3, Len(raw))) = IF h + 3 <= Len(raw) THEN Len(raw) - (h + 3) + 1 ELSE 0
        /\ \A i \in 1..(Len(raw) - (h + 3) + 1) : SubSeq(raw, h + 3, Len(raw))[i] = raw[h + 3 + i - 1]
    BY <1>h, <1>3, <1>5, <2>1, SubSeqProperties, SMTT(30)
  <2>3. Len(SubSeq(raw, h + 3, Len(raw))) = Len(body)
    BY <1>h, <1>3, <1>5, <2>2
  <2>4. ASSUME NEW i \in 1..Len(body) PROVE SubSeq(raw, h + 3, Len(raw))[i] = body[i]
    BY <1>h, <1>3, <1>5, <2>2
  <2> QED BY <1>1, <2>2, <2>3, <2>4, SeqEqual
<1> HIDE DEF raw
<1> DEFINE E == {i \in DOMAIN raw : i < Len(raw) /\ raw[i] = "eol" /\ raw[i + 1] = "eol"}
<1>7. h + 1 \in E
  BY <1>h, <1>2, <1>3, <1>4, <1>5
<1>8. \A i \in E : h + 1 <= i
  <2> SUFFICES ASSUME NEW i \in E, i < h + 1 PROVE FALSE
    BY <1>h, <1>3, <1>5
  <2>1. i \in 1..h /\ raw[i] = heads[i] /\ raw[i] = "eol" /\ raw[i + 1] = "eol"
    BY <1>h, <1>3, <1>4, <1>5
  <2>2. i = 2 /\ h = 3
    <3>1. (h = 1 => i = 1) /\ (h = 3 => i \in {1, 2, 3})
      BY <2>1
    <3>2. heads[1] # "eol" /\ (h = 3 => heads[3] # "eol")
      BY <1>3
    <3>3. i # 1 /\ ~(h = 3 /\ i = 3)
      BY <2>1, <3>2
    <3> QED BY <1>h, <3>1, <3>3
  <2>3. raw[3] = heads[3]
    BY <1>h, <1>4, <1>5, <2>2
  <2> QED BY <1>h, <1>3, <2>1, <2>2, <2>3
<1>9. Min(E) = h + 1
  <2>1. E \subseteq Int
    BY <1>5
  <2> HIDE DEF E
  <2>2. h + 1 \in E /\ h + 1 \in Int /\ \A i \in E : h + 1 <= i
    BY <1>h, <1>3, <1>7, <1>8
  <2>3. Min(E) \in E /\ \A i \in E : Min(E) <= i
    BY <2>2 DEF Min
  <2>4. Min(E) \in Int /\ Min(E) <= h + 1 /\ h + 1 <= Min(E)
    BY <2>1, <2>2, <2>3
  <2> QED BY <1>h, <2>4
<1>10. (\E i \in 1..h : raw[i] = "status") <=> h # 1
  BY <1>h, <1>3, <1>4, <1>5
<1>11. CgiResponse(raw) = [status |-> IF \E i \in 1..(Min(E) - 1) : raw[i] = "status" THEN 404 ELSE 200,
                           body |-> SubSeq(raw, Min(E) + 2, Len(raw))]
  BY DEF CgiResponse
<1> HIDE DEF raw, E
<1>12. Min(E) - 1 = h /\ Min(E) + 2 = h + 3
  BY <1>h, <1>3, <1>9
<1>13. CgiResponse(raw).body = body /\ CgiResponse(raw).status = IF h = 1 THEN 200 ELSE 404
  <2> DEFINE status == IF \E i \in 1..(Min(E) - 1) : raw[i] = "status" THEN 404 ELSE 200
             rest == SubSeq(raw, Min(E) + 2, Len(raw))
  <2>1. rest = body
    BY <1>6, <1>12
  <2>2. status = IF h = 1 THEN 200 ELSE 404
    <3>1. (\E i \in 1..(Min(E) - 1) : raw[i] = "status") <=> h # 1
      BY <1>10, <1>12
    <3> QED BY <3>1
  <2>3. CgiResponse(raw) = [status |-> status, body |-> rest]
    BY <1>11
  <2> HIDE DEF status, rest
  <2>4. CgiResponse(raw).body = rest /\ CgiResponse(raw).status = status
    BY <2>3
  <2> QED BY <2>1, <2>2, <2>4
<1> QED BY <1>13 DEF raw, front, ends, h

LEMMA BackendKeeps ==
  ASSUME ArtifactsInv, BackendEnds PROVE ArtifactsInv'
<1>1. ArtifactsType /\ MakersType /\ RowsKept /\ OpenKept /\ PushesKept
  BY DEF ArtifactsInv
<1>2. UNCHANGED <<repoRow, repoDir, making, held, tokens, artNow>> /\ client.phase = "open"
  BY DEF BackendEnds
<1>3. /\ client'.phase = "answered" /\ client'.status = client'.sent
      /\ pushed' = pushed \/ (client.write /\ pushed' = pushed \cup {client.repo})
  <2>1. CASE client.repo \notin repoDir
    BY <2>1 DEF BackendEnds
  <2>2. CASE client.repo \in repoDir
    <3>1. PICK heads \in CgiHeads, body \in CgiBodies :
            LET response == CgiResponse(heads \o <<"eol", "eol">> \o body)
                sent == IF Len(heads) = 1 THEN 200 ELSE 404
            IN /\ client' = [phase |-> "answered", status |-> response.status,
                             sent |-> IF response.body = body THEN sent ELSE 0]
               /\ pushed' = IF client.write /\ sent = 200 THEN pushed \cup {client.repo} ELSE pushed
      BY <2>2 DEF BackendEnds
    <3> DEFINE response == CgiResponse(heads \o <<"eol", "eol">> \o body)
               sent == IF Len(heads) = 1 THEN 200 ELSE 404
    <3>2. response.body = body /\ response.status = sent
      BY CgiTrue
    <3>3. client' = [phase |-> "answered", status |-> response.status, sent |-> IF response.body = body THEN sent ELSE 0]
          /\ pushed' = IF client.write /\ sent = 200 THEN pushed \cup {client.repo} ELSE pushed
      BY <3>1
    <3> HIDE DEF response, sent
    <3>4. pushed' = pushed \/ (client.write /\ pushed' = pushed \cup {client.repo})
      BY <3>3
    <3>5. client'.phase = "answered" /\ client'.status = client'.sent
      BY <3>2, <3>3
    <3> QED BY <3>4, <3>5
  <2> QED BY <2>1, <2>2
<1>4. OpenKept' /\ ListKept'
  BY <1>3 DEF OpenKept, ListKept
<1>5. ArtifactsType' /\ MakersType'
  BY <1>1, <1>2 DEF ArtifactsType, MakersType, Taken
<1>6. RowsKept'
  BY <1>1, <1>2 DEF RowsKept, RepoDone, Repos
<1>7. PushesKept'
  <2>1. RepoDone(client.repo) /\ (client.write /\ client.repo \in Repos => ~repoRow[client.repo].readOnly)
    BY <1>1, <1>2 DEF OpenKept
  <2>2. ASSUME NEW id \in pushed' PROVE RepoDone(id) /\ (id \in Repos => ~repoRow[id].readOnly)
    BY <1>1, <1>3, <2>1, <2>2 DEF PushesKept
  <2>3. \A id : RepoDone(id) <=> RepoDone(id)'
    BY <1>2 DEF RepoDone
  <2> QED BY <1>2, <2>2, <2>3 DEF PushesKept, Repos
<1> QED BY <1>4, <1>5, <1>6, <1>7 DEF ArtifactsInv

LEMMA OtherClientsKeep ==
  ASSUME ArtifactsInv, ClientGone \/ TimePasses \/ (\E name \in Names : Get(name)) \/ UNCHANGED artifactVars PROVE ArtifactsInv'
<1>1. ArtifactsType /\ MakersType /\ RowsKept /\ OpenKept /\ PushesKept /\ ListKept
  BY DEF ArtifactsInv
<1>2. UNCHANGED <<repoRow, repoDir, making, tokens, pushed>> /\ artNow' \in Nat /\ artNow' >= artNow
  BY <1>1 DEF ClientGone, TimePasses, Get, artifactVars, ArtifactsType
<1>3. client' = client \/ client'.phase = "idle"
  BY DEF ClientGone, TimePasses, Get, artifactVars, NoClient
<1>4. OpenKept' /\ ListKept'
  <2>1. CASE client' = client
    BY <1>1, <1>2, <2>1, SameStay, ClientsStay DEF ListKept, Repos
  <2>2. CASE client'.phase = "idle"
    BY <2>2 DEF OpenKept, ListKept
  <2> QED BY <1>3, <2>1, <2>2
<1>5. ArtifactsType' /\ MakersType'
  BY <1>1, <1>2 DEF ArtifactsType, MakersType, Taken
<1>6. RowsKept' /\ PushesKept'
  BY <1>1, <1>2 DEF RowsKept, PushesKept, RepoDone, Repos
<1> QED BY <1>4, <1>5, <1>6 DEF ArtifactsInv

\* Rows in the order of a listing, those of the same time by their ids.
RankIn(rest, id) == Cardinality({o \in rest : Earlier(o, id)})

LEMMA RowTimes == ArtifactsInv => \A id \in Repos : id \in Nat /\ repoRow[id].at \in Nat
<1> SUFFICES ASSUME ArtifactsInv, NEW id \in Repos PROVE id \in Nat /\ repoRow[id].at \in Nat
  OBVIOUS
<1>1. id \in RepoIds /\ repoRow[id] \in RepoRows
  BY DEF ArtifactsInv, ArtifactsType, Repos
<1> QED BY <1>1 DEF RepoIds, RepoRows

LEMMA ReposFinite == IsFiniteSet(Repos)
<1>1. Cardinality(Makers) \in Nat
  BY ArtifactsAssumption, FS_CardinalityType
<1>2. IsFiniteSet(RepoIds)
  BY <1>1, FS_Interval DEF RepoIds
<1> QED BY <1>2, IdsAre, FS_Subset

\* Of two rows one comes first, and it has the lower rank.
LEMMA RanksIn ==
  ASSUME ArtifactsInv, NEW rest \in SUBSET Repos
  PROVE  /\ \A a \in rest : RankIn(rest, a) \in Nat \ {0}
         /\ \A a, b \in rest : a # b /\ Earlier(a, b) => RankIn(rest, a) < RankIn(rest, b)
         /\ \A a, b \in rest : Earlier(a, b) \/ Earlier(b, a)
<1>1. \A a \in rest : a \in Nat /\ repoRow[a].at \in Nat
  BY RowTimes
<1>2. IsFiniteSet(rest)
  BY ReposFinite, FS_Subset
<1>3. ASSUME NEW a \in rest PROVE RankIn(rest, a) \in Nat \ {0} /\ IsFiniteSet({o \in rest : Earlier(o, a)})
  <2>1. a \in {o \in rest : Earlier(o, a)}
    BY <1>1 DEF Earlier
  <2>2. IsFiniteSet({o \in rest : Earlier(o, a)})
    BY <1>2, FS_Subset
  <2> QED BY <2>1, <2>2, FS_CardinalityType, FS_EmptySet DEF RankIn
<1>4. ASSUME NEW a \in rest, NEW b \in rest, a # b, Earlier(a, b) PROVE RankIn(rest, a) < RankIn(rest, b)
  <2> DEFINE A == {o \in rest : Earlier(o, a)}
             B == {o \in rest : Earlier(o, b)}
  <2>1. A \subseteq B
    BY <1>1, <1>4 DEF Earlier
  <2>2. b \in B /\ b \notin A
    BY <1>1, <1>4 DEF Earlier
  <2>3. IsFiniteSet(B) /\ Cardinality(A) = RankIn(rest, a) /\ Cardinality(B) = RankIn(rest, b)
    BY <1>3 DEF RankIn
  <2> HIDE DEF A, B
  <2>4. Cardinality(A) <= Cardinality(B) /\ Cardinality(A) # Cardinality(B)
    BY <2>1, <2>2, <2>3, FS_Subset
  <2>5. RankIn(rest, a) \in Nat /\ RankIn(rest, b) \in Nat
    BY <1>3
  <2>6. RankIn(rest, a) <= RankIn(rest, b) /\ RankIn(rest, a) # RankIn(rest, b)
    BY <2>3, <2>4
  <2> QED BY <2>5, <2>6
<1>5. \A a, b \in rest : Earlier(a, b) \/ Earlier(b, a)
  BY <1>1 DEF Earlier
<1> QED BY <1>3, <1>4, <1>5

\* What is behind a page comes no earlier than the row after it, and there is one.
LEMMA NextRow ==
  ASSUME ArtifactsInv, NEW rest \in SUBSET Repos, NEW a \in rest, RankIn(rest, a) > PageLimit
  PROVE  \E next \in rest : RankIn(rest, next) = PageLimit + 1
<1> DEFINE late == {b \in rest : RankIn(rest, b) > PageLimit}
           page == {b \in rest : RankIn(rest, b) <= PageLimit}
<1>1. PICK m \in late : \A b \in late : RankIn(rest, m) <= RankIn(rest, b)
  <2> DEFINE T == {RankIn(rest, b) : b \in late}
  <2>1. T \subseteq Nat /\ T # {}
    BY RanksIn
  <2>2. PICK n \in T : \A k \in T : n <= k
    BY <2>1, LeastNumber
  <2> QED BY <2>2
<1>2. \A b \in rest : Earlier(b, m) => b = m \/ b \in page
  BY <1>1, RanksIn, ArtifactsAssumption
<1>3. IsFiniteSet(page) /\ Cardinality(page) \in Nat /\ Cardinality(page) <= PageLimit
  <2>1. IsFiniteSet(rest)
    BY ReposFinite, FS_Subset
  <2>2. IsFiniteSet(page)
    BY <2>1, FS_Subset
  <2> DEFINE f == [b \in page |-> RankIn(rest, b)]
  <2>3. f \in Injection(page, 1..PageLimit)
    <3>1. \A b \in page : f[b] \in 1..PageLimit
      BY RanksIn, ArtifactsAssumption
    <3>2. ASSUME NEW b \in page, NEW c \in page, f[b] = f[c], b # c PROVE FALSE
      <4>1. RankIn(rest, b) = RankIn(rest, c) /\ RankIn(rest, b) \in Nat
        BY <3>2, RanksIn
      <4>2. RankIn(rest, b) < RankIn(rest, c) \/ RankIn(rest, c) < RankIn(rest, b)
        BY <3>2, RanksIn
      <4> QED BY <4>1, <4>2
    <3> QED BY <3>1, <3>2 DEF Injection, IsInjective
  <2>4. IsFiniteSet(1..PageLimit) /\ Cardinality(1..PageLimit) = PageLimit
    BY ArtifactsAssumption, FS_Interval
  <2> HIDE DEF page, f
  <2> QED BY <2>2, <2>3, <2>4, FS_Injection, FS_CardinalityType
<1>4. RankIn(rest, m) <= Cardinality(page) + 1
  <2> HIDE DEF page
  <2>1. {o \in rest : Earlier(o, m)} \subseteq page \cup {m}
    BY <1>2
  <2>2. IsFiniteSet(page \cup {m}) /\ Cardinality(page \cup {m}) <= Cardinality(page) + 1 /\ Cardinality(page \cup {m}) \in Nat
    BY <1>3, FS_AddElement, FS_CardinalityType
  <2>3. RankIn(rest, m) <= Cardinality(page \cup {m})
    BY <2>1, <2>2, FS_Subset DEF RankIn
  <2>4. RankIn(rest, m) \in Nat
    BY <1>1, RanksIn
  <2> QED BY <1>3, <2>2, <2>3, <2>4
<1>5. RankIn(rest, m) = PageLimit + 1
  <2>1. RankIn(rest, m) \in Nat /\ RankIn(rest, m) > PageLimit
    BY <1>1, RanksIn
  <2> HIDE DEF page, late
  <2> QED BY <1>3, <1>4, <2>1, ArtifactsAssumption
<1> QED BY <1>1, <1>5

LEMMA ListKeeps ==
  ASSUME ArtifactsInv, List PROVE ArtifactsInv'
<1> DEFINE first == client.phase = "idle"
           rest == Page(IF first THEN 0 ELSE client.cursor)
           page == {id \in rest : RankIn(rest, id) <= PageLimit}
           next == {id \in rest : RankIn(rest, id) = PageLimit + 1}
           missed == (IF first THEN Repos ELSE client.missed) \ page
<1>1. /\ client.phase \in {"idle", "paging"} /\ UNCHANGED <<repoRow, repoDir, making, held, tokens, artNow, pushed>>
      /\ client' = IF next = {} THEN [phase |-> "listed", missed |-> missed]
                   ELSE [phase |-> "paging", missed |-> missed, cursor |-> repoRow[CHOOSE id \in next : TRUE].at]
  BY DEF List, RankIn
<1>2. (IF first THEN Repos ELSE client.missed) \subseteq rest /\ rest \subseteq Repos
  BY <1>1, RowTimes DEF ArtifactsInv, ListKept, Page
<1> HIDE DEF first, rest
<1>3. \A id \in missed : id \in rest /\ RankIn(rest, id) > PageLimit
  BY <1>2, RanksIn, ArtifactsAssumption
<1>4. CASE next = {}
  <2>1. client'.phase = "listed" /\ client'.missed = missed
    BY <1>1, <1>4
  <2>2. missed = {}
    <3> SUFFICES ASSUME NEW id \in missed PROVE FALSE
      OBVIOUS
    <3>1. \E k \in rest : RankIn(rest, k) = PageLimit + 1
      BY <1>2, <1>3, NextRow
    <3> QED BY <1>4, <3>1
  <2>3. OpenKept' /\ ListKept'
    BY <2>1, <2>2 DEF OpenKept, ListKept
  <2> QED BY <1>1, <2>3, ClientMoves
<1>5. CASE next # {}
  <2> DEFINE n == CHOOSE id \in next : TRUE
  <2>1. n \in rest /\ RankIn(rest, n) = PageLimit + 1
    BY <1>5
  <2> HIDE DEF n
  <2>2. client'.phase = "paging" /\ client'.missed = missed /\ client'.cursor = repoRow[n].at
    BY <1>1, <1>5 DEF n
  <2>3. ASSUME NEW id \in missed PROVE id \in Repos /\ repoRow[id].at >= repoRow[n].at
    <3>1. id \in rest /\ id \in Repos /\ n \in Repos /\ RankIn(rest, id) > PageLimit /\ RankIn(rest, id) \in Nat
      BY <1>2, <1>3, <2>1, RanksIn
    <3>2. id = n \/ Earlier(n, id)
      BY <1>2, <2>1, <3>1, RanksIn, ArtifactsAssumption
    <3> QED BY <3>1, <3>2, RowTimes DEF Earlier
  <2>4. repoRow[n].at \in Nat
    BY <1>2, <2>1, RowTimes
  <2> HIDE DEF missed
  <2>5. OpenKept' /\ ListKept'
    BY <1>1, <2>2, <2>3, <2>4 DEF OpenKept, ListKept, Repos
  <2> QED BY <1>1, <2>5, ClientMoves
<1> QED BY <1>4, <1>5

LEMMA ArtifactsStart == ArtifactsInit => ArtifactsInv
<1> SUFFICES ASSUME ArtifactsInit PROVE ArtifactsInv
  OBVIOUS
<1>1. Repos = {}
  BY DEF ArtifactsInit, Repos
<1>2. ArtifactsType
  BY DEF ArtifactsInit, ArtifactsType
<1>3. MakersType
  <2>1. \A m \in Makers : making[m].phase = "idle" /\ making[m].id = 0
    BY DEF ArtifactsInit, NotMaking
  <2>2. making = [m \in Makers |-> making[m]]
    BY DEF ArtifactsInit
  <2>3. 0 <= Cardinality(Taken)
    BY TakenFinite
  <2> QED BY <2>1, <2>2, <2>3 DEF MakersType
<1>4. RowsKept /\ PushesKept
  <2>1. \A m \in Makers : making[m].phase = "idle"
    BY DEF ArtifactsInit, NotMaking
  <2> QED BY <1>1, <2>1 DEF ArtifactsInit, RowsKept, PushesKept
<1>5. OpenKept /\ ListKept
  BY DEF ArtifactsInit, NoClient, OpenKept, ListKept
<1> QED BY <1>2, <1>3, <1>4, <1>5 DEF ArtifactsInv

\* The invariant of repositories, tokens and their clients.
LEMMA ArtifactsAlways == ArtifactsSpec => []ArtifactsInv
<1>1. ArtifactsInv /\ [ArtifactsNext]_artifactVars => ArtifactsInv'
  <2> SUFFICES ASSUME ArtifactsInv, [ArtifactsNext]_artifactVars PROVE ArtifactsInv'
    OBVIOUS
  <2>1. ASSUME NEW m \in Makers, NEW name \in Names, CreateRepo(m, name) \/ Import(m, name) \/ Fork(m, name) PROVE ArtifactsInv'
    BY <2>1, BeginKeeps DEF CreateRepo, Import, Fork
  <2>2. ASSUME NEW m \in Makers, GitFails(m) \/ GitSucceeds(m) PROVE ArtifactsInv'
    BY <2>2, GitFailsKeeps, GitSucceedsKeeps
  <2>3. ASSUME NEW name \in Names, DeleteRepo(name) PROVE ArtifactsInv'
    BY <2>3, RepoDeleteKeeps
  <2>4. ASSUME NEW id \in RepoIds, NEW scope \in {"read", "write"}, NEW ttl \in {0, 1}, CreateToken(id, scope, ttl) PROVE ArtifactsInv'
    BY <2>4, CreateTokenKeeps
  <2>5. ASSUME NEW id \in RepoIds, NEW t \in 1..MaxTokens, RevokeToken(id, t) PROVE ArtifactsInv'
    BY <2>5, RevokeTokenKeeps
  <2>6. ASSUME NEW id \in RepoIds, NEW t \in 1..MaxTokens, NEW write \in BOOLEAN, GitAsks(id, t, write) PROVE ArtifactsInv'
    BY <2>6, GitAsksKeeps
  <2>7. ASSUME List \/ BackendEnds PROVE ArtifactsInv'
    BY <2>7, ListKeeps, BackendKeeps
  <2>8. ASSUME ClientGone \/ TimePasses \/ (\E name \in Names : Get(name)) \/ UNCHANGED artifactVars PROVE ArtifactsInv'
    BY <2>8, OtherClientsKeep
  <2> QED BY <2>1, <2>2, <2>3, <2>4, <2>5, <2>6, <2>7, <2>8 DEF ArtifactsNext
<1> QED BY <1>1, ArtifactsStart, PTL DEF ArtifactsSpec

\* However calls with one name overlap, a name has one row and a row its directory; a listing
\* that ends has shown every repository that was there all the time; git is opened with a
\* token of that repository which was in force, and what it prints is what is answered
\* (create, _forkRepo, list, authenticate, parseCgiResponse), for any calls, names and tokens.
THEOREM ArtifactsKeptAlways == ArtifactsSpec => []ArtifactsKept
<1>1. ArtifactsInv => ArtifactsKept
  <2> SUFFICES ASSUME ArtifactsInv PROVE ArtifactsKept
    OBVIOUS
  <2>1. RowsKept /\ OpenKept /\ PushesKept /\ ListKept
    BY DEF ArtifactsInv
  <2> QED BY <2>1 DEF RowsKept, OpenKept, PushesKept, ListKept, ArtifactsKept
<1> QED BY <1>1, ArtifactsAlways, PTL

-----------------------------------------------------------------------------
(* Keys of KV and of the cache (KeyStore).                                   *)

\* A row that somebody is about to delete has expired or was put anew, and a listing under
\* way has seen what is behind its cursor and counts on nothing that is not there.
PurgesOld == \A k \in purging : k \in overtaken \/ entry[k] = Missing \/ Expired(k)
PagesShown ==
  ~listing.done =>
    /\ \A k \in listing.seen : k <= listing.cursor
    /\ listing.steady \subseteq Prefixed /\ \A k \in listing.steady : entry[k] # Missing
    /\ \A k \in listing.steady : k <= listing.cursor => k \in listing.seen
KeyInv == KeyType /\ PurgesOld /\ PagesShown /\ KeysKept

LEMMA KeysAre ==
  /\ KvKeys \subseteq Nat \ {0} /\ KvKeys \subseteq KeyRows /\ Url \in KeyRows /\ Url \notin KvKeys
  /\ IsFiniteSet(KvKeys) /\ Prefixed \subseteq KvKeys /\ MaxTime \in Nat \ {0} /\ PageSize \in Nat \ {0}
<1>1. Cardinality(KvKeys) \in Nat
  BY KeyAssumption, FS_CardinalityType
<1>2. KvKeys \subseteq Nat \ {0}
  BY <1>1, KeyAssumption
<1> QED BY <1>2, KeyAssumption DEF KeyRows, Url

LEMMA KeysStart == KeyInit => KeyInv
BY KeysAre DEF KeyInit, KeyInv, KeyType, PurgesOld, PagesShown, KeysKept, NoListing, Missing, Never

\* A row is written.
LEMMA StoresKeep ==
  ASSUME KeyInv, NEW k \in KeyRows, NEW expiration \in Missing..Never, Stores(k, expiration), UNCHANGED <<now, purging>>,
         storing' \in Missing..Never
  PROVE  KeyInv'
<1>1. KeyType /\ PurgesOld /\ PagesShown /\ KeysKept
  BY DEF KeyInv
<1>2. entry' = [entry EXCEPT ![k] = expiration] /\ lost' = lost \ {k}
      /\ overtaken' = IF k \in purging THEN overtaken \cup {k} ELSE overtaken \ {k}
  BY DEF Stores
<1>3. entry'[k] = expiration /\ \A j \in KeyRows \ {k} : entry'[j] = entry[j]
  BY <1>1, <1>2 DEF KeyType
<1>4. /\ listing'.cursor = listing.cursor /\ listing'.seen = listing.seen /\ listing'.done = listing.done
      /\ listing'.again = listing.again /\ listing'.steady \subseteq listing.steady
      /\ expiration = Missing => k \notin listing'.steady
  <2>1. CASE expiration = Missing
    <3>1. listing' = [listing EXCEPT !.steady = @ \ {k}]
      BY <2>1 DEF Stores
    <3> QED BY <1>1, <3>1 DEF KeyType
  <2>2. CASE expiration # Missing
    BY <2>2 DEF Stores
  <2> QED BY <2>1, <2>2
<1>5. KeyType'
  <2>1. listing' \in [cursor : KvKeys \cup {0}, seen : SUBSET KvKeys, steady : SUBSET KvKeys, again : BOOLEAN, done : BOOLEAN]
    <3>1. listing' = listing \/ listing' = [listing EXCEPT !.steady = @ \ {k}]
      BY DEF Stores
    <3> QED BY <1>1, <3>1 DEF KeyType
  <2> QED BY <1>1, <1>2, <2>1 DEF KeyType
<1>6. PurgesOld'
  <2> SUFFICES ASSUME NEW j \in purging, j \notin overtaken' PROVE entry'[j] = Missing \/ Expired(j)'
    BY DEF PurgesOld
  <2>1. j # k /\ j \notin overtaken /\ j \in KeyRows
    BY <1>1, <1>2 DEF KeyType
  <2> QED BY <1>1, <1>3, <2>1 DEF PurgesOld, Expired
<1>7. PagesShown' /\ KeysKept'
  <2>1. ~listing.done => \A j \in listing'.steady : entry'[j] # Missing
    BY <1>1, <1>3, <1>4, KeysAre DEF PagesShown
  <2> QED BY <1>1, <1>2, <1>4, <2>1 DEF PagesShown, KeysKept
<1> QED BY <1>5, <1>6, <1>7 DEF KeyInv

\* The clock, and whoever reads.
LEMMA ReadersKeep ==
  ASSUME KeyInv,
         KeyTick \/ (\E k \in KeyRows : ReadExpired(k)) \/ (\E e \in {now, now + 1, Never} : CachePutStarts(e)) \/ ListingStarts
           \/ UNCHANGED keyVars
  PROVE  KeyInv'
<1>1. KeyType /\ PurgesOld /\ PagesShown /\ KeysKept /\ now \in Nat /\ now <= MaxTime
  BY KeysAre DEF KeyInv, KeyType
<1>2. CASE KeyTick
  <2>1. \A k \in purging : Expired(k) => Expired(k)'
    <3> SUFFICES ASSUME NEW k \in purging, Expired(k) PROVE Expired(k)'
      OBVIOUS
    <3>1. entry[k] \in Int
      BY <1>1, KeysAre DEF KeyType, Missing, Never
    <3> QED BY <1>1, <1>2, <3>1 DEF KeyTick, Expired
  <2> QED BY <1>1, <1>2, <2>1, KeysAre DEF KeyTick, KeyInv, KeyType, PurgesOld, PagesShown, KeysKept
<1>3. ASSUME NEW k \in KeyRows, ReadExpired(k) PROVE KeyInv'
  BY <1>1, <1>3 DEF ReadExpired, KeyInv, KeyType, PurgesOld, PagesShown, KeysKept, Expired
<1>4. ASSUME NEW e \in {now, now + 1, Never}, CachePutStarts(e) PROVE KeyInv'
  <2>1. e \in Missing..Never
    BY <1>1, KeysAre DEF Missing, Never
  <2> QED BY <1>1, <1>4, <2>1 DEF CachePutStarts, KeyInv, KeyType, PurgesOld, PagesShown, KeysKept, Expired
<1>5. CASE ListingStarts
  <2>1. /\ listing'.cursor = 0 /\ listing'.seen = {} /\ listing'.again = FALSE /\ listing'.done = FALSE
        /\ listing'.steady = {k \in Prefixed : entry[k] # Missing}
        /\ listing' \in [cursor : KvKeys \cup {0}, seen : SUBSET KvKeys, steady : SUBSET KvKeys, again : BOOLEAN, done : BOOLEAN]
    BY <1>5, KeysAre DEF ListingStarts, NoListing
  <2>2. UNCHANGED <<now, entry, purging, storing, lost, overtaken>>
    BY <1>5 DEF ListingStarts
  <2>3. \A k \in Prefixed : ~(k <= 0)
    BY KeysAre
  <2>4. PagesShown' /\ KeysKept'
    BY <1>1, <2>1, <2>2, <2>3 DEF PagesShown, KeysKept
  <2> QED BY <1>1, <2>1, <2>2, <2>4 DEF KeyInv, KeyType, PurgesOld, Expired
<1>6. CASE UNCHANGED keyVars
  BY <1>1, <1>6 DEF keyVars, KeyInv, KeyType, PurgesOld, PagesShown, KeysKept, Expired
<1> QED BY <1>2, <1>3, <1>4, <1>5, <1>6

LEMMA PurgeKeeps ==
  ASSUME KeyInv, NEW k \in KeyRows, Purge(k) PROVE KeyInv'
<1>1. KeyType /\ PurgesOld /\ PagesShown /\ KeysKept
  BY DEF KeyInv
<1>2. /\ k \in purging /\ purging' = purging \ {k} /\ entry' = [entry EXCEPT ![k] = Missing]
      /\ lost' = IF entry[k] = Missing \/ Expired(k) THEN lost ELSE lost \cup {k}
      /\ listing' = [listing EXCEPT !.steady = @ \ {k}] /\ UNCHANGED <<now, storing, overtaken>>
  BY DEF Purge
<1>3. entry'[k] = Missing /\ \A j \in KeyRows \ {k} : entry'[j] = entry[j]
  BY <1>1, <1>2 DEF KeyType
<1>4. /\ listing'.cursor = listing.cursor /\ listing'.seen = listing.seen /\ listing'.done = listing.done
      /\ listing'.again = listing.again /\ listing'.steady = listing.steady \ {k}
      /\ listing' \in [cursor : KvKeys \cup {0}, seen : SUBSET KvKeys, steady : SUBSET KvKeys, again : BOOLEAN, done : BOOLEAN]
  BY <1>1, <1>2 DEF KeyType
<1>5. lost' \subseteq overtaken
  BY <1>1, <1>2 DEF PurgesOld, KeysKept
<1>6. KeyType'
  <2>1. entry' \in [KeyRows -> Missing..Never]
    BY <1>1, <1>2, KeysAre DEF KeyType, Missing, Never
  <2> QED BY <1>1, <1>2, <1>4, <2>1 DEF KeyType
<1>7. PurgesOld'
  BY <1>1, <1>2, <1>3 DEF PurgesOld, KeyType, Expired
<1>8. PagesShown' /\ KeysKept'
  <2>1. ~listing.done => \A j \in listing'.steady : entry'[j] # Missing
    BY <1>1, <1>3, <1>4, KeysAre DEF PagesShown
  <2> QED BY <1>1, <1>2, <1>4, <1>5, <2>1 DEF PagesShown, KeysKept
<1> QED BY <1>6, <1>7, <1>8 DEF KeyInv

\* The first n of a set of keys: not empty, below all others, and all if there are no more.
LEMMA FirstOf ==
  ASSUME NEW S \in SUBSET KvKeys, S # {}
  PROVE  /\ First(PageSize, S) # {} /\ First(PageSize, S) \subseteq S
         /\ Greatest(First(PageSize, S)) \in First(PageSize, S)
         /\ \A j \in First(PageSize, S) : j <= Greatest(First(PageSize, S))
         /\ \A j \in S : j <= Greatest(First(PageSize, S)) => j \in First(PageSize, S)
         /\ Cardinality(S) <= PageSize => First(PageSize, S) = S
<1> DEFINE F == First(PageSize, S)
           Below(k) == {j \in S : j < k}
<1>1. S \subseteq Nat /\ IsFiniteSet(S) /\ PageSize \in Nat \ {0} /\ Cardinality(S) \in Nat
  BY KeysAre, FS_Subset, FS_CardinalityType
<1>2. \A k \in S : IsFiniteSet(Below(k)) /\ Cardinality(Below(k)) \in Nat
  BY <1>1, FS_Subset, FS_CardinalityType
<1>3. F = {k \in S : Cardinality(Below(k)) < PageSize}
  BY DEF First
<1>4. F # {}
  <2>1. PICK m \in S : \A k \in S : m <= k
    BY <1>1, LeastNumber
  <2>2. Below(m) = {}
    <3> SUFFICES ASSUME NEW k \in S, k < m PROVE FALSE
      OBVIOUS
    <3>1. k \in Nat /\ m \in Nat /\ m <= k
      BY <1>1, <2>1
    <3> QED BY <3>1
  <2>3. Cardinality(Below(m)) = 0
    BY <2>2, FS_EmptySet
  <2> QED BY <1>1, <1>3, <2>3
<1>5. ASSUME NEW j \in S, NEW k \in F, j <= k PROVE j \in F
  <2>1. Below(j) \subseteq Below(k)
    <3> SUFFICES ASSUME NEW i \in S, i < j PROVE i < k
      OBVIOUS
    <3>1. i \in Nat /\ j \in Nat /\ k \in Nat
      BY <1>1, <1>3
    <3> QED BY <1>5, <3>1
  <2>2. Cardinality(Below(j)) <= Cardinality(Below(k))
    BY <1>2, <1>3, <2>1, FS_Subset
  <2>3. Cardinality(Below(j)) \in Nat /\ Cardinality(Below(k)) \in Nat /\ Cardinality(Below(k)) < PageSize
    BY <1>2, <1>3
  <2> QED BY <1>1, <1>3, <2>2, <2>3
<1>6. \E k \in F : \A j \in F : j <= k
  <2> DEFINE n == Cardinality(KvKeys)
             T == {n - k : k \in F}
  <2>1. n \in Nat /\ \A k \in F : k \in Nat /\ k <= n
    <3>1. n \in Nat
      BY KeyAssumption, FS_CardinalityType
    <3>2. KvKeys = 1..n
      BY KeyAssumption
    <3> HIDE DEF n, F
    <3>3. F \subseteq KvKeys
      BY <1>3
    <3> QED BY <3>1, <3>2, <3>3
  <2>2. T \subseteq Nat /\ T # {}
    BY <1>4, <2>1
  <2>3. PICK t \in T : \A o \in T : t <= o
    BY <2>2, LeastNumber
  <2>4. PICK k \in F : t = n - k
    BY <2>3
  <2> HIDE DEF n, F
  <2>5. ASSUME NEW j \in F PROVE j <= k
    BY <2>1, <2>3, <2>4
  <2> QED BY <2>5
<1>7. Greatest(F) \in F /\ \A j \in F : j <= Greatest(F)
  <2> HIDE DEF F
  <2> QED BY <1>6 DEF Greatest
<1>8. ASSUME Cardinality(S) <= PageSize PROVE F = S
  <2> SUFFICES ASSUME NEW k \in S PROVE Cardinality(Below(k)) < PageSize
    BY <1>3
  <2>1. Below(k) \subseteq S /\ k \notin Below(k)
    BY <1>1
  <2>2. Cardinality(Below(k)) <= Cardinality(S) /\ Cardinality(Below(k)) # Cardinality(S)
    BY <1>1, <2>1, FS_Subset
  <2> HIDE DEF Below
  <2> QED BY <1>1, <1>2, <1>8, <2>2
<1>9. F \subseteq S
  BY <1>3
<1> HIDE DEF F
<1>10. \A j \in S : j <= Greatest(F) => j \in F
  BY <1>5, <1>7
<1> QED BY <1>4, <1>7, <1>8, <1>9, <1>10 DEF F

LEMMA PageKeeps ==
  ASSUME KeyInv, ListingPage PROVE KeyInv'
<1>1. KeyType /\ PurgesOld /\ PagesShown /\ KeysKept
  BY DEF KeyInv
<1> DEFINE swept == [k \in KeyRows |-> IF k # Url /\ Expired(k) THEN Missing ELSE entry[k]]
           rest == Selected(swept)
           page == First(PageSize, rest)
<1>2. /\ ~listing.done /\ entry' = swept /\ UNCHANGED <<now, purging, storing, overtaken>>
      /\ listing' = [cursor |-> IF page = {} THEN 0 ELSE Greatest(page), seen |-> listing.seen \cup page,
                     steady |-> {k \in listing.steady : swept[k] # Missing},
                     again |-> listing.again \/ page \cap listing.seen # {},
                     done |-> Cardinality(Selected(swept)) <= PageSize]
      /\ lost' = lost \cup {k \in KeyRows : swept[k] # entry[k] /\ ~Expired(k)}
  BY DEF ListingPage
<1>3. \A k \in KeyRows : swept[k] = entry[k] \/ (swept[k] = Missing /\ Expired(k))
  OBVIOUS
<1>4. swept \in [KeyRows -> Missing..Never] /\ lost' = lost
  BY <1>1, <1>2, <1>3, KeysAre DEF KeyType, Missing, Never
<1>5. rest = {k \in Prefixed : swept[k] # Missing /\ k > listing.cursor} /\ rest \subseteq KvKeys
  BY KeysAre DEF Selected
<1> HIDE DEF swept, rest
<1>6. page \subseteq rest
  BY DEF First
<1>7. listing.cursor \in Nat /\ listing.seen \subseteq KvKeys /\ listing.steady \subseteq KvKeys
  <2>1. listing.cursor \in KvKeys \cup {0} /\ listing.seen \subseteq KvKeys /\ listing.steady \subseteq KvKeys
    BY <1>1 DEF KeyType
  <2> DEFINE c == listing.cursor
  <2>2. c \in KvKeys \cup {0}
    BY <2>1
  <2> HIDE DEF c
  <2>3. c \in Nat
    BY <2>2, KeysAre
  <2> QED BY <2>1, <2>3 DEF c
<1>8. page \cap listing.seen = {}
  <2> SUFFICES ASSUME NEW k \in page, k \in listing.seen PROVE FALSE
    OBVIOUS
  <2> HIDE DEF page
  <2>1. k > listing.cursor /\ k <= listing.cursor /\ k \in Nat
    BY <1>1, <1>2, <1>5, <1>6, KeysAre DEF PagesShown
  <2> QED BY <1>7, <2>1
<1>9. PurgesOld'
  <2> SUFFICES ASSUME NEW k \in purging, k \notin overtaken PROVE swept[k] = Missing \/ Expired(k)'
    BY <1>2 DEF PurgesOld
  <2>1. k \in KeyRows /\ (entry[k] = Missing \/ Expired(k))
    BY <1>1 DEF PurgesOld, KeyType
  <2>2. CASE swept[k] = entry[k]
    BY <1>2, <2>1, <2>2 DEF Expired
  <2> QED BY <1>3, <2>1, <2>2
<1>10. CASE rest = {}
  <2>1. page = {} /\ Cardinality(rest) = 0
    BY <1>6, <1>10, FS_EmptySet
  <2>2. /\ listing'.cursor = 0 /\ listing'.seen = listing.seen /\ listing'.done = TRUE
        /\ listing'.steady = {k \in listing.steady : swept[k] # Missing} /\ listing'.again = listing.again
        /\ listing' \in [cursor : KvKeys \cup {0}, seen : SUBSET KvKeys, steady : SUBSET KvKeys, again : BOOLEAN, done : BOOLEAN]
    <3>1. Cardinality(Selected(swept)) <= PageSize
      BY <2>1, KeysAre DEF rest
    <3> HIDE DEF page
    <3>2. listing' = [cursor |-> 0, seen |-> listing.seen, steady |-> {k \in listing.steady : swept[k] # Missing},
                      again |-> listing.again, done |-> TRUE]
      BY <1>1, <1>2, <2>1, <3>1 DEF KeyType
    <3> QED BY <1>1, <1>7, <3>2 DEF KeyType
  <2>3. listing'.steady \subseteq listing.seen
    <3> SUFFICES ASSUME NEW k \in listing.steady, swept[k] # Missing PROVE k \in listing.seen
      BY <2>2
    <3>1. k \in Prefixed /\ k \in Nat
      BY <1>1, <1>2, <1>7, KeysAre DEF PagesShown
    <3>2. k <= listing.cursor
      BY <1>5, <1>7, <1>10, <3>1
    <3> QED BY <1>1, <1>2, <3>2 DEF PagesShown
  <2>4. PagesShown' /\ KeysKept' /\ KeyType'
    BY <1>1, <1>2, <1>4, <2>2, <2>3 DEF PagesShown, KeysKept, KeyType
  <2> QED BY <1>9, <2>4 DEF KeyInv
<1>11. CASE rest # {}
  <2>1. /\ page # {} /\ Greatest(page) \in page /\ \A j \in page : j <= Greatest(page)
        /\ \A j \in rest : j <= Greatest(page) => j \in page
        /\ Cardinality(rest) <= PageSize => page = rest
    BY <1>5, <1>11, FirstOf
  <2> DEFINE g == Greatest(page)
  <2>2. /\ listing'.cursor = g /\ listing'.seen = listing.seen \cup page
        /\ listing'.done = (Cardinality(rest) <= PageSize)
        /\ listing'.steady = {k \in listing.steady : swept[k] # Missing} /\ listing'.again = listing.again
        /\ listing' \in [cursor : KvKeys \cup {0}, seen : SUBSET KvKeys, steady : SUBSET KvKeys, again : BOOLEAN, done : BOOLEAN]
    <3> DEFINE over == Cardinality(rest) <= PageSize
    <3>0. over \in BOOLEAN
      OBVIOUS
    <3>1. listing' = [cursor |-> g, seen |-> listing.seen \cup page, steady |-> {k \in listing.steady : swept[k] # Missing},
                      again |-> listing.again, done |-> over]
      BY <1>1, <1>2, <1>8, <2>1 DEF KeyType, rest
    <3> HIDE DEF over, page, g
    <3>2. g \in KvKeys /\ page \subseteq KvKeys
      BY <1>5, <1>6, <2>1 DEF g
    <3>3. /\ listing'.cursor = g /\ listing'.seen = listing.seen \cup page /\ listing'.done = over
          /\ listing'.steady = {k \in listing.steady : swept[k] # Missing} /\ listing'.again = listing.again
      BY <3>1
    <3>4. listing' \in [cursor : KvKeys \cup {0}, seen : SUBSET KvKeys, steady : SUBSET KvKeys, again : BOOLEAN, done : BOOLEAN]
      BY <1>1, <1>7, <3>0, <3>1, <3>2 DEF KeyType
    <3> QED BY <3>3, <3>4 DEF over
  <2> HIDE DEF page, g
  <2>3. g \in page /\ g \in rest /\ g \in Nat /\ g > listing.cursor /\ \A k \in page : k \in Nat /\ k <= g
    BY <1>5, <1>6, <2>1, KeysAre DEF g
  <2>4. \A k \in listing'.seen : k <= g
    <3> SUFFICES ASSUME NEW k \in listing.seen PROVE k <= g
      BY <2>2, <2>3
    <3>1. k <= listing.cursor /\ k \in Nat
      BY <1>1, <1>2, <1>7, KeysAre DEF PagesShown
    <3> QED BY <1>7, <2>3, <3>1
  <2>5. ASSUME NEW k \in listing'.steady
        PROVE  k \in Prefixed /\ swept[k] # Missing /\ (k \in listing.seen \/ k \in rest)
    <3>1. k \in listing.steady /\ swept[k] # Missing
      BY <2>2
    <3>2. k \in Prefixed /\ k \in Nat /\ (k <= listing.cursor => k \in listing.seen)
      BY <1>1, <1>2, <3>1, KeysAre DEF PagesShown
    <3> QED BY <1>5, <1>7, <3>1, <3>2
  <2>6. \A k \in listing'.steady : k <= g => k \in listing'.seen
    BY <2>1, <2>2, <2>5 DEF g
  <2>7. listing'.done => listing'.steady \subseteq listing'.seen
    BY <2>1, <2>2, <2>5
  <2>8. PagesShown'
    BY <1>2, <2>2, <2>4, <2>5, <2>6 DEF PagesShown
  <2>9. KeysKept'
    BY <1>1, <1>2, <1>4, <2>2, <2>7 DEF KeysKept
  <2>10. KeyType'
    BY <1>1, <1>2, <1>4, <2>2 DEF KeyType
  <2> QED BY <1>9, <2>8, <2>9, <2>10 DEF KeyInv
<1> QED BY <1>10, <1>11

\* A listing page by page shows every key that stays there meanwhile, and no key twice; a
\* value that was put is lost to no lazy deletion but one that had already seen the row
\* expired (kv.ts, cache.ts), for any keys, pages and times.
THEOREM KeysKeptAlways == KeySpec => []KeysKept
<1>1. KeyInv /\ [KeyNext]_keyVars => KeyInv'
  <2> SUFFICES ASSUME KeyInv, [KeyNext]_keyVars PROVE KeyInv'
    OBVIOUS
  <2>0. KeyType /\ now \in 0..MaxTime
    BY DEF KeyInv, KeyType
  <2>1. ASSUME NEW k \in KvKeys, KvDelete(k) PROVE KeyInv'
    BY <2>0, <2>1, KeysAre, StoresKeep DEF KvDelete, KeyType, Missing, Never
  <2>2. ASSUME NEW k \in KvKeys, NEW e \in {now + 1, Never}, KvPut(k, e) PROVE KeyInv'
    <3>1. e \in Missing..Never
      BY <2>0, KeysAre DEF Missing, Never
    <3> QED BY <2>0, <2>2, <3>1, KeysAre, StoresKeep DEF KvPut, KeyType
  <2>3. ASSUME NEW k \in KeyRows, Purge(k) PROVE KeyInv'
    BY <2>3, PurgeKeeps
  <2>4. CASE CachePutEnds
    <3>1. storing \in Missing..Never /\ storing' \in Missing..Never
      BY <2>0, <2>4, KeysAre DEF CachePutEnds, KeyType, Missing, Never
    <3> QED BY <2>4, <3>1, KeysAre, StoresKeep DEF CachePutEnds
  <2>5. CASE CacheDelete
    BY <2>0, <2>5, KeysAre, StoresKeep DEF CacheDelete, KeyType, Missing, Never
  <2>6. CASE ListingPage
    BY <2>6, PageKeeps
  <2>7. ASSUME KeyTick \/ (\E k \in KeyRows : ReadExpired(k)) \/ (\E e \in {now, now + 1, Never} : CachePutStarts(e)) \/ ListingStarts
                 \/ UNCHANGED keyVars
        PROVE KeyInv'
    BY <2>7, ReadersKeep
  <2> QED BY <2>1, <2>2, <2>3, <2>4, <2>5, <2>6, <2>7 DEF KeyNext
<1>2. KeyInv => KeysKept
  BY DEF KeyInv
<1> QED BY <1>1, <1>2, KeysStart, PTL DEF KeySpec

-----------------------------------------------------------------------------
(* Traces and their dashboards (Tracing).                                    *)

TracesType ==
  /\ posted \in Seq([op : {"insert", "flag", "end", "result"}, span : Spans, status : Statuses])
  /\ ~serving => posted = <<>> /\ spanStore.cached = {} /\ ~viewer.on
  /\ serving \in BOOLEAN /\ upsets \in Nat
  /\ spanStore \in [row : [Spans -> [status : Statuses, at : {"absent", "open", "over"}]], cached : SUBSET Spans, roots : Int]

\* What is under way about a span: first its insert, a flag with the end behind it, and
\* the end last, unless the thread was cut off; what it says is how the work ended.  A
\* result is about a root of main, which a rejection may have ended already.
EndComes(q, s, i) == \E j \in 1..Len(q) : j > i /\ q[j].span = s /\ q[j].op \in {"end", "result"}

MessageTrue(q, i, w, store, aw) ==
  LET m == q[i] IN
  /\ w[m.span] # "none"
  /\ m.op = "result" <=> IsRoot(m.span) /\ m.span[1] \notin aw
  /\ m.op = "insert" => /\ store.row[m.span].at = "absent" /\ m.span \notin store.cached
                        /\ \A j \in 1..Len(q) : j < i => q[j].span # m.span
                        /\ w[m.span] \in {"running", "cut"} \/ EndComes(q, m.span, i)
  /\ m.op = "flag" => w[m.span] = "cut" \/ (w[m.span] = "error" /\ EndComes(q, m.span, i))
  /\ m.op \in {"end", "result"} => /\ m.status \in {"ok", "error"}
                                   /\ \A j \in 1..Len(q) : j > i => q[j].span # m.span
  /\ m.op = "end" => w[m.span] = m.status
  /\ m.op = "result" => w[m.span] # "running" /\ (m.span \in store.cached => w[m.span] = m.status)
MessagesTrue == \A i \in 1..Len(posted) : MessageTrue(posted, i, work, spanStore, away)
TraceComes(s) == \E i \in 1..Len(posted) : posted[i].span = s /\ posted[i].op # "result"

\* A row that is open has work that goes on, was cut off or evicted, or an end on the way, and
\* can still be ended while it is cached; one that is over agrees with its work for good.
RowsTrue ==
  \A s \in Spans :
    LET row == spanStore.row[s] IN
    /\ work[s] = "none" => row = NoSpan /\ s \notin spanStore.cached
    /\ row.at = "over" => /\ work[s] # "running" /\ s \notin spanStore.cached /\ ~TraceComes(s)
                          /\ row.status = "ok" <=> work[s] = "ok"
                          /\ OnTheWay(s) => work[s] # "ok"
    /\ row.at = "open" => /\ work[s] \in {"running", "cut"} \/ s \in evicted \/ OnTheWay(s)
                          /\ s \in spanStore.cached \/ s \in evicted \/ work[s] = "cut"
                          /\ ~serving => work[s] = "cut"

CapHeld ==
  /\ spanStore.roots = Cardinality(RootTraces(spanStore))
  /\ spanStore.roots <= Cap

ViewerType ==
  /\ viewer \in [status : {"all", "error"}, on : BOOLEAN, missed : BOOLEAN, shows : [Traces -> Statuses \cup {"none"}],
                 buffer : Seq([op : {"start", "end"}, span : {Root(t) : t \in Traces}, status : Statuses])]
  /\ Len(viewer.buffer) <= MaxBuffer

\* What a dashboard shows, and will show when its buffer is flushed.
ShownTrue ==
  viewer.on /\ viewer.status = "all" /\ ~viewer.missed =>
    \A t \in Traces :
      /\ spanStore.row[Root(t)].at = "over" => Shown(viewer, t) = spanStore.row[Root(t)].status
      /\ spanStore.row[Root(t)].at = "open" => Shown(viewer, t) # "none"

TraceInv == TraceType /\ TracesType /\ MessagesTrue /\ RowsTrue /\ CapHeld /\ ViewerType /\ ShownTrue

LEMMA SpansAre ==
  /\ Traces \subseteq Nat /\ IsFiniteSet(Traces)
  /\ \A t \in Traces : Root(t) \in Spans /\ IsRoot(Root(t)) /\ Root(t)[1] = t
  /\ \A t \in Parents : Child(t) \in Spans /\ ~IsRoot(Child(t)) /\ Child(t)[1] = t /\ t \in Traces
  /\ \A s \in Spans : s[1] \in Traces /\ (IsRoot(s) => s = Root(s[1]))
<1>1. Traces \subseteq Nat
  BY TraceAssumption, FS_CardinalityType
<1>2. \A t \in Traces : Root(t) \in Spans /\ IsRoot(Root(t)) /\ Root(t)[1] = t
  BY DEF Root, Spans, IsRoot
<1>3. \A t \in Parents : Child(t) \in Spans /\ ~IsRoot(Child(t)) /\ Child(t)[1] = t /\ t \in Traces
  BY TraceAssumption DEF Child, Spans, IsRoot
<1>4. \A s \in Spans : (\E t \in Traces : s = Root(t)) \/ (\E t \in Parents : s = Child(t))
  BY DEF Spans
<1> QED BY <1>1, <1>2, <1>3, <1>4, TraceAssumption

LEMMA TracesStart == TraceInit => TraceInv
<1> SUFFICES ASSUME TraceInit PROVE TraceInv
  OBVIOUS
<1>1. /\ \A s \in Spans : spanStore.row[s] = NoSpan
      /\ spanStore.cached = {} /\ spanStore.roots = 0
      /\ spanStore.row = [s \in Spans |-> NoSpan]
  BY DEF TraceInit
<1>2. TraceType
  BY <1>1, TraceAssumption DEF TraceInit, TraceType, NoSpan, Statuses, NoViewer
<1>3. TracesType /\ MessagesTrue
  BY <1>1, TraceAssumption DEF TraceInit, TracesType, MessagesTrue, NoSpan, Statuses, NoViewer
<1>4. RowsTrue
  BY <1>1 DEF TraceInit, RowsTrue, NoSpan
<1>5. CapHeld
  <2>1. RootTraces(spanStore) = {}
    BY <1>1, SpansAre DEF RootTraces, SpanRows, NoSpan
  <2> QED BY <1>1, <2>1, FS_EmptySet, TraceAssumption DEF CapHeld
<1>6. ViewerType /\ ShownTrue
  BY TraceAssumption DEF TraceInit, ViewerType, ShownTrue, NoViewer
<1> QED BY <1>2, <1>3, <1>4, <1>5, <1>6 DEF TraceInv

\* What a viewer shows of a trace changes with the events about it, and the last one counts.
TraceEvents == [op : {"start", "end"}, span : {Root(t) : t \in Traces}, status : Statuses]

LEMMA ShownStays ==
  ASSUME NEW v, NEW w, NEW es \in Seq(TraceEvents), NEW t \in Traces, v.buffer \in Seq(TraceEvents),
         w.buffer = v.buffer \o es, w.shows = v.shows, \A i \in 1..Len(es) : es[i].span[1] # t
  PROVE  Shown(w, t) = Shown(v, t)
<1> DEFINE b == v.buffer
           c == w.buffer
           n == Len(b)
           mv == {i \in 1..n : b[i].span[1] = t}
           mw == {i \in 1..Len(c) : c[i].span[1] = t}
           lv == CHOOSE i \in mv : \A j \in mv : j <= i
           lw == CHOOSE i \in mw : \A j \in mw : j <= i
<1>1. n \in Nat /\ Len(es) \in Nat /\ Len(c) = n + Len(es)
  OBVIOUS
<1>2. \A i \in 1..n : c[i] = b[i]
  OBVIOUS
<1>3. \A i \in 1..Len(c) : i > n => i - n \in 1..Len(es) /\ c[i] = es[i - n]
  <2> SUFFICES ASSUME NEW i \in 1..Len(c), i > n PROVE i - n \in 1..Len(es) /\ c[i] = es[i - n]
    OBVIOUS
  <2>1. i - n \in 1..Len(es)
    BY <1>1
  <2> QED BY <2>1
<1>4. mw = mv
  <2>1. mw \subseteq mv
    <3> SUFFICES ASSUME NEW i \in 1..Len(c), c[i].span[1] = t PROVE i \in mv
      OBVIOUS
    <3>1. i \in 1..n
      BY <1>1, <1>3
    <3> QED BY <1>2, <3>1
  <2>2. mv \subseteq mw
    <3> SUFFICES ASSUME NEW i \in 1..n, b[i].span[1] = t PROVE i \in mw
      OBVIOUS
    <3>1. i \in 1..Len(c)
      BY <1>1
    <3> QED BY <1>2, <3>1
  <2> QED BY <2>1, <2>2
<1>5. mv # {} => lv \in mv
  <2>1. mv \subseteq 0..n
    OBVIOUS
  <2> HIDE DEF mv
  <2> QED BY <1>1, <2>1, GreatestNumber
<1>6. Shown(v, t) = IF mv = {} \/ (v.shows[t] = "none" /\ \A i \in mv : b[i].op = "end") THEN v.shows[t] ELSE b[lv].status
  BY DEF Shown
<1>7. Shown(w, t) = IF mw = {} \/ (w.shows[t] = "none" /\ \A i \in mw : c[i].op = "end") THEN w.shows[t] ELSE c[lw].status
  BY DEF Shown
<1>8. \A i \in mv : c[i] = b[i]
  BY <1>2
<1> HIDE DEF mv, mw, b, c, n
<1> QED BY <1>4, <1>5, <1>6, <1>7, <1>8

Touched(v, t, es) == \E k \in 1..Len(es) : es[k].span[1] = t /\ (Shown(v, t) # "none" \/ es[k].op = "start")
ShowsOneOf(w, t, es) == \E i \in 1..Len(es) : es[i].span[1] = t /\ Shown(w, t) = es[i].status

LEMMA ShownLast ==
  ASSUME NEW v, NEW w, NEW es \in Seq(TraceEvents), NEW t \in Traces, v.buffer \in Seq(TraceEvents),
         w.buffer = v.buffer \o es, w.shows = v.shows,
         Touched(v, t, es)
  PROVE  ShowsOneOf(w, t, es)
<1> PICK k \in 1..Len(es) : es[k].span[1] = t /\ (Shown(v, t) # "none" \/ es[k].op = "start")
  BY DEF Touched
<1> DEFINE b == v.buffer
           c == w.buffer
           n == Len(b)
           mv == {i \in 1..n : b[i].span[1] = t}
           mw == {i \in 1..Len(c) : c[i].span[1] = t}
           lv == CHOOSE i \in mv : \A j \in mv : j <= i
           lw == CHOOSE i \in mw : \A j \in mw : j <= i
<1>1. n \in Nat /\ Len(es) \in Nat /\ Len(c) = n + Len(es) /\ k \in Nat /\ k >= 1
  OBVIOUS
<1>2. \A i \in 1..n : c[i] = b[i] /\ i \in 1..Len(c)
  OBVIOUS
<1>3. \A i \in 1..Len(c) : i > n => i - n \in 1..Len(es) /\ c[i] = es[i - n]
  <2> SUFFICES ASSUME NEW i \in 1..Len(c), i > n PROVE i - n \in 1..Len(es) /\ c[i] = es[i - n]
    OBVIOUS
  <2>1. i - n \in 1..Len(es)
    BY <1>1
  <2> QED BY <2>1
<1>4. n + k \in 1..Len(c) /\ n + k > n /\ n + k - n = k
  BY <1>1
<1>5. n + k \in mw /\ c[n + k] = es[k]
  BY <1>3, <1>4
<1>6. lw \in mw /\ \A j \in mw : j <= lw
  <2>1. mw \subseteq 0..Len(c)
    OBVIOUS
  <2>2. Len(c) \in Nat
    BY <1>1
  <2> HIDE DEF mw, c
  <2> QED BY <1>5, <2>1, <2>2, GreatestNumber
<1>7. Shown(v, t) = IF mv = {} \/ (v.shows[t] = "none" /\ \A i \in mv : b[i].op = "end") THEN v.shows[t] ELSE b[lv].status
  BY DEF Shown
<1>8. Shown(w, t) = IF mw = {} \/ (w.shows[t] = "none" /\ \A i \in mw : c[i].op = "end") THEN w.shows[t] ELSE c[lw].status
  BY DEF Shown
<1>9. \A i \in mv : i \in mw /\ c[i] = b[i]
  BY <1>2
<1>10. lw - n \in 1..Len(es) /\ c[lw] = es[lw - n] /\ es[lw - n].span[1] = t
  <2>1. lw \in 1..Len(c) /\ c[lw].span[1] = t /\ lw >= n + k
    BY <1>5, <1>6
  <2> HIDE DEF b, c, n, lw
  <2>2. lw \in Int
    BY <2>1
  <2>3. lw > n
    BY <1>1, <2>1, <2>2
  <2> QED BY <1>3, <2>1, <2>3, SMTT(30)
<1> HIDE DEF mv, mw, lv, lw, b, c, n
<1>11. ~(w.shows[t] = "none" /\ \A i \in mw : c[i].op = "end")
  <2>1. CASE es[k].op = "start"
    BY <1>5, <2>1
  <2>2. CASE Shown(v, t) # "none"
    BY <1>7, <1>9, <2>2
  <2> QED BY <2>1, <2>2
<1> QED BY <1>5, <1>8, <1>10, <1>11 DEF ShowsOneOf

\* The rows after an operation of the store.
LEMMA PrunedIs ==
  ASSUME NEW store \in [row : [Spans -> [status : Statuses, at : {"absent", "open", "over"}]], cached : SUBSET Spans, roots : Int],
         store.roots = Cardinality(RootTraces(store)), store.roots = Cap + 1, NEW p, p = Pruned(store)
  PROVE  /\ p \in [row : [Spans -> [status : Statuses, at : {"absent", "open", "over"}]], cached : SUBSET Spans, roots : Int]
         /\ p.cached = store.cached
         /\ \A s \in Spans : p.row[s] = store.row[s] \/ p.row[s] = NoSpan
         /\ p.roots = Cardinality(RootTraces(p)) /\ p.roots <= Cap
<1> DEFINE R == RootTraces(store)
           O == Oldest(store)
<1>0. store.roots = Cardinality(R) /\ store.roots = Cap + 1 /\ store.roots \in Int
  OBVIOUS
<1>1. p = [store EXCEPT !.row = [s \in Spans |-> IF s[1] \in O THEN NoSpan ELSE store.row[s]],
                        !.roots = store.roots - Cardinality(O)]
  BY DEF Pruned
<1>2. R \subseteq Traces /\ O \subseteq R /\ IsFiniteSet(R) /\ IsFiniteSet(O) /\ Cardinality(O) \in Nat /\ Cardinality(R) \in Nat
  <2>1. R \subseteq Traces /\ O \subseteq R
    BY DEF RootTraces, Oldest
  <2> HIDE DEF R, O
  <2> QED BY <2>1, SpansAre, FS_Subset, FS_CardinalityType
<1>3. /\ p.row = [s \in Spans |-> IF s[1] \in O THEN NoSpan ELSE store.row[s]]
      /\ p.cached = store.cached /\ p.roots = store.roots - Cardinality(O)
  BY <1>1
<1>4. NoSpan \in [status : Statuses, at : {"absent", "open", "over"}]
  BY DEF NoSpan, Statuses
<1>5. p \in [row : [Spans -> [status : Statuses, at : {"absent", "open", "over"}]], cached : SUBSET Spans, roots : Int]
  <2>1. store.roots - Cardinality(O) \in Int
    BY <1>2
  <2>2. [s \in Spans |-> IF s[1] \in O THEN NoSpan ELSE store.row[s]] \in [Spans -> [status : Statuses, at : {"absent", "open", "over"}]]
    BY <1>4
  <2> HIDE DEF O
  <2> QED BY <1>1, <2>1, <2>2
<1>6. RootTraces(p) = R \ O
  <2>1. \A t \in Traces : p.row[Root(t)] = IF t \in O THEN NoSpan ELSE store.row[Root(t)]
    BY <1>3, SpansAre
  <2>2. NoSpan.at = "absent"
    BY DEF NoSpan
  <2> HIDE DEF O
  <2> QED BY <2>1, <2>2, SpansAre DEF RootTraces, SpanRows
<1>7. O # {}
  <2>1. R # {}
    <3>1. Cap \in Nat
      BY TraceAssumption
    <3> HIDE DEF R
    <3>2. Cardinality(R) # 0
      BY <1>0, <3>1, <1>2
    <3> QED BY <3>2, FS_EmptySet
  <2>2. R \subseteq Nat
    BY <1>2, SpansAre
  <2>3. PICK m \in R : \A n \in R : m <= n
    <3> HIDE DEF R
    <3> QED BY <2>1, <2>2, LeastNumber
  <2>4. {u \in R : u < m} = {}
    <3> HIDE DEF R
    <3>1. \A u \in R : u \in Nat /\ m \in Nat /\ m <= u
      BY <2>2, <2>3
    <3>2. \A u \in R : ~(u < m)
      BY <3>1
    <3> QED BY <3>2
  <2>5. Cardinality({u \in R : u < m}) < Batch
    <3>1. 0 < Batch
      BY TraceAssumption
    <3> HIDE DEF R
    <3> QED BY <2>4, <3>1, FS_EmptySet, Zenon
  <2>6. m \in O
    BY <2>3, <2>5 DEF Oldest
  <2> QED BY <2>6
<1>8. Cardinality(R \ O) = Cardinality(R) - Cardinality(O)
  <2>1. R \cap O = O
    BY <1>2
  <2> HIDE DEF R, O
  <2>2. Cardinality(R \ O) = Cardinality(R) - Cardinality(R \cap O)
    BY <1>2, FS_Difference
  <2> QED BY <2>1, <2>2
<1>9. Cardinality(O) # 0
  <2> HIDE DEF O
  <2> QED BY <1>2, <1>7, FS_EmptySet
<1>10. p.roots = Cardinality(RootTraces(p)) /\ p.roots <= Cap
  <2>1. Cap \in Nat
    BY TraceAssumption
  <2> HIDE DEF R, O
  <2>2. Cardinality(O) >= 1
    BY <1>2, <1>9
  <2> QED BY <1>0, <1>2, <1>3, <1>6, <1>8, <2>1, <2>2
<1> QED BY <1>3, <1>5, <1>10

LEMMA InsertedIs ==
  ASSUME TraceInv, NEW s \in Spans, spanStore.row[s].at = "absent", spanStore' = Inserted(spanStore, s)
  PROVE  /\ spanStore' \in [row : [Spans -> [status : Statuses, at : {"absent", "open", "over"}]], cached : SUBSET Spans, roots : Int]
         /\ spanStore'.cached = spanStore.cached \cup {s}
         /\ \A u \in Spans : spanStore'.row[u] \in {NoSpan, IF u = s THEN OpenSpan ELSE spanStore.row[u]}
         /\ CapHeld'
<1> DEFINE Store == [row : [Spans -> [status : Statuses, at : {"absent", "open", "over"}]], cached : SUBSET Spans, roots : Int]
           next == [spanStore EXCEPT !.row[s] = OpenSpan, !.cached = @ \cup {s}, !.roots = IF IsRoot(s) THEN @ + 1 ELSE @]
           R == RootTraces(spanStore)
<1>1. spanStore \in Store /\ spanStore.roots = Cardinality(R) /\ spanStore.roots <= Cap /\ Cap \in Nat
  BY TraceAssumption DEF TraceInv, TracesType, CapHeld
<1>2. spanStore' = IF IsRoot(s) /\ next.roots > Cap THEN Pruned(next) ELSE next
  <2> HIDE DEF R, Store
  <2> QED BY DEF Inserted
<1>3. R \subseteq Traces /\ IsFiniteSet(R) /\ Cardinality(R) \in Nat
  <2>1. R \subseteq Traces
    BY DEF RootTraces
  <2> HIDE DEF R
  <2> QED BY <2>1, SpansAre, FS_Subset, FS_CardinalityType
<1>4. next \in Store
  <2> DEFINE n == IF IsRoot(s) THEN spanStore.roots + 1 ELSE spanStore.roots
             r == [spanStore.row EXCEPT ![s] = OpenSpan]
             c == spanStore.cached \cup {s}
  <2>1. n \in Int /\ c \in SUBSET Spans
    BY <1>1
  <2>2. r \in [Spans -> [status : Statuses, at : {"absent", "open", "over"}]]
    BY <1>1 DEF OpenSpan, Statuses
  <2>3. next = [spanStore EXCEPT !.row = r, !.cached = c, !.roots = n]
    <3> HIDE DEF Store, R
    <3> QED OBVIOUS
  <2> HIDE DEF n, r, c, next
  <2> QED BY <1>1, <2>1, <2>2, <2>3
<1>5. RootTraces(next) = IF IsRoot(s) THEN R \cup {s[1]} ELSE R
  <2>1. \A u \in Spans : next.row[u] = IF u = s THEN OpenSpan ELSE spanStore.row[u]
    BY <1>1
  <2>2. OpenSpan.at # "absent"
    BY DEF OpenSpan
  <2>3. \A t \in Traces : Root(t) = s <=> (IsRoot(s) /\ t = s[1])
    BY SpansAre
  <2> HIDE DEF next
  <2>4. \A t \in Traces : t \in RootTraces(next) <=> (t \in R \/ Root(t) = s)
    BY <2>1, <2>2, SpansAre DEF RootTraces, SpanRows
  <2> QED BY <2>3, <2>4, SpansAre DEF RootTraces
<1>6. next.roots = Cardinality(RootTraces(next))
  <2>1. CASE IsRoot(s)
    <3>1. s[1] \notin R
      BY <2>1, SpansAre DEF RootTraces, SpanRows
    <3>2. Cardinality(R \cup {s[1]}) = Cardinality(R) + 1
      <4> HIDE DEF R
      <4> QED BY <1>3, <3>1, FS_AddElement
    <3> QED BY <1>1, <1>5, <2>1, <3>2
  <2>2. CASE ~IsRoot(s)
    BY <1>1, <1>5, <2>2
  <2> QED BY <2>1, <2>2
<1>7. \A u \in Spans : next.row[u] = IF u = s THEN OpenSpan ELSE spanStore.row[u]
  BY <1>1
<1>8. next.cached = spanStore.cached \cup {s}
  BY <1>1
<1>9. next.roots > Cap => IsRoot(s) /\ next.roots = Cap + 1
  BY <1>1, <1>3
<1> HIDE DEF next
<1>10. CASE next.roots > Cap
  BY <1>2, <1>4, <1>6, <1>7, <1>8, <1>9, <1>10, PrunedIs DEF CapHeld
<1>11. CASE ~(next.roots > Cap)
  <2>1. spanStore' = next
    BY <1>2, <1>11
  <2>2. next.roots \in Int
    BY <1>4
  <2>3. next.roots <= Cap
    BY <1>1, <1>11, <2>2
  <2> QED BY <1>4, <1>6, <1>7, <1>8, <2>1, <2>3 DEF CapHeld
<1> QED BY <1>10, <1>11

LEMMA EndedIs ==
  ASSUME TraceInv, NEW spans, NEW status \in Statuses, NEW store, store = AllEnded(spanStore, spans, status)
  PROVE  /\ store \in [row : [Spans -> [status : Statuses, at : {"absent", "open", "over"}]], cached : SUBSET Spans, roots : Int]
         /\ store.cached = spanStore.cached \ spans
         /\ \A u \in Spans : store.row[u] = IF u \in spans \cap spanStore.cached /\ spanStore.row[u].at # "absent"
                                            THEN [status |-> status, at |-> "over"] ELSE spanStore.row[u]
         /\ store.roots = spanStore.roots /\ RootTraces(store) = RootTraces(spanStore)
<1> DEFINE Row == [status : Statuses, at : {"absent", "open", "over"}]
           r == [s \in Spans |-> IF s \in spans \cap spanStore.cached /\ spanStore.row[s].at # "absent"
                                 THEN [status |-> status, at |-> "over"] ELSE spanStore.row[s]]
<1>1. spanStore \in [row : [Spans -> Row], cached : SUBSET Spans, roots : Int]
  BY DEF TraceInv, TracesType
<1>2. store = [spanStore EXCEPT !.row = r, !.cached = spanStore.cached \ spans]
  BY DEF AllEnded
<1>3. r \in [Spans -> Row]
  BY <1>1
<1>4. spanStore.cached \ spans \in SUBSET Spans
  BY <1>1
<1>5. store.row = r /\ store.cached = spanStore.cached \ spans /\ store.roots = spanStore.roots
      /\ store \in [row : [Spans -> Row], cached : SUBSET Spans, roots : Int]
  <2> HIDE DEF r, Row
  <2> QED BY <1>1, <1>2, <1>3, <1>4
<1>6. \A u \in Spans : store.row[u].at = "absent" <=> spanStore.row[u].at = "absent"
  BY <1>5
<1>7. RootTraces(store) = RootTraces(spanStore)
  BY <1>6 DEF RootTraces, SpanRows
<1> QED BY <1>5, <1>7

\* What a viewer hears of one root, and of several that end at once.
LEMMA HeardIs ==
  ASSUME TraceInv, NEW t \in Traces, NEW kind \in {"start", "end"}, NEW x \in Statuses, viewer' = Heard(viewer, kind, Root(t), x)
  PROVE  /\ ViewerType' /\ viewer'.on = viewer.on /\ viewer'.shows = viewer.shows
         /\ viewer'.on /\ viewer'.status = "all" /\ ~viewer'.missed =>
              /\ viewer.on /\ viewer.status = "all" /\ ~viewer.missed
              /\ \A u \in Traces \ {t} : Shown(viewer', u) = Shown(viewer, u)
              /\ kind = "start" \/ Shown(viewer, t) # "none" => Shown(viewer', t) = x
<1> DEFINE e == [op |-> kind, span |-> Root(t), status |-> x]
           Shape == [status : {"all", "error"}, on : BOOLEAN, missed : BOOLEAN, shows : [Traces -> Statuses \cup {"none"}],
                     buffer : Seq(TraceEvents)]
<1>1. viewer \in Shape /\ Len(viewer.buffer) <= MaxBuffer /\ MaxBuffer \in Nat
  BY TraceAssumption DEF TraceInv, ViewerType, TraceEvents
<1>2. e \in TraceEvents /\ e.span[1] = t
  BY SpansAre DEF TraceEvents
<1>3. \/ viewer' = viewer /\ ~(viewer.on /\ viewer.status = "all")
      \/ viewer' = [viewer EXCEPT !.buffer = Append(@, e)] /\ Len(viewer.buffer) < MaxBuffer
      \/ viewer' = [viewer EXCEPT !.missed = TRUE]
  BY SpansAre DEF Heard, Filtered, TraceMessage
<1> HIDE DEF e, Shape
<1>4. CASE viewer' = viewer /\ ~(viewer.on /\ viewer.status = "all")
  BY <1>1, <1>4 DEF ViewerType, TraceInv
<1>5. CASE viewer' = [viewer EXCEPT !.missed = TRUE]
  <2>1. viewer' \in Shape /\ viewer'.missed /\ viewer'.buffer = viewer.buffer /\ viewer'.on = viewer.on /\ viewer'.shows = viewer.shows
    BY <1>1, <1>5 DEF Shape
  <2> QED BY <1>1, <2>1 DEF ViewerType, Shape, TraceEvents
<1>6. CASE viewer' = [viewer EXCEPT !.buffer = Append(@, e)] /\ Len(viewer.buffer) < MaxBuffer
  <2> DEFINE es == <<e>>
  <2>1. es \in Seq(TraceEvents) /\ Len(es) = 1 /\ es[1] = e
    BY <1>2
  <2>2. /\ viewer' \in Shape /\ viewer'.buffer = viewer.buffer \o es /\ viewer'.shows = viewer.shows
        /\ viewer'.on = viewer.on /\ viewer'.status = viewer.status /\ viewer'.missed = viewer.missed
        /\ viewer.buffer \in Seq(TraceEvents)
    <3>1. viewer.buffer \in Seq(TraceEvents)
      BY <1>1 DEF Shape
    <3>2. Append(viewer.buffer, e) = viewer.buffer \o es /\ Append(viewer.buffer, e) \in Seq(TraceEvents)
      BY <1>2, <3>1
    <3> HIDE DEF es
    <3> QED BY <1>1, <1>6, <3>1, <3>2 DEF Shape
  <2>3. Len(viewer'.buffer) <= MaxBuffer
    <3>1. Len(viewer'.buffer) = Len(viewer.buffer) + 1 /\ Len(viewer.buffer) \in Nat
      BY <2>1, <2>2
    <3> QED BY <1>1, <1>6, <3>1
  <2>4. ViewerType'
    BY <2>2, <2>3 DEF ViewerType, Shape, TraceEvents
  <2> HIDE DEF es
  <2>5. ASSUME NEW u \in Traces \ {t} PROVE Shown(viewer', u) = Shown(viewer, u)
    <3>1. \A i \in 1..Len(es) : es[i].span[1] # u
      BY <1>2, <2>1
    <3> QED BY <2>1, <2>2, <3>1, ShownStays
  <2>6. ASSUME kind = "start" \/ Shown(viewer, t) # "none" PROVE Shown(viewer', t) = x
    <3>1. 1 \in 1..Len(es) /\ es[1].span[1] = t /\ \A i \in 1..Len(es) : es[i].span[1] = t => es[i].status = x
      BY <1>2, <2>1 DEF e
    <3>2. es[1].op = kind
      BY <2>1 DEF e
    <3>3. Touched(viewer, t, es)
      BY <2>6, <3>1, <3>2 DEF Touched
    <3>4. ShowsOneOf(viewer', t, es)
      BY <2>1, <2>2, <3>3, ShownLast
    <3> QED BY <3>1, <3>4 DEF ShowsOneOf
  <2> QED BY <2>2, <2>4, <2>5, <2>6
<1> QED BY <1>3, <1>4, <1>5, <1>6

LEMMA HeardAllIs ==
  ASSUME TraceInv, NEW n \in Nat, NEW events \in [1..n -> TraceEvents], \A i \in 1..n : events[i].op = "end" /\ events[i].status = "error",
         viewer' = HeardAll(viewer, events)
  PROVE  /\ ViewerType' /\ viewer'.on = viewer.on
         /\ viewer'.on /\ viewer'.status = "all" /\ ~viewer'.missed =>
              /\ viewer.on /\ viewer.status = "all" /\ ~viewer.missed
              /\ \A u \in Traces :
                   /\ (\A i \in 1..n : events[i].span[1] # u) => Shown(viewer', u) = Shown(viewer, u)
                   /\ (\E i \in 1..n : events[i].span[1] = u) /\ Shown(viewer, u) # "none" => Shown(viewer', u) = "error"
<1> DEFINE Shape == [status : {"all", "error"}, on : BOOLEAN, missed : BOOLEAN, shows : [Traces -> Statuses \cup {"none"}],
                     buffer : Seq(TraceEvents)]
           room == MaxBuffer - Len(viewer.buffer)
           k == IF Len(events) < room THEN Len(events) ELSE room
           es == SubSeq(events, 1, k)
<1>1. viewer \in Shape /\ Len(viewer.buffer) <= MaxBuffer /\ MaxBuffer \in Nat /\ Len(viewer.buffer) \in Nat
  BY TraceAssumption DEF TraceInv, ViewerType, TraceEvents
<1>2. events \in Seq(TraceEvents) /\ Len(events) = n
  <2> HIDE DEF Shape
  <2>1. events \in Seq(TraceEvents)
    OBVIOUS
  <2> QED BY <2>1
<1>3. k \in 0..n /\ Len(viewer.buffer) + k <= MaxBuffer /\ (n <= room => k = n)
  BY <1>1, <1>2
<1>4. es \in Seq(TraceEvents) /\ Len(es) = k /\ \A i \in 1..k : es[i] = events[i]
  <2> HIDE DEF k
  <2> QED BY <1>2, <1>3
<1>5. \/ viewer' = viewer /\ ~(viewer.on /\ viewer.status = "all")
      \/ viewer' = [viewer EXCEPT !.buffer = @ \o es, !.missed = @ \/ Len(events) > room]
  BY DEF HeardAll, Filtered
<1> HIDE DEF k, es, Shape
<1>6. CASE viewer' = viewer /\ ~(viewer.on /\ viewer.status = "all")
  BY <1>1, <1>6 DEF ViewerType, TraceInv
<1>7. CASE viewer' = [viewer EXCEPT !.buffer = @ \o es, !.missed = @ \/ Len(events) > room]
  <2>1. viewer.buffer \in Seq(TraceEvents) /\ viewer.missed \in BOOLEAN
    BY <1>1 DEF Shape
  <2>2. viewer.buffer \o es \in Seq(TraceEvents) /\ Len(viewer.buffer \o es) <= MaxBuffer
    BY <1>1, <1>3, <1>4, <2>1
  <2>3. (viewer.missed \/ Len(events) > room) \in BOOLEAN
    OBVIOUS
  <2> DEFINE b == viewer.buffer \o es
             m == viewer.missed \/ Len(events) > room
  <2>4. viewer' = [viewer EXCEPT !.buffer = b, !.missed = m]
    BY <1>7
  <2>5. m => viewer.missed \/ n > room
    BY <1>2
  <2>6. ~m => n <= room /\ ~viewer.missed
    BY <1>1, <1>2
  <2>7. b \in Seq(TraceEvents) /\ m \in BOOLEAN /\ Len(b) <= MaxBuffer
    BY <2>2
  <2> HIDE DEF b, m
  <2>8. /\ viewer' \in Shape /\ viewer'.buffer = b /\ viewer'.shows = viewer.shows
        /\ viewer'.on = viewer.on /\ viewer'.status = viewer.status /\ viewer'.missed = m
    BY <1>1, <2>4, <2>7 DEF Shape
  <2>9. ViewerType'
    BY <2>7, <2>8 DEF ViewerType, Shape, TraceEvents
  <2>10. ASSUME NEW u \in Traces, ~m PROVE
              /\ (\A i \in 1..n : events[i].span[1] # u) => Shown(viewer', u) = Shown(viewer, u)
              /\ (\E i \in 1..n : events[i].span[1] = u) /\ Shown(viewer, u) # "none" => Shown(viewer', u) = "error"
    <3>1. k = n
      BY <1>3, <2>6, <2>10
    <3>2. viewer'.buffer = viewer.buffer \o es /\ Len(es) = n /\ \A i \in 1..n : es[i] = events[i]
      BY <1>4, <2>8, <3>1 DEF b
    <3>3. es \in Seq(TraceEvents) /\ viewer.buffer \in Seq(TraceEvents) /\ viewer'.buffer = viewer.buffer \o es /\ viewer'.shows = viewer.shows
      BY <1>4, <2>1, <2>8, <3>2
    <3>4. ASSUME \A i \in 1..n : events[i].span[1] # u PROVE Shown(viewer', u) = Shown(viewer, u)
      <4>1. \A i \in 1..Len(es) : es[i].span[1] # u
        BY <3>2, <3>4
      <4> QED BY <3>3, <4>1, ShownStays
    <3>5. ASSUME NEW i \in 1..n, events[i].span[1] = u, Shown(viewer, u) # "none" PROVE Shown(viewer', u) = "error"
      <4>1. Touched(viewer, u, es)
        BY <3>2, <3>5 DEF Touched
      <4>2. \A j \in 1..Len(es) : es[j].span[1] = u => es[j].status = "error"
        BY <3>2
      <4>3. ShowsOneOf(viewer', u, es)
        BY <3>3, <4>1, ShownLast
      <4> QED BY <4>2, <4>3 DEF ShowsOneOf
    <3> QED BY <3>4, <3>5
  <2> QED BY <2>6, <2>8, <2>9, <2>10
<1> QED BY <1>5, <1>6, <1>7

\* Messages are posted behind those that are there.
Messages == [op : {"insert", "flag", "end", "result"}, span : Spans, status : Statuses]

LEMMA PostedBehind ==
  ASSUME NEW q \in Seq(Messages), NEW ms \in Seq(Messages)
  PROVE  /\ q \o ms \in Seq(Messages) /\ Len(q) \in Nat /\ Len(ms) \in Nat /\ Len(q \o ms) = Len(q) + Len(ms)
         /\ \A i \in 1..Len(q) : i \in 1..Len(q \o ms) /\ (q \o ms)[i] = q[i]
         /\ \A j \in 1..Len(ms) : Len(q) + j \in 1..Len(q \o ms) /\ Len(q) + j > Len(q) /\ (q \o ms)[Len(q) + j] = ms[j]
         /\ \A i \in 1..Len(q \o ms) : i \in 1..Len(q) \/ \E j \in 1..Len(ms) : i = Len(q) + j
<1>1. q \o ms \in Seq(Messages) /\ Len(q) \in Nat /\ Len(ms) \in Nat /\ Len(q \o ms) = Len(q) + Len(ms)
  OBVIOUS
<1>2. \A i \in 1..Len(q) : i \in 1..Len(q \o ms) /\ (q \o ms)[i] = q[i]
  OBVIOUS
<1>3. ASSUME NEW j \in 1..Len(ms) PROVE Len(q) + j \in 1..Len(q \o ms) /\ Len(q) + j > Len(q) /\ (q \o ms)[Len(q) + j] = ms[j]
  <2>1. Len(q) + j \in 1..(Len(q) + Len(ms)) /\ Len(q) + j > Len(q) /\ Len(q) + j - Len(q) = j
    BY <1>1
  <2> QED BY <1>1, <2>1
<1>4. ASSUME NEW i \in 1..Len(q \o ms), i \notin 1..Len(q) PROVE \E j \in 1..Len(ms) : i = Len(q) + j
  <2>1. i - Len(q) \in 1..Len(ms) /\ i = Len(q) + (i - Len(q))
    BY <1>1, <1>4
  <2> QED BY <2>1
<1> QED BY <1>1, <1>2, <1>3, <1>4

SameRoot(s, av, aw) == IsRoot(s) => (s[1] \in av <=> s[1] \in aw)
Avoids(ms, s) == \A j \in 1..Len(ms) : ms[j].span # s

LEMMA MessageStays ==
  ASSUME NEW q \in Seq(Messages), NEW ms \in Seq(Messages), NEW p, p = q \o ms, NEW i \in 1..Len(q), NEW w, NEW v, NEW store, NEW aw, NEW av,
         NEW c, c = q[i], Avoids(ms, c.span), v[c.span] = w[c.span],
         SameRoot(c.span, av, aw), MessageTrue(q, i, w, store, aw)
  PROVE  MessageTrue(p, i, v, store, av)
<1>1. p[i] = c /\ i \in Nat
  BY PostedBehind
<1>2. EndComes(q, c.span, i) => EndComes(p, c.span, i)
  BY PostedBehind DEF EndComes
<1>3. \A j \in 1..Len(p) : (j \in 1..Len(q) /\ p[j] = q[j]) \/ p[j].span # c.span
  <2> SUFFICES ASSUME NEW j \in 1..Len(p) PROVE (j \in 1..Len(q) /\ p[j] = q[j]) \/ p[j].span # c.span
    OBVIOUS
  <2>1. CASE j \in 1..Len(q)
    BY <2>1, PostedBehind
  <2>2. CASE j \notin 1..Len(q)
    <3>1. PICK k \in 1..Len(ms) : j = Len(q) + k
      BY <2>2, PostedBehind
    <3>2. p[j] = ms[k]
      BY <3>1, PostedBehind
    <3> QED BY <3>2 DEF Avoids
  <2> QED BY <2>1, <2>2
<1>4. /\ w[c.span] # "none"
      /\ c.op = "result" <=> IsRoot(c.span) /\ c.span[1] \notin aw
      /\ c.op = "insert" => /\ store.row[c.span].at = "absent" /\ c.span \notin store.cached
                            /\ \A j \in 1..Len(q) : j < i => q[j].span # c.span
                            /\ w[c.span] \in {"running", "cut"} \/ EndComes(q, c.span, i)
      /\ c.op = "flag" => w[c.span] = "cut" \/ (w[c.span] = "error" /\ EndComes(q, c.span, i))
      /\ c.op \in {"end", "result"} => /\ c.status \in {"ok", "error"}
                                       /\ \A j \in 1..Len(q) : j > i => q[j].span # c.span
      /\ c.op = "end" => w[c.span] = c.status
      /\ c.op = "result" => w[c.span] # "running" /\ (c.span \in store.cached => w[c.span] = c.status)
  BY DEF MessageTrue
<1>5. v[c.span] = w[c.span] /\ (IsRoot(c.span) => (c.span[1] \in av <=> c.span[1] \in aw))
  BY DEF SameRoot
<1> QED BY <1>1, <1>2, <1>3, <1>4, <1>5 DEF MessageTrue

\* A thread starts or ends a span and posts it.
LEMMA PostedKeeps ==
  ASSUME TraceInv, NEW s \in Spans, NEW x \in {"running", "ok", "error"}, NEW ms \in Seq(Messages), ms # <<>>,
         posted' = posted \o ms, work' = [work EXCEPT ![s] = x],
         \A j \in 1..Len(ms) : ms[j].span = s,
         \A j \in 1..Len(ms) : MessageTrue(posted \o ms, Len(posted) + j, work', spanStore, away'),
         \A i \in 1..Len(posted) : posted[i].span = s => MessageTrue(posted \o ms, i, work', spanStore, away'),
         \A u \in Spans \ {s} : IsRoot(u) => (u[1] \in away' <=> u[1] \in away),
         IF x = "running" THEN work[s] = "none" ELSE work[s] = "running",
         serving, away' \subseteq Traces, UNCHANGED <<spanStore, viewer, evicted, serving, upsets>>
  PROVE  TraceInv'
<1>1. posted \in Seq(Messages) /\ work \in [Spans -> {"none", "running", "ok", "error", "cut"}]
  BY DEF TraceInv, TracesType, TraceType, Messages
<1>2. work'[s] = x /\ \A u \in Spans : u # s => work'[u] = work[u]
  BY <1>1
<1>3. TraceType'
  <2>1. work' \in [Spans -> {"none", "running", "ok", "error", "cut"}]
    BY <1>1
  <2> QED BY <2>1 DEF TraceInv, TraceType
<1>4. TracesType'
  <2>1. posted' \in Seq(Messages)
    BY <1>1, PostedBehind
  <2> QED BY <2>1 DEF TraceInv, TracesType, Messages
<1>5. MessagesTrue'
  <2> SUFFICES ASSUME NEW i \in 1..Len(posted') PROVE MessageTrue(posted', i, work', spanStore, away')
    BY DEF MessagesTrue
  <2>1. CASE i \in 1..Len(posted)
    <3>1. CASE posted[i].span = s
      BY <2>1, <3>1
    <3>2. CASE posted[i].span # s
      <4>1. posted[i].span \in Spans
        <5>1. posted[i] \in Messages
          BY <1>1, <2>1
        <5> QED BY <5>1 DEF Messages
      <4>2. /\ work'[posted[i].span] = work[posted[i].span] /\ \A j \in 1..Len(ms) : ms[j].span # posted[i].span
            /\ IsRoot(posted[i].span) => (posted[i].span[1] \in away' <=> posted[i].span[1] \in away)
        BY <1>2, <3>2, <4>1
      <4>3. MessageTrue(posted, i, work, spanStore, away)
        BY <2>1 DEF TraceInv, MessagesTrue
      <4> DEFINE c == posted[i]
      <4>4. c = posted[i] /\ Avoids(ms, c.span) /\ work'[c.span] = work[c.span] /\ SameRoot(c.span, away', away)
        BY <4>2 DEF SameRoot, Avoids
      <4> HIDE DEF c
      <4>5. MessageTrue(posted', i, work', spanStore, away')
        <5>1. posted \in Seq(Messages) /\ ms \in Seq(Messages) /\ posted' = posted \o ms
          BY <1>1
        <5> QED BY <2>1, <4>3, <4>4, <5>1, MessageStays
      <4> QED BY <4>5
    <3> QED BY <3>1, <3>2
  <2>2. CASE i \notin 1..Len(posted)
    <3>1. PICK j \in 1..Len(ms) : i = Len(posted) + j
      BY <1>1, <2>2, PostedBehind
    <3> QED BY <3>1
  <2> QED BY <2>1, <2>2
<1>6. \A u \in Spans : OnTheWay(u)' <=> (OnTheWay(u) \/ u = s)
  <2>1. 1 \in 1..Len(ms)
    OBVIOUS
  <2>2. \A i \in 1..Len(posted) : i \in 1..Len(posted') /\ posted'[i] = posted[i]
    BY <1>1, PostedBehind
  <2>3. \A j \in 1..Len(ms) : Len(posted) + j \in 1..Len(posted') /\ posted'[Len(posted) + j].span = s
    BY <1>1, PostedBehind
  <2>4. \A i \in 1..Len(posted') : i \in 1..Len(posted) \/ \E j \in 1..Len(ms) : i = Len(posted) + j
    BY <1>1, PostedBehind
  <2> QED BY <2>1, <2>2, <2>3, <2>4, ZenonT(60) DEF OnTheWay
<1>7. RowsTrue'
  <2>1. work[s] = "none" => spanStore.row[s] = NoSpan
    BY DEF TraceInv, RowsTrue
  <2>2. x # "none" /\ x # "cut"
    OBVIOUS
  <2>3. spanStore.row[s].at # "over"
    BY <2>1 DEF TraceInv, RowsTrue, NoSpan
  <2>4. spanStore.row[s].at = "open" => work[s] = "running"
    BY <2>1 DEF NoSpan
  <2>5. \A u \in Spans : u # s => (TraceComes(u)' <=> TraceComes(u))
    <3> SUFFICES ASSUME NEW u \in Spans, u # s PROVE TraceComes(u)' <=> TraceComes(u)
      OBVIOUS
    <3>1. \A i \in 1..Len(posted) : i \in 1..Len(posted') /\ posted'[i] = posted[i]
      BY <1>1, PostedBehind
    <3>2. ASSUME NEW i \in 1..Len(posted'), i \notin 1..Len(posted) PROVE posted'[i].span = s
      <4>1. PICK j \in 1..Len(ms) : i = Len(posted) + j
        BY <1>1, <3>2, PostedBehind
      <4>2. posted'[i] = ms[j]
        BY <1>1, <4>1, PostedBehind
      <4> QED BY <4>2
    <3> QED BY <3>1, <3>2 DEF TraceComes
  <2> QED BY <1>2, <1>6, <2>2, <2>3, <2>4, <2>5 DEF TraceInv, RowsTrue
<1>8. CapHeld' /\ ViewerType' /\ ShownTrue'
  <2>1. CapHeld' /\ ViewerType'
    BY DEF TraceInv, CapHeld, RootTraces, SpanRows, ViewerType
  <2> QED BY <2>1 DEF TraceInv, ShownTrue
<1> QED BY <1>3, <1>4, <1>5, <1>7, <1>8 DEF TraceInv

LEMMA StartPostedKeeps ==
  ASSUME TraceInv, NEW s \in Spans, SpanStarts(s), serving, away' \subseteq Traces, IsRoot(s) => s[1] \in away',
         \A u \in Spans \ {s} : IsRoot(u) => (u[1] \in away' <=> u[1] \in away)
  PROVE  TraceInv'
<1> DEFINE m == [op |-> "insert", span |-> s, status |-> "unset"]
           ms == <<m>>
<1>1. /\ work[s] = "none" /\ work' = [work EXCEPT ![s] = "running"] /\ posted' = posted \o ms
      /\ UNCHANGED <<spanStore, viewer, evicted, serving, upsets>>
  BY DEF SpanStarts, Posts, TraceMessage
<1>2. posted \in Seq(Messages) /\ work' [s] = "running"
  BY <1>1 DEF TraceInv, TracesType, TraceType, Messages
<1>3. m \in Messages
  BY DEF Messages, Statuses
<1>4. ms \in Seq(Messages) /\ Len(ms) = 1 /\ ms[1] = m /\ ms # <<>>
  BY <1>3
<1>5. \A i \in 1..Len(posted) : posted[i].span # s
  BY <1>1 DEF TraceInv, MessagesTrue, MessageTrue
<1>6. spanStore.row[s] = NoSpan /\ s \notin spanStore.cached
  BY <1>1 DEF TraceInv, RowsTrue
<1> HIDE DEF ms
<1>7. ASSUME NEW j \in 1..Len(ms) PROVE MessageTrue(posted \o ms, Len(posted) + j, work', spanStore, away')
  <2> DEFINE p == posted \o ms
             k == Len(posted) + j
  <2>1. p[k] = m /\ j = 1
    BY <1>2, <1>4, PostedBehind
  <2>2. \A i \in 1..Len(p) : i < k => p[i].span # s
    <3> SUFFICES ASSUME NEW i \in 1..Len(p), i < k PROVE p[i].span # s
      OBVIOUS
    <3>1. Len(p) = Len(posted) + 1 /\ Len(posted) \in Nat
      <4>1. Len(p) = Len(posted) + Len(ms) /\ Len(posted) \in Nat
        BY <1>2, <1>4, PostedBehind
      <4> QED BY <1>4, <4>1
    <3>2. i \in 1..Len(posted)
      BY <2>1, <3>1
    <3> QED BY <1>2, <1>4, <1>5, <3>2, PostedBehind
  <2> HIDE DEF p, k
  <2>3. MessageTrue(p, k, work', spanStore, away')
    BY <1>2, <1>6, <2>1, <2>2 DEF MessageTrue, NoSpan
  <2> QED BY <2>3 DEF p, k
<1>8. \A j \in 1..Len(ms) : ms[j].span = s
  BY <1>4
<1> QED BY <1>1, <1>4, <1>5, <1>7, <1>8, PostedKeeps

LEMMA EndPostedKeeps ==
  ASSUME TraceInv, NEW s \in Spans, work[s] = "running", NEW x \in {"ok", "error"}, NEW op \in {"end", "result"},
         op = "result" <=> IsRoot(s) /\ s[1] \notin away,
         NEW ms, \/ ms = <<TraceMessage(op, s, x)>>
                 \/ x = "error" /\ op = "end" /\ ms = <<TraceMessage("flag", s, "error"), TraceMessage(op, s, x)>>,
         posted' = posted \o ms, work' = [work EXCEPT ![s] = x],
         serving, UNCHANGED <<spanStore, viewer, away, evicted, serving, upsets>>
  PROVE  TraceInv'
<1> DEFINE n == Len(ms)
           m == [op |-> op, span |-> s, status |-> x]
           f == [op |-> "flag", span |-> s, status |-> "error"]
           p == posted \o ms
<1>1. posted \in Seq(Messages) /\ work'[s] = x
  BY DEF TraceInv, TracesType, TraceType, Messages
<1>2. m \in Messages /\ f \in Messages
  BY DEF Messages, Statuses
<1>3. ms \in Seq(Messages) /\ n \in 1..2 /\ ms[n] = m /\ (n = 2 => ms[1] = f /\ x = "error" /\ op = "end") /\ ms # <<>>
  <2> HIDE DEF m, f
  <2>1. CASE ms = <<m>>
    BY <1>2, <2>1
  <2>2. CASE x = "error" /\ op = "end" /\ ms = <<f, m>>
    BY <1>2, <2>2
  <2> QED BY <2>1, <2>2 DEF TraceMessage, m, f
<1>4. \A j \in 1..n : j = n \/ (j = 1 /\ n = 2)
  <2> HIDE DEF n
  <2> QED BY <1>3
<1>5. \A j \in 1..n : ms[j].span = s
  BY <1>3, <1>4
<1>6. p \in Seq(Messages) /\ Len(posted) \in Nat /\ Len(p) = Len(posted) + n /\ p[Len(posted) + n] = m
      /\ Len(posted) + n \in 1..Len(p)
  BY <1>1, <1>3, PostedBehind
<1>7. \A i \in 1..Len(p) : i < Len(posted) + n => EndComes(p, s, i)
  BY <1>6 DEF EndComes
<1>8. n = 2 => p[Len(posted) + 1] = f
  BY <1>1, <1>3, PostedBehind
<1>9. \A i \in 1..Len(posted) : i \in 1..Len(p) /\ p[i] = posted[i]
  BY <1>1, <1>3, PostedBehind
<1> HIDE DEF p, n
<1>10. ASSUME NEW j \in 1..Len(ms) PROVE MessageTrue(p, Len(posted) + j, work', spanStore, away)
  <2>1. CASE j = n
    <3>1. \A i \in 1..Len(p) : ~(i > Len(posted) + n)
      BY <1>3, <1>6
    <3> QED BY <1>1, <1>6, <2>1, <3>1 DEF MessageTrue
  <2>2. CASE j = 1 /\ n = 2
    <3>1. p[Len(posted) + 1] = f /\ x = "error" /\ op = "end"
      BY <1>3, <1>8, <2>2
    <3>2. EndComes(p, s, Len(posted) + 1)
      BY <1>6, <1>7, <2>2
    <3> QED BY <1>1, <2>2, <3>1, <3>2 DEF MessageTrue
  <2> QED BY <1>4, <2>1, <2>2 DEF n
<1>11. ASSUME NEW i \in 1..Len(posted), posted[i].span = s PROVE MessageTrue(p, i, work', spanStore, away)
  <2>1. MessageTrue(posted, i, work, spanStore, away)
    BY DEF TraceInv, MessagesTrue
  <2>2. posted[i].op = "insert"
    <3>1. posted[i].op \in {"insert", "flag", "end", "result"}
      <4>1. posted[i] \in Messages
        BY <1>1
      <4> QED BY <4>1 DEF Messages
    <3> QED BY <1>11, <2>1, <3>1 DEF MessageTrue
  <2>3. /\ spanStore.row[s].at = "absent" /\ s \notin spanStore.cached
        /\ \A j \in 1..Len(posted) : j < i => posted[j].span # s
        /\ ~(IsRoot(s) /\ s[1] \notin away)
    BY <1>11, <2>1, <2>2 DEF MessageTrue
  <2>4. \A j \in 1..Len(p) : j < i => j \in 1..Len(posted) /\ p[j] = posted[j]
    BY <1>6, <1>9
  <2>5. p[i] = posted[i] /\ EndComes(p, s, i)
    <3>1. i < Len(posted) + n
      BY <1>3, <1>6
    <3> QED BY <1>7, <1>9, <3>1
  <2> QED BY <1>1, <1>11, <2>2, <2>3, <2>4, <2>5 DEF MessageTrue
<1>12. away' = away /\ away' \subseteq Traces
  BY DEF TraceInv, TraceType
<1>13. \A j \in 1..Len(ms) : MessageTrue(posted \o ms, Len(posted) + j, work', spanStore, away')
  BY <1>10, <1>12 DEF p
<1>14. \A i \in 1..Len(posted) : posted[i].span = s => MessageTrue(posted \o ms, i, work', spanStore, away')
  BY <1>11, <1>12 DEF p
<1>15. \A j \in 1..Len(ms) : ms[j].span = s
  BY <1>5 DEF n
<1>16. \A u \in Spans \ {s} : IsRoot(u) => (u[1] \in away' <=> u[1] \in away)
  BY <1>12
<1> QED BY <1>3, <1>12, <1>13, <1>14, <1>15, <1>16, PostedKeeps

\* The first message is taken.
LEMMA FirstTaken ==
  ASSUME NEW q \in Seq(Messages), q # <<>>
  PROVE  /\ Tail(q) \in Seq(Messages) /\ Head(q) = q[1] /\ 1 \in 1..Len(q) /\ q[1] \in Messages
         /\ \A i \in 1..Len(Tail(q)) : i + 1 \in 1..Len(q) /\ i + 1 > 1 /\ Tail(q)[i] = q[i + 1]
         /\ \A i \in 1..Len(q) : i > 1 => i - 1 \in 1..Len(Tail(q)) /\ Tail(q)[i - 1] = q[i] /\ i - 1 + 1 = i
<1>1. Tail(q) \in Seq(Messages) /\ Head(q) = q[1] /\ Len(q) \in Nat \ {0} /\ Len(Tail(q)) = Len(q) - 1
  OBVIOUS
<1>2. 1 \in 1..Len(q) /\ q[1] \in Messages
  BY <1>1
<1>3. \A i \in 1..Len(Tail(q)) : Tail(q)[i] = q[i + 1]
  OBVIOUS
<1>4. \A i \in 1..Len(Tail(q)) : i + 1 \in 1..Len(q) /\ i + 1 > 1
  BY <1>1
<1>5. \A i \in 1..Len(q) : i > 1 => i - 1 \in 1..Len(Tail(q)) /\ i - 1 + 1 = i
  BY <1>1
<1>6. \A i \in 1..Len(q) : i > 1 => Tail(q)[i - 1] = q[i]
  <2> SUFFICES ASSUME NEW i \in 1..Len(q), i > 1 PROVE Tail(q)[i - 1] = q[i]
    OBVIOUS
  <2>1. i - 1 \in 1..Len(Tail(q)) /\ i - 1 + 1 = i
    BY <1>5
  <2> QED BY <1>3, <2>1
<1> QED BY <1>1, <1>2, <1>3, <1>4, <1>5, <1>6

LEMMA MessageMoves ==
  ASSUME NEW q \in Seq(Messages), q # <<>>, NEW p, p = Tail(q), NEW i \in 1..Len(p), NEW w, NEW store, NEW next, NEW aw,
         MessageTrue(q, i + 1, w, store, aw),
         q[i + 1].op = "insert" => next.row[q[i + 1].span].at = "absent" /\ q[i + 1].span \notin next.cached,
         q[i + 1].op = "result" /\ q[i + 1].span \in next.cached => q[i + 1].span \in store.cached
  PROVE  MessageTrue(p, i, w, next, aw)
<1> DEFINE c == q[i + 1]
           k == i + 1
<1>1. p[i] = c
  BY FirstTaken
<1>2. EndComes(q, c.span, k) => EndComes(p, c.span, i)
  <2> SUFFICES ASSUME NEW j \in 1..Len(q), j > i + 1, q[j].span = c.span, q[j].op \in {"end", "result"} PROVE EndComes(p, c.span, i)
    BY DEF EndComes
  <2>1. i \in Nat /\ i >= 1
    BY FirstTaken
  <2>2. j > 1 /\ j - 1 > i
    BY <2>1
  <2>3. j - 1 \in 1..Len(p) /\ p[j - 1] = q[j]
    BY <2>2, FirstTaken
  <2> HIDE DEF c
  <2> QED BY <2>2, <2>3 DEF EndComes
<1>3. \A j \in 1..Len(p) : j + 1 \in 1..Len(q) /\ p[j] = q[j + 1] /\ (j < i <=> j + 1 < k) /\ (j > i <=> j + 1 > k)
  BY FirstTaken
<1>4. /\ w[c.span] # "none"
      /\ c.op = "result" <=> IsRoot(c.span) /\ c.span[1] \notin aw
      /\ c.op = "insert" => /\ \A j \in 1..Len(q) : j < k => q[j].span # c.span
                            /\ w[c.span] \in {"running", "cut"} \/ EndComes(q, c.span, k)
      /\ c.op = "flag" => w[c.span] = "cut" \/ (w[c.span] = "error" /\ EndComes(q, c.span, k))
      /\ c.op \in {"end", "result"} => /\ c.status \in {"ok", "error"}
                                       /\ \A j \in 1..Len(q) : j > k => q[j].span # c.span
      /\ c.op = "end" => w[c.span] = c.status
      /\ c.op = "result" => w[c.span] # "running" /\ (c.span \in store.cached => w[c.span] = c.status)
  BY DEF MessageTrue
<1>5. /\ c.op = "insert" => next.row[c.span].at = "absent" /\ c.span \notin next.cached
      /\ c.op = "result" /\ c.span \in next.cached => c.span \in store.cached
  OBVIOUS
<1> HIDE DEF c, k
<1> QED BY <1>1, <1>2, <1>3, <1>4, <1>5 DEF MessageTrue

RowTrue(s) ==
  LET row == spanStore.row[s] IN
  /\ row.at = "over" => /\ work[s] # "running" /\ s \notin spanStore.cached /\ ~TraceComes(s)
                        /\ row.status = "ok" <=> work[s] = "ok"
                        /\ OnTheWay(s) => work[s] # "ok"
  /\ row.at = "open" => /\ work[s] \in {"running", "cut"} \/ s \in evicted \/ OnTheWay(s)
                        /\ s \in spanStore.cached \/ s \in evicted \/ work[s] = "cut"

LEMMA TakenKeeps ==
  ASSUME TraceInv, posted # <<>>, posted' = Tail(posted), serving, UNCHANGED <<work, away, evicted, serving, upsets>>,
         NEW s \in Spans, s = posted[1].span,
         spanStore' \in [row : [Spans -> [status : Statuses, at : {"absent", "open", "over"}]], cached : SUBSET Spans, roots : Int],
         \A u \in Spans \ {s} : spanStore'.row[u] \in {NoSpan, spanStore.row[u]} /\ (u \in spanStore'.cached <=> u \in spanStore.cached),
         RowTrue(s)', CapHeld', ViewerType', ShownTrue'
  PROVE  TraceInv'
<1>1. posted \in Seq(Messages) /\ work \in [Spans -> {"none", "running", "ok", "error", "cut"}]
  BY DEF TraceInv, TracesType, TraceType, Messages
<1>2. TraceType'
  BY DEF TraceInv, TraceType, ViewerType
<1>3. TracesType'
  <2>1. posted' \in Seq(Messages)
    BY <1>1, FirstTaken
  <2> QED BY <2>1 DEF TraceInv, TracesType, Messages
<1>4. MessagesTrue'
  <2> SUFFICES ASSUME NEW i \in 1..Len(posted') PROVE MessageTrue(posted', i, work, spanStore', away)
    BY DEF MessagesTrue
  <2> DEFINE c == posted[i + 1]
  <2>1. i + 1 \in 1..Len(posted) /\ i + 1 > 1 /\ 1 \in 1..Len(posted)
    BY <1>1, FirstTaken
  <2>2. MessageTrue(posted, i + 1, work, spanStore, away) /\ MessageTrue(posted, 1, work, spanStore, away)
    BY <2>1 DEF TraceInv, MessagesTrue
  <2>3. c.op = "insert" => c.span # s /\ spanStore.row[c.span].at = "absent" /\ c.span \notin spanStore.cached
    BY <2>1, <2>2 DEF MessageTrue
  <2>4. c.span \in Spans
    <3>1. c \in Messages
      BY <1>1, <2>1
    <3> QED BY <3>1 DEF Messages
  <2>5. c.op = "insert" => spanStore'.row[c.span].at = "absent" /\ c.span \notin spanStore'.cached
    BY <2>3, <2>4 DEF NoSpan
  <2>6. c.op = "result" /\ c.span \in spanStore'.cached => c.span \in spanStore.cached
    <3>1. c.op = "result" => c.span # s
      BY <2>1, <2>2 DEF MessageTrue
    <3> QED BY <2>4, <3>1
  <2> QED BY <1>1, <2>2, <2>5, <2>6, MessageMoves
<1>5. \A u \in Spans \ {s} : (OnTheWay(u)' <=> OnTheWay(u)) /\ (TraceComes(u)' <=> TraceComes(u))
  <2>1. \A i \in 1..Len(posted') : i + 1 \in 1..Len(posted) /\ posted'[i] = posted[i + 1]
    BY <1>1, FirstTaken
  <2>2. \A i \in 1..Len(posted) : i = 1 \/ (i - 1 \in 1..Len(posted') /\ posted'[i - 1] = posted[i])
    <3> SUFFICES ASSUME NEW i \in 1..Len(posted), i # 1 PROVE i - 1 \in 1..Len(posted') /\ posted'[i - 1] = posted[i]
      OBVIOUS
    <3>1. i > 1
      OBVIOUS
    <3> QED BY <1>1, <3>1, FirstTaken
  <2> SUFFICES ASSUME NEW u \in Spans \ {s} PROVE (OnTheWay(u)' <=> OnTheWay(u)) /\ (TraceComes(u)' <=> TraceComes(u))
    OBVIOUS
  <2>3. (OnTheWay(u)' => OnTheWay(u)) /\ (TraceComes(u)' => TraceComes(u))
    BY <2>1 DEF OnTheWay, TraceComes
  <2>4. ASSUME NEW i \in 1..Len(posted), posted[i].span = u PROVE OnTheWay(u)' /\ (posted[i].op # "result" => TraceComes(u)')
    <3>1. i # 1
      BY <2>4
    <3>2. i - 1 \in 1..Len(posted') /\ posted'[i - 1].span = u /\ posted'[i - 1] = posted[i]
      BY <2>2, <2>4, <3>1
    <3> QED BY <3>2, ZenonT(60) DEF OnTheWay, TraceComes
  <2> QED BY <2>3, <2>4 DEF OnTheWay, TraceComes
<1>6. work[s] # "none"
  BY <1>1, FirstTaken DEF TraceInv, MessagesTrue, MessageTrue
<1>7. RowsTrue'
  <2> SUFFICES ASSUME NEW u \in Spans
               PROVE /\ work'[u] = "none" => spanStore'.row[u] = NoSpan /\ u \notin spanStore'.cached
                     /\ RowTrue(u)' /\ (spanStore'.row[u].at = "open" => serving')
    BY DEF RowsTrue, RowTrue
  <2>1. CASE u = s
    BY <1>6, <2>1
  <2>2. CASE u # s
    <3>1. spanStore'.row[u] \in {NoSpan, spanStore.row[u]} /\ (u \in spanStore'.cached <=> u \in spanStore.cached)
          /\ (OnTheWay(u)' <=> OnTheWay(u)) /\ (TraceComes(u)' <=> TraceComes(u))
      BY <1>5, <2>2
    <3>2. /\ work[u] = "none" => spanStore.row[u] = NoSpan /\ u \notin spanStore.cached
          /\ RowTrue(u)
      BY DEF TraceInv, RowsTrue, RowTrue
    <3>3. NoSpan.at = "absent"
      BY DEF NoSpan
    <3> QED BY <3>1, <3>2, <3>3 DEF RowTrue
  <2> QED BY <2>1, <2>2
<1> QED BY <1>2, <1>3, <1>4, <1>7 DEF TraceInv

\* What a dashboard shows after a span is inserted, and after one has ended.
LEMMA InsertShown ==
  ASSUME TraceInv, NEW s \in Spans, spanStore.row[s].at = "absent", InsertSpan(s)
  PROVE  /\ spanStore' \in [row : [Spans -> [status : Statuses, at : {"absent", "open", "over"}]], cached : SUBSET Spans, roots : Int]
         /\ spanStore'.cached = spanStore.cached \cup {s}
         /\ \A u \in Spans : spanStore'.row[u] \in {NoSpan, IF u = s THEN OpenSpan ELSE spanStore.row[u]}
         /\ CapHeld' /\ ViewerType' /\ ShownTrue'
<1>1. spanStore' = Inserted(spanStore, s) /\ viewer' = Heard(viewer, "start", s, "unset")
  BY DEF InsertSpan
<1>2. /\ spanStore' \in [row : [Spans -> [status : Statuses, at : {"absent", "open", "over"}]], cached : SUBSET Spans, roots : Int]
      /\ spanStore'.cached = spanStore.cached \cup {s}
      /\ \A u \in Spans : spanStore'.row[u] \in {NoSpan, IF u = s THEN OpenSpan ELSE spanStore.row[u]}
      /\ CapHeld'
  BY <1>1, InsertedIs
<1>3. "unset" \in Statuses /\ NoSpan.at = "absent" /\ OpenSpan.at = "open"
  BY DEF Statuses, NoSpan, OpenSpan
<1>4. CASE IsRoot(s)
  <2> DEFINE t == s[1]
  <2>1. t \in Traces /\ s = Root(t)
    BY <1>4, SpansAre
  <2>2. /\ ViewerType'
        /\ viewer'.on /\ viewer'.status = "all" /\ ~viewer'.missed =>
             /\ viewer.on /\ viewer.status = "all" /\ ~viewer.missed
             /\ \A u \in Traces \ {t} : Shown(viewer', u) = Shown(viewer, u)
             /\ Shown(viewer', t) = "unset"
    <3> HIDE DEF t
    <3>1. viewer' = Heard(viewer, "start", Root(t), "unset")
      BY <1>1, <2>1
    <3> QED BY <1>3, <2>1, <3>1, HeardIs
  <2>3. ShownTrue'
    <3> SUFFICES ASSUME viewer'.on, viewer'.status = "all", ~viewer'.missed, NEW u \in Traces
                 PROVE /\ spanStore'.row[Root(u)].at = "over" => Shown(viewer', u) = spanStore'.row[Root(u)].status
                       /\ spanStore'.row[Root(u)].at = "open" => Shown(viewer', u) # "none"
      BY DEF ShownTrue
    <3>1. CASE u = t
      BY <1>2, <1>3, <2>1, <2>2, <3>1
    <3>2. CASE u # t
      <4>1. Root(u) # s /\ Root(u) \in Spans
        BY <2>1, <3>2, SpansAre
      <4>2. spanStore'.row[Root(u)] \in {NoSpan, spanStore.row[Root(u)]}
        BY <1>2, <4>1
      <4>3. Shown(viewer', u) = Shown(viewer, u)
        BY <2>2, <3>2
      <4> QED BY <1>3, <2>2, <4>2, <4>3 DEF TraceInv, ShownTrue
    <3> QED BY <3>1, <3>2
  <2> QED BY <1>2, <2>2, <2>3
<1>5. CASE ~IsRoot(s)
  <2>1. viewer' = viewer
    BY <1>1, <1>5 DEF Heard
  <2>2. \A u \in Traces : spanStore'.row[Root(u)] \in {NoSpan, spanStore.row[Root(u)]}
    BY <1>2, <1>5, SpansAre
  <2>3. ViewerType'
    BY <2>1 DEF TraceInv, ViewerType
  <2>4. ShownTrue'
    BY <1>3, <2>1, <2>2 DEF TraceInv, ShownTrue
  <2> QED BY <1>2, <2>3, <2>4
<1> QED BY <1>4, <1>5

LEMMA EndShown ==
  ASSUME TraceInv, NEW s \in Spans, NEW x \in {"ok", "error"}, EndSpan(s, x)
  PROVE  /\ spanStore' \in [row : [Spans -> [status : Statuses, at : {"absent", "open", "over"}]], cached : SUBSET Spans, roots : Int]
         /\ spanStore'.cached = spanStore.cached \ {s}
         /\ \A u \in Spans : spanStore'.row[u] = IF u = s /\ s \in spanStore.cached /\ spanStore.row[s].at # "absent"
                                                 THEN [status |-> x, at |-> "over"] ELSE spanStore.row[u]
         /\ CapHeld' /\ ViewerType' /\ ShownTrue'
<1>1. spanStore' = AllEnded(spanStore, {s}, x)
      /\ viewer' = IF s \in spanStore.cached /\ spanStore.row[s].at # "absent" THEN Heard(viewer, "end", s, x) ELSE viewer
  BY DEF EndSpan, Ended, SpanRows
<1>2. x \in Statuses
  BY DEF Statuses
<1>3. /\ spanStore' \in [row : [Spans -> [status : Statuses, at : {"absent", "open", "over"}]], cached : SUBSET Spans, roots : Int]
      /\ spanStore'.cached = spanStore.cached \ {s}
      /\ \A u \in Spans : spanStore'.row[u] = IF u = s /\ s \in spanStore.cached /\ spanStore.row[s].at # "absent"
                                              THEN [status |-> x, at |-> "over"] ELSE spanStore.row[u]
      /\ spanStore'.roots = spanStore.roots /\ RootTraces(spanStore') = RootTraces(spanStore)
  <2>1. \A u \in Spans : spanStore'.row[u] = IF u \in {s} \cap spanStore.cached /\ spanStore.row[u].at # "absent"
                                             THEN [status |-> x, at |-> "over"] ELSE spanStore.row[u]
    BY <1>1, <1>2, EndedIs
  <2>2. \A u : u \in {s} \cap spanStore.cached <=> (u = s /\ s \in spanStore.cached)
    OBVIOUS
  <2>3. \A u \in Spans : spanStore'.row[u] = IF u = s /\ s \in spanStore.cached /\ spanStore.row[s].at # "absent"
                                              THEN [status |-> x, at |-> "over"] ELSE spanStore.row[u]
    BY <2>1, <2>2
  <2> QED BY <1>1, <1>2, <2>3, EndedIs
<1>4. CapHeld'
  BY <1>3 DEF TraceInv, CapHeld
<1>5. CASE s \in spanStore.cached /\ spanStore.row[s].at # "absent" /\ IsRoot(s)
  <2> DEFINE t == s[1]
  <2>1. t \in Traces /\ s = Root(t)
    BY <1>5, SpansAre
  <2>2. spanStore.row[s].at = "open"
    BY <1>5 DEF TraceInv, TracesType, RowsTrue
  <2>3. /\ ViewerType'
        /\ viewer'.on /\ viewer'.status = "all" /\ ~viewer'.missed =>
             /\ viewer.on /\ viewer.status = "all" /\ ~viewer.missed
             /\ \A u \in Traces \ {t} : Shown(viewer', u) = Shown(viewer, u)
             /\ Shown(viewer, t) # "none" => Shown(viewer', t) = x
    <3> HIDE DEF t
    <3>1. viewer' = Heard(viewer, "end", Root(t), x)
      BY <1>1, <1>5, <2>1
    <3> QED BY <1>2, <2>1, <3>1, HeardIs
  <2>4. ShownTrue'
    <3> SUFFICES ASSUME viewer'.on, viewer'.status = "all", ~viewer'.missed, NEW u \in Traces
                 PROVE /\ spanStore'.row[Root(u)].at = "over" => Shown(viewer', u) = spanStore'.row[Root(u)].status
                       /\ spanStore'.row[Root(u)].at = "open" => Shown(viewer', u) # "none"
      BY DEF ShownTrue
    <3>1. CASE u = t
      <4>1. Shown(viewer, t) # "none"
        BY <2>1, <2>2, <2>3 DEF TraceInv, ShownTrue
      <4>2. spanStore'.row[Root(u)] = [status |-> x, at |-> "over"]
        BY <1>3, <1>5, <2>1, <3>1
      <4> QED BY <2>3, <3>1, <4>1, <4>2
    <3>2. CASE u # t
      <4>1. Root(u) # s /\ Root(u) \in Spans
        BY <2>1, <3>2, SpansAre
      <4>2. spanStore'.row[Root(u)] = spanStore.row[Root(u)]
        BY <1>3, <4>1
      <4>3. Shown(viewer', u) = Shown(viewer, u)
        BY <2>3, <3>2
      <4> QED BY <2>3, <4>2, <4>3 DEF TraceInv, ShownTrue
    <3> QED BY <3>1, <3>2
  <2> QED BY <1>3, <1>4, <2>3, <2>4
<1>6. CASE ~(s \in spanStore.cached /\ spanStore.row[s].at # "absent" /\ IsRoot(s))
  <2>1. viewer' = viewer
    BY <1>1, <1>6 DEF Heard
  <2>2. \A u \in Traces : spanStore'.row[Root(u)] = spanStore.row[Root(u)]
    BY <1>3, <1>6, SpansAre
  <2>3. ViewerType'
    BY <2>1 DEF TraceInv, ViewerType
  <2>4. ShownTrue'
    BY <2>1, <2>2 DEF TraceInv, ShownTrue
  <2> QED BY <1>3, <1>4, <2>3, <2>4
<1> QED BY <1>5, <1>6

LEMMA FirstKeeps ==
  ASSUME TraceInv, ReceiveTrace, serving, NEW m, m = posted[1], NEW s, s = m.span
  PROVE  TraceInv'
<1>1. posted # <<>> /\ posted \in Seq(Messages) /\ posted' = Tail(posted) /\ UNCHANGED <<work, away, evicted, serving, upsets>>
  BY DEF ReceiveTrace, TraceInv, TracesType, Messages
<1>2. Head(posted) = m /\ 1 \in 1..Len(posted) /\ m \in Messages
  BY <1>1, FirstTaken
<1>3. s \in Spans /\ MessageTrue(posted, 1, work, spanStore, away) /\ OnTheWay(s)
  BY <1>2 DEF TraceInv, MessagesTrue, Messages, OnTheWay
<1>4. EndComes(posted, s, 1) => OnTheWay(s)'
  <2> SUFFICES ASSUME NEW j \in 1..Len(posted), j > 1, posted[j].span = s PROVE OnTheWay(s)'
    BY DEF EndComes
  <2>1. j - 1 \in 1..Len(posted') /\ posted'[j - 1] = posted[j]
    BY <1>1, FirstTaken
  <2> QED BY <2>1 DEF OnTheWay
<1>5. (\A j \in 1..Len(posted) : j > 1 => posted[j].span # s) => ~OnTheWay(s)'
  <2> SUFFICES ASSUME \A j \in 1..Len(posted) : j > 1 => posted[j].span # s, NEW i \in 1..Len(posted') PROVE posted'[i].span # s
    BY DEF OnTheWay
  <2>1. i + 1 \in 1..Len(posted) /\ i + 1 > 1 /\ posted'[i] = posted[i + 1]
    BY <1>1, FirstTaken
  <2> QED BY <2>1
<1>6. m.op # "result" => spanStore.row[s].at # "over"
  <2>1. m.op # "result" => TraceComes(s)
    BY <1>2 DEF TraceComes
  <2> QED BY <1>3, <2>1 DEF TraceInv, RowsTrue
<1>7. /\ work[s] # "none"
      /\ m.op = "insert" => /\ spanStore.row[s].at = "absent" /\ s \notin spanStore.cached
                            /\ work[s] \in {"running", "cut"} \/ EndComes(posted, s, 1)
      /\ m.op = "flag" => work[s] = "cut" \/ (work[s] = "error" /\ EndComes(posted, s, 1))
      /\ m.op \in {"end", "result"} => /\ m.status \in {"ok", "error"}
                                       /\ \A j \in 1..Len(posted) : j > 1 => posted[j].span # s
                                       /\ m.op = "end" \/ s \in spanStore.cached => work[s] = m.status
  BY <1>3 DEF MessageTrue
<1>8. NoSpan.at = "absent" /\ OpenSpan.at = "open"
  BY DEF NoSpan, OpenSpan
<1>9. s = posted[1].span
  OBVIOUS
<1>10. CASE m.op = "insert" /\ InsertSpan(s)
  <2>1. /\ spanStore' \in [row : [Spans -> [status : Statuses, at : {"absent", "open", "over"}]], cached : SUBSET Spans, roots : Int]
        /\ spanStore'.cached = spanStore.cached \cup {s}
        /\ \A u \in Spans : spanStore'.row[u] \in {NoSpan, IF u = s THEN OpenSpan ELSE spanStore.row[u]}
        /\ CapHeld' /\ ViewerType' /\ ShownTrue'
    BY <1>3, <1>7, <1>10, InsertShown
  <2>2. RowTrue(s)'
    BY <1>1, <1>3, <1>4, <1>7, <1>8, <1>10, <2>1 DEF RowTrue
  <2>3. \A u \in Spans \ {s} : spanStore'.row[u] \in {NoSpan, spanStore.row[u]} /\ (u \in spanStore'.cached <=> u \in spanStore.cached)
    BY <2>1
  <2> QED BY <1>1, <1>3, <1>9, <2>1, <2>2, <2>3, TakenKeeps
<1>11. CASE m.op = "flag" /\ spanStore' = Flagged(spanStore, s) /\ UNCHANGED viewer
  <2> DEFINE Row == [status : Statuses, at : {"absent", "open", "over"}]
             r == [spanStore.row EXCEPT ![s] = IF spanStore.row[s].at = "absent" THEN spanStore.row[s] ELSE [spanStore.row[s] EXCEPT !.status = "error"]]
  <2>1. spanStore \in [row : [Spans -> Row], cached : SUBSET Spans, roots : Int]
    BY DEF TraceInv, TracesType
  <2>2. spanStore' = [spanStore EXCEPT !.row = r]
    BY <1>11 DEF Flagged
  <2>3. r \in [Spans -> Row] /\ r[s].at = spanStore.row[s].at /\ \A u \in Spans \ {s} : r[u] = spanStore.row[u]
    BY <1>3, <2>1 DEF Statuses
  <2>4. /\ spanStore' \in [row : [Spans -> [status : Statuses, at : {"absent", "open", "over"}]], cached : SUBSET Spans, roots : Int]
        /\ spanStore'.row = r /\ spanStore'.cached = spanStore.cached /\ spanStore'.roots = spanStore.roots
    <3>1. spanStore' \in [row : [Spans -> Row], cached : SUBSET Spans, roots : Int]
      <4> HIDE DEF r, Row
      <4> QED BY <2>1, <2>2, <2>3
    <3>2. spanStore'.row = r /\ spanStore'.cached = spanStore.cached /\ spanStore'.roots = spanStore.roots
      <4> HIDE DEF r, Row
      <4> QED BY <2>1, <2>2
    <3> QED BY <3>1, <3>2
  <2> HIDE DEF r
  <2>5. \A u \in Spans : spanStore'.row[u].at = spanStore.row[u].at
    BY <2>3, <2>4
  <2>6. CapHeld'
    <3>1. RootTraces(spanStore') = RootTraces(spanStore)
      BY <2>5 DEF RootTraces, SpanRows
    <3> QED BY <2>4, <3>1 DEF TraceInv, CapHeld
  <2>7. ViewerType'
    BY <1>11 DEF TraceInv, ViewerType
  <2>8. ShownTrue'
    <3>1. \A t \in Traces : spanStore'.row[Root(t)].at = spanStore.row[Root(t)].at
                            /\ (spanStore.row[Root(t)].at = "over" => spanStore'.row[Root(t)] = spanStore.row[Root(t)])
      BY <1>6, <1>11, <2>3, <2>4, <2>5, SpansAre
    <3> QED BY <1>11, <3>1 DEF TraceInv, ShownTrue
  <2>9. RowTrue(s)'
    <3>1. RowTrue(s)
      BY <1>3 DEF TraceInv, RowsTrue, RowTrue
    <3> QED BY <1>1, <1>3, <1>4, <1>6, <1>7, <1>11, <2>4, <2>5, <3>1 DEF RowTrue
  <2>10. \A u \in Spans \ {s} : spanStore'.row[u] \in {NoSpan, spanStore.row[u]} /\ (u \in spanStore'.cached <=> u \in spanStore.cached)
    BY <2>3, <2>4
  <2> QED BY <1>1, <1>3, <1>9, <2>4, <2>6, <2>7, <2>8, <2>9, <2>10, TakenKeeps
<1>12. CASE m.op \in {"end", "result"} /\ EndSpan(s, m.status)
  <2> DEFINE x == m.status
  <2>1. x \in {"ok", "error"} /\ (s \in spanStore.cached => work[s] = x) /\ ~OnTheWay(s)' /\ ~TraceComes(s)'
    BY <1>5, <1>7, <1>12 DEF OnTheWay, TraceComes
  <2>2. EndSpan(s, x)
    BY <1>12
  <2> HIDE DEF x
  <2>3. /\ spanStore' \in [row : [Spans -> [status : Statuses, at : {"absent", "open", "over"}]], cached : SUBSET Spans, roots : Int]
        /\ spanStore'.cached = spanStore.cached \ {s}
        /\ \A u \in Spans : spanStore'.row[u] = IF u = s /\ s \in spanStore.cached /\ spanStore.row[s].at # "absent"
                                                THEN [status |-> x, at |-> "over"] ELSE spanStore.row[u]
        /\ CapHeld' /\ ViewerType' /\ ShownTrue'
    BY <1>3, <2>1, <2>2, EndShown
  <2>4. RowTrue(s)'
    <3>1. RowTrue(s)
      BY <1>3 DEF TraceInv, RowsTrue, RowTrue
    <3>2. spanStore'.row[s] = IF s \in spanStore.cached /\ spanStore.row[s].at # "absent"
                              THEN [status |-> x, at |-> "over"] ELSE spanStore.row[s]
      BY <1>3, <2>3
    <3>3. s \notin spanStore'.cached /\ work' = work /\ evicted' = evicted
      BY <1>1, <2>3
    <3>4. CASE s \in spanStore.cached /\ spanStore.row[s].at # "absent"
      BY <2>1, <3>2, <3>3, <3>4 DEF RowTrue
    <3>5. CASE ~(s \in spanStore.cached /\ spanStore.row[s].at # "absent")
      BY <2>1, <3>1, <3>2, <3>3, <3>5 DEF RowTrue
    <3> QED BY <3>4, <3>5
  <2>5. \A u \in Spans \ {s} : spanStore'.row[u] \in {NoSpan, spanStore.row[u]} /\ (u \in spanStore'.cached <=> u \in spanStore.cached)
    BY <2>3
  <2> QED BY <1>1, <1>3, <1>9, <2>3, <2>4, <2>5, TakenKeeps
<1>13. \/ m.op = "insert" /\ InsertSpan(s)
       \/ m.op = "flag" /\ spanStore' = Flagged(spanStore, s) /\ UNCHANGED viewer
       \/ m.op \in {"end", "result"} /\ EndSpan(s, m.status)
  BY <1>2 DEF ReceiveTrace
<1> QED BY <1>10, <1>11, <1>12, <1>13

LEMMA ReceiveKeeps ==
  ASSUME TraceInv, ReceiveTrace, serving
  PROVE  TraceInv'
<1>1. \A m, s : m = posted[1] /\ s = m.span => TraceInv'
  BY FirstKeeps
<1> QED BY <1>1

LEMMA ShownType ==
  ASSUME TraceInv, NEW t \in Traces
  PROVE  /\ Shown(viewer, t) \in Statuses \cup {"none"}
         /\ viewer.buffer = <<>> => Shown(viewer, t) = viewer.shows[t]
<1> DEFINE b == viewer.buffer
           mine == {i \in 1..Len(b) : b[i].span[1] = t}
           last == CHOOSE i \in mine : \A j \in mine : j <= i
<1>1. b \in Seq(TraceEvents) /\ viewer.shows[t] \in Statuses \cup {"none"} /\ Len(b) \in Nat
  BY DEF TraceInv, ViewerType, TraceEvents
<1>2. \A i \in mine : b[i].status \in Statuses
  <2> SUFFICES ASSUME NEW i \in 1..Len(b) PROVE b[i].status \in Statuses
    OBVIOUS
  <2>1. b[i] \in TraceEvents
    BY <1>1
  <2> QED BY <2>1 DEF TraceEvents
<1>3. mine # {} => last \in mine
  <2>1. mine \subseteq 0..Len(b)
    OBVIOUS
  <2> HIDE DEF mine
  <2> QED BY <1>1, <2>1, GreatestNumber
<1>4. Shown(viewer, t) = IF mine = {} \/ (viewer.shows[t] = "none" /\ \A i \in mine : b[i].op = "end") THEN viewer.shows[t] ELSE b[last].status
  BY DEF Shown
<1>5. b = <<>> => mine = {}
  OBVIOUS
<1> HIDE DEF mine, last
<1> QED BY <1>1, <1>2, <1>3, <1>4, <1>5

LEMMA RootStartsKeeps ==
  ASSUME TraceInv, NEW t \in Traces, RootStarts(t), serving
  PROVE  TraceInv'
<1> DEFINE s == Root(t)
<1>1. /\ s \in Spans /\ work[s] = "none" /\ work' = [work EXCEPT ![s] = "running"] /\ InsertSpan(s)
      /\ UNCHANGED <<away, posted, evicted, serving, upsets>>
  BY SpansAre DEF RootStarts
<1>2. posted \in Seq(Messages) /\ work \in [Spans -> {"none", "running", "ok", "error", "cut"}]
  BY DEF TraceInv, TracesType, TraceType, Messages
<1>3. spanStore.row[s] = NoSpan /\ s \notin spanStore.cached /\ \A i \in 1..Len(posted) : posted[i].span # s
  BY <1>1 DEF TraceInv, RowsTrue, MessagesTrue, MessageTrue
<1>4. NoSpan.at = "absent" /\ OpenSpan.at = "open"
  BY DEF NoSpan, OpenSpan
<1> HIDE DEF s
<1>5. /\ spanStore' \in [row : [Spans -> [status : Statuses, at : {"absent", "open", "over"}]], cached : SUBSET Spans, roots : Int]
      /\ spanStore'.cached = spanStore.cached \cup {s}
      /\ \A u \in Spans : spanStore'.row[u] \in {NoSpan, IF u = s THEN OpenSpan ELSE spanStore.row[u]}
      /\ CapHeld' /\ ViewerType' /\ ShownTrue'
  BY <1>1, <1>3, <1>4, InsertShown
<1>6. work'[s] = "running" /\ work' \in [Spans -> {"none", "running", "ok", "error", "cut"}]
      /\ \A u \in Spans : u # s => work'[u] = work[u]
  BY <1>1, <1>2
<1>7. TraceType' /\ TracesType'
  BY <1>1, <1>5, <1>6 DEF TraceInv, TraceType, TracesType, ViewerType
<1>8. MessagesTrue'
  <2> SUFFICES ASSUME NEW i \in 1..Len(posted) PROVE MessageTrue(posted, i, work', spanStore', away)
    BY <1>1 DEF MessagesTrue
  <2>1. posted[i].span \in Spans /\ posted[i].span # s
    <3>1. posted[i] \in Messages
      BY <1>2
    <3> QED BY <1>3, <3>1 DEF Messages
  <2>2. MessageTrue(posted, i, work, spanStore, away)
    BY DEF TraceInv, MessagesTrue
  <2>3. /\ work'[posted[i].span] = work[posted[i].span]
        /\ spanStore'.row[posted[i].span] \in {NoSpan, spanStore.row[posted[i].span]}
        /\ (posted[i].span \in spanStore'.cached <=> posted[i].span \in spanStore.cached)
    BY <1>5, <1>6, <2>1
  <2> QED BY <1>4, <2>2, <2>3 DEF MessageTrue
<1>9. RowsTrue'
  <2>1. \A u : (OnTheWay(u)' <=> OnTheWay(u)) /\ (TraceComes(u)' <=> TraceComes(u))
    BY <1>1 DEF OnTheWay, TraceComes
  <2> SUFFICES ASSUME NEW u \in Spans
               PROVE /\ work'[u] = "none" => spanStore'.row[u] = NoSpan /\ u \notin spanStore'.cached
                     /\ RowTrue(u)' /\ (spanStore'.row[u].at = "open" => serving')
    BY DEF RowsTrue, RowTrue
  <2>2. CASE u = s
    BY <1>1, <1>4, <1>5, <1>6, <2>2 DEF RowTrue
  <2>3. CASE u # s
    <3>1. /\ spanStore'.row[u] \in {NoSpan, spanStore.row[u]} /\ (u \in spanStore'.cached <=> u \in spanStore.cached)
          /\ work'[u] = work[u]
      BY <1>5, <1>6, <2>3
    <3>2. /\ work[u] = "none" => spanStore.row[u] = NoSpan /\ u \notin spanStore.cached
          /\ RowTrue(u)
      BY DEF TraceInv, RowsTrue, RowTrue
    <3> QED BY <1>1, <1>4, <2>1, <3>1, <3>2 DEF RowTrue
  <2> QED BY <2>2, <2>3
<1> QED BY <1>5, <1>7, <1>8, <1>9 DEF TraceInv

\* What is left of the messages when a thread stops: those that main has already.
LEMMA PostedLeft ==
  ASSUME NEW q \in Seq(Messages), NEW k \in 0..Len(q), NEW p, p = SubSeq(q, 1, k)
  PROVE  /\ p \in Seq(Messages) /\ Len(p) = k /\ k \in Nat
         /\ \A i \in 1..k : i \in 1..Len(q) /\ i \in 1..Len(p) /\ p[i] = q[i]
         /\ \A i \in 1..Len(q) : i \in 1..k \/ i \in k+1..Len(q)
<1>1. Len(q) \in Nat
  OBVIOUS
<1>2. p \in Seq(Messages) /\ Len(p) = k
  BY <1>1
<1>3. \A i \in 1..k : i \in 1..Len(q) /\ p[i] = q[i]
  BY <1>1
<1> QED BY <1>1, <1>2, <1>3

LostFrom(q, k, s) == \E j \in k+1..Len(q) : q[j].span = s

\* What a stop makes of the span that a message is about.
StopBecomes(q, k, c, w, v, store, next) ==
  /\ v[c.span] # "none"
  /\ next.row[c.span].at = "absent" \/ store.row[c.span].at # "absent"
  /\ c.span \in next.cached => c.span \in store.cached
  /\ c.op = "result" => c.span \notin next.cached /\ v[c.span] # "running"
  /\ c.op # "result" => v[c.span] = IF w[c.span] = "running" \/ LostFrom(q, k, c.span) THEN "cut" ELSE w[c.span]

LEMMA MessageLeft ==
  ASSUME NEW q \in Seq(Messages), NEW k \in 0..Len(q), NEW p, p = SubSeq(q, 1, k), NEW i \in 1..k,
         NEW w, NEW v, NEW store, NEW next, NEW aw, NEW c, c = q[i], MessageTrue(q, i, w, store, aw),
         StopBecomes(q, k, c, w, v, store, next)
  PROVE  MessageTrue(p, i, v, next, aw)
<1>0. /\ v[c.span] # "none"
      /\ next.row[c.span].at = "absent" \/ store.row[c.span].at # "absent"
      /\ c.span \in next.cached => c.span \in store.cached
      /\ c.op = "result" => c.span \notin next.cached /\ v[c.span] # "running"
      /\ c.op # "result" => v[c.span] = IF w[c.span] = "running" \/ LostFrom(q, k, c.span) THEN "cut" ELSE w[c.span]
  BY DEF StopBecomes
<1>1. p[i] = c /\ i \in Nat /\ Len(p) = k /\ i <= k /\ k \in Nat /\ Len(q) \in Nat
  BY PostedLeft
<1>2. \A j \in 1..Len(p) : j \in 1..Len(q) /\ p[j] = q[j]
  BY PostedLeft
<1>3. EndComes(q, c.span, i) => EndComes(p, c.span, i) \/ LostFrom(q, k, c.span)
  BY PostedLeft DEF EndComes, LostFrom
<1>4. /\ w[c.span] # "none"
      /\ c.op = "result" <=> IsRoot(c.span) /\ c.span[1] \notin aw
      /\ c.op = "insert" => /\ store.row[c.span].at = "absent" /\ c.span \notin store.cached
                            /\ \A j \in 1..Len(q) : j < i => q[j].span # c.span
                            /\ w[c.span] \in {"running", "cut"} \/ EndComes(q, c.span, i)
      /\ c.op = "flag" => w[c.span] = "cut" \/ (w[c.span] = "error" /\ EndComes(q, c.span, i))
      /\ c.op \in {"end", "result"} => /\ c.status \in {"ok", "error"}
                                       /\ \A j \in 1..Len(q) : j > i => q[j].span # c.span
      /\ c.op = "end" => w[c.span] = c.status
      /\ c.op = "result" => w[c.span] # "running" /\ (c.span \in store.cached => w[c.span] = c.status)
  BY DEF MessageTrue
<1>5. c.op = "end" => ~LostFrom(q, k, c.span)
  <2> SUFFICES ASSUME c.op = "end", NEW j \in k+1..Len(q) PROVE q[j].span # c.span
    BY DEF LostFrom
  <2>1. j \in 1..Len(q) /\ j > i
    BY <1>1
  <2> QED BY <1>4, <2>1
<1>6. c.op # "result" => v[c.span] = IF w[c.span] = "running" \/ LostFrom(q, k, c.span) THEN "cut" ELSE w[c.span]
  BY <1>0
<1>7. c.op = "insert" => v[c.span] \in {"running", "cut"} \/ EndComes(p, c.span, i)
  BY <1>3, <1>4, <1>6
<1>8. c.op = "flag" => v[c.span] = "cut" \/ (v[c.span] = "error" /\ EndComes(p, c.span, i))
  BY <1>3, <1>4, <1>6
<1>9. c.op = "end" => v[c.span] = c.status
  BY <1>4, <1>5, <1>6
<1>10. c.op = "result" => v[c.span] # "running" /\ c.span \notin next.cached
  BY <1>0
<1>11. c.op = "insert" => next.row[c.span].at = "absent" /\ c.span \notin next.cached
  BY <1>0, <1>4
<1> QED BY <1>0, <1>1, <1>2, <1>4, <1>7, <1>8, <1>9, <1>10, <1>11 DEF MessageTrue

LEMMA StopsKeep ==
  ASSUME TraceInv, ThreadStops, serving
  PROVE  TraceInv'
<1> DEFINE gone == Unanswered
<1>1. PICK k \in 0..Len(posted) :
        /\ posted' = SubSeq(posted, 1, k)
        /\ work' = [s \in Spans |-> IF s \in gone THEN "error" ELSE IF work[s] = "running" \/ Lost(k, s) THEN "cut" ELSE work[s]]
  BY DEF ThreadStops
<1>2. PICK events \in Rejections : viewer' = HeardAll(viewer, events)
  BY DEF ThreadStops
<1>20. spanStore' = AllEnded(spanStore, gone, "error") /\ upsets' = upsets + 1 /\ UNCHANGED <<away, evicted, serving>>
  BY DEF ThreadStops, Upset
<1>21. posted \in Seq(Messages)
  BY DEF TraceInv, TracesType, Messages
<1>3. gone \subseteq spanStore.cached /\ \A s \in gone : s \in Spans /\ IsRoot(s) /\ s[1] \notin away /\ work[s] # "none"
  BY DEF Unanswered
<1>22. \A s \in Spans : IsRoot(s) /\ s[1] \notin away /\ work[s] # "none" /\ s \in spanStore.cached => s \in gone
  BY DEF Unanswered
<1>4. /\ spanStore' \in [row : [Spans -> [status : Statuses, at : {"absent", "open", "over"}]], cached : SUBSET Spans, roots : Int]
      /\ spanStore'.cached = spanStore.cached \ gone
      /\ \A u \in Spans : spanStore'.row[u] = IF u \in gone \cap spanStore.cached /\ spanStore.row[u].at # "absent"
                                              THEN [status |-> "error", at |-> "over"] ELSE spanStore.row[u]
      /\ spanStore'.roots = spanStore.roots /\ RootTraces(spanStore') = RootTraces(spanStore)
  <2>1. "error" \in Statuses
    BY DEF Statuses
  <2> HIDE DEF gone
  <2> QED BY <1>20, <2>1, EndedIs
<1>5. \A u \in Spans : spanStore'.row[u] = IF u \in gone /\ spanStore.row[u].at # "absent"
                                            THEN [status |-> "error", at |-> "over"] ELSE spanStore.row[u]
  <2> HIDE DEF gone
  <2> QED BY <1>3, <1>4
<1>6. work \in [Spans -> {"none", "running", "ok", "error", "cut"}]
  BY DEF TraceInv, TraceType
<1>7. work' \in [Spans -> {"none", "running", "ok", "error", "cut"}]
  BY <1>1, <1>6
<1>8. \A u : /\ OnTheWay(u)' => OnTheWay(u)
             /\ TraceComes(u)' => TraceComes(u)
             /\ OnTheWay(u) => OnTheWay(u)' \/ Lost(k, u)
             /\ Lost(k, u) => OnTheWay(u)
  <2>1. Len(posted') = k /\ \A i \in 1..k : i \in 1..Len(posted) /\ posted'[i] = posted[i]
    BY <1>1, <1>21, PostedLeft
  <2>2. \A i \in 1..Len(posted) : i \in 1..k \/ i \in k+1..Len(posted)
    BY <1>21, PostedLeft
  <2>3. \A i \in k+1..Len(posted) : i \in 1..Len(posted)
    OBVIOUS
  <2> QED BY <2>1, <2>2, <2>3 DEF OnTheWay, TraceComes, Lost
<1>9. \A u \in Spans : work'[u] = IF u \in gone THEN "error" ELSE IF work[u] = "running" \/ Lost(k, u) THEN "cut" ELSE work[u]
  BY <1>1
<1>23. CapHeld'
  BY <1>4 DEF TraceInv, CapHeld
<1>24. \A s \in gone : ~TraceComes(s)
  <2> SUFFICES ASSUME NEW s \in gone, NEW i \in 1..Len(posted), posted[i].span = s PROVE posted[i].op = "result"
    BY DEF TraceComes
  <2>1. MessageTrue(posted, i, work, spanStore, away)
    BY DEF TraceInv, MessagesTrue
  <2> HIDE DEF gone
  <2> QED BY <1>3, <2>1 DEF MessageTrue
<1>10. MessagesTrue'
  <2> SUFFICES ASSUME NEW i \in 1..k PROVE MessageTrue(posted', i, work', spanStore', away)
    BY <1>1, <1>20, <1>21, PostedLeft DEF MessagesTrue
  <2> DEFINE c == posted[i]
  <2> HIDE DEF gone
  <2>1. i \in 1..Len(posted)
    BY <1>21, PostedLeft
  <2>2. c \in Messages
    BY <1>21, <2>1
  <2>3. c.span \in Spans
    BY <2>2 DEF Messages
  <2>4. MessageTrue(posted, i, work, spanStore, away)
    BY <2>1 DEF TraceInv, MessagesTrue
  <2>5. work[c.span] # "none" /\ (c.op = "result" <=> IsRoot(c.span) /\ c.span[1] \notin away)
        /\ (c.op = "result" => work[c.span] # "running")
    BY <2>4 DEF MessageTrue
  <2>6. c.span \in gone => c.op = "result"
    BY <1>3, <2>5
  <2>7. c.op = "result" => c.span \notin spanStore'.cached
    BY <1>4, <1>22, <2>3, <2>5
  <2>8. work'[c.span] # "none" /\ (c.op = "result" => work'[c.span] # "running")
    BY <1>9, <2>3, <2>5
  <2>9. c.op # "result" => work'[c.span] = IF work[c.span] = "running" \/ LostFrom(posted, k, c.span) THEN "cut" ELSE work[c.span]
    BY <1>9, <2>3, <2>6 DEF Lost, LostFrom
  <2>10. spanStore'.row[c.span].at = "absent" \/ spanStore.row[c.span].at # "absent"
    BY <1>5, <2>3
  <2>11. c.span \in spanStore'.cached => c.span \in spanStore.cached
    BY <1>4
  <2> HIDE DEF c
  <2>12. c = posted[i]
    BY DEF c
  <2>13. c.op = "result" => c.span \notin spanStore'.cached /\ work'[c.span] # "running"
    BY <2>7, <2>8
  <2>14. work'[c.span] # "none"
    BY <2>8
  <2>15. StopBecomes(posted, k, c, work, work', spanStore, spanStore')
    BY <2>9, <2>10, <2>11, <2>13, <2>14 DEF StopBecomes
  <2>16. posted' = SubSeq(posted, 1, k)
    BY <1>1
  <2> QED BY <1>21, <2>4, <2>12, <2>15, <2>16, MessageLeft
<1>11. Spans \cap gone \cap SpanRows(spanStore) = gone \cap SpanRows(spanStore)
  BY DEF SpanRows
<1> DEFINE ended == gone \cap SpanRows(spanStore)
           n == Cardinality(ended)
<1>12. /\ n \in Nat /\ events \in [1..n -> TraceEvents] /\ \A i \in 1..n : events[i].op = "end" /\ events[i].status = "error"
       /\ \A s \in ended : \E i \in 1..n : events[i].span = s
       /\ \A i \in 1..n : events[i].span \in ended
  <2>1. ended \subseteq {Root(t) : t \in Traces}
    BY <1>3, SpansAre
  <2>2. IsFiniteSet({Root(t) : t \in Traces})
    <3> DEFINE f == [t \in Traces |-> Root(t)]
    <3>1. f \in Surjection(Traces, {Root(t) : t \in Traces})
      BY DEF Surjection
    <3> HIDE DEF f
    <3> QED BY <3>1, SpansAre, FS_Surjection
  <2>3. n \in Nat
    <3> HIDE DEF ended
    <3> QED BY <2>1, <2>2, FS_Subset, FS_CardinalityType
  <2>4. /\ events \in [1..n -> {TraceMessage("end", s, "error") : s \in ended}]
        /\ \A s \in ended : \E i \in 1..n : events[i].span = s
    BY DEF Rejections
  <2> HIDE DEF ended, n
  <2>5. \A i \in 1..n : \E s \in ended : events[i] = [op |-> "end", span |-> s, status |-> "error"]
    BY <2>4 DEF TraceMessage
  <2>6. \A i \in 1..n : events[i].op = "end" /\ events[i].status = "error" /\ events[i].span \in ended /\ events[i] \in TraceEvents
    <3> SUFFICES ASSUME NEW i \in 1..n, NEW s \in ended, events[i] = [op |-> "end", span |-> s, status |-> "error"]
                 PROVE  events[i].op = "end" /\ events[i].status = "error" /\ events[i].span \in ended /\ events[i] \in TraceEvents
      BY <2>5
    <3>1. s \in {Root(t) : t \in Traces}
      BY <2>1
    <3> QED BY <3>1 DEF TraceEvents, Statuses
  <2>7. events \in [1..n -> TraceEvents]
    BY <2>4, <2>6
  <2> QED BY <2>3, <2>4, <2>6, <2>7
<1> HIDE DEF gone
<1>13. \A t \in Traces : (\E i \in 1..n : events[i].span[1] = t) <=> Root(t) \in ended
  <2>1. \A s \in ended : s \in Spans /\ IsRoot(s)
    BY <1>3
  <2> HIDE DEF ended, n
  <2>2. ASSUME NEW t \in Traces, NEW i \in 1..n, events[i].span[1] = t PROVE Root(t) \in ended
    BY <1>12, <2>1, <2>2, SpansAre
  <2>3. ASSUME NEW t \in Traces, Root(t) \in ended PROVE \E i \in 1..n : events[i].span[1] = t
    BY <1>12, <2>3, SpansAre
  <2> QED BY <2>2, <2>3
<1>14. /\ ViewerType'
       /\ viewer'.on /\ viewer'.status = "all" /\ ~viewer'.missed =>
            /\ viewer.on /\ viewer.status = "all" /\ ~viewer.missed
            /\ \A u \in Traces :
                 /\ (\A i \in 1..n : events[i].span[1] # u) => Shown(viewer', u) = Shown(viewer, u)
                 /\ (\E i \in 1..n : events[i].span[1] = u) /\ Shown(viewer, u) # "none" => Shown(viewer', u) = "error"
  <2> HIDE DEF ended, n
  <2> QED BY <1>2, <1>12, HeardAllIs
<1>15. \A u \in Spans : u \in ended <=> (u \in gone /\ spanStore.row[u].at # "absent")
  BY DEF SpanRows
<1>16. \A u \in Spans : spanStore.row[u].at \in {"absent", "open", "over"} /\ (spanStore.row[u].at = "over" => u \notin spanStore.cached)
  BY DEF TraceInv, TracesType, RowsTrue
<1> HIDE DEF ended, n
<1>17. ShownTrue'
  <2> SUFFICES ASSUME viewer'.on, viewer'.status = "all", ~viewer'.missed, NEW u \in Traces
               PROVE /\ spanStore'.row[Root(u)].at = "over" => Shown(viewer', u) = spanStore'.row[Root(u)].status
                     /\ spanStore'.row[Root(u)].at = "open" => Shown(viewer', u) # "none"
    BY DEF ShownTrue
  <2>1. Root(u) \in Spans
    BY SpansAre
  <2>2. CASE Root(u) \in ended
    <3>1. spanStore.row[Root(u)].at = "open"
      BY <1>3, <1>15, <1>16, <2>1, <2>2
    <3>2. Shown(viewer, u) # "none"
      BY <1>14, <3>1 DEF TraceInv, ShownTrue
    <3>3. Shown(viewer', u) = "error"
      BY <1>13, <1>14, <2>2, <3>2
    <3>4. spanStore'.row[Root(u)] = [status |-> "error", at |-> "over"]
      BY <1>5, <1>15, <2>1, <2>2
    <3> QED BY <3>3, <3>4
  <2>3. CASE Root(u) \notin ended
    <3>1. spanStore'.row[Root(u)] = spanStore.row[Root(u)]
      BY <1>5, <1>15, <2>1, <2>3
    <3>2. Shown(viewer', u) = Shown(viewer, u)
      BY <1>13, <1>14, <2>3
    <3> QED BY <1>14, <3>1, <3>2 DEF TraceInv, ShownTrue
  <2> QED BY <2>2, <2>3
<1>18. RowsTrue'
  <2> SUFFICES ASSUME NEW u \in Spans
               PROVE /\ work'[u] = "none" => spanStore'.row[u] = NoSpan /\ u \notin spanStore'.cached
                     /\ RowTrue(u)' /\ (spanStore'.row[u].at = "open" => serving')
    BY DEF RowsTrue, RowTrue
  <2>1. /\ work[u] = "none" => spanStore.row[u] = NoSpan /\ u \notin spanStore.cached
        /\ RowTrue(u)
    BY DEF TraceInv, RowsTrue, RowTrue
  <2>2. work'[u] = IF u \in gone THEN "error" ELSE IF work[u] = "running" \/ Lost(k, u) THEN "cut" ELSE work[u]
    BY <1>9
  <2>3. spanStore'.row[u] = IF u \in gone /\ spanStore.row[u].at # "absent"
                            THEN [status |-> "error", at |-> "over"] ELSE spanStore.row[u]
    BY <1>5
  <2>4. (u \in spanStore'.cached <=> u \in spanStore.cached /\ u \notin gone) /\ evicted' = evicted /\ serving' = serving
        /\ (u \in gone => ~TraceComes(u)')
        /\ (OnTheWay(u)' => OnTheWay(u)) /\ (TraceComes(u)' => TraceComes(u))
        /\ (OnTheWay(u) => OnTheWay(u)' \/ Lost(k, u)) /\ (Lost(k, u) => OnTheWay(u))
    BY <1>4, <1>8, <1>20, <1>24
  <2>5. CASE u \in gone /\ spanStore.row[u].at # "absent"
    BY <2>2, <2>3, <2>4, <2>5 DEF RowTrue
  <2>6. CASE u \in gone /\ spanStore.row[u].at = "absent"
    BY <2>2, <2>3, <2>4, <2>6 DEF RowTrue
  <2>7. CASE u \notin gone
    BY <2>1, <2>2, <2>3, <2>4, <2>7 DEF RowTrue
  <2> QED BY <2>5, <2>6, <2>7
<1>19. TraceType' /\ TracesType'
  <2>1. posted' \in Seq([op : {"insert", "flag", "end", "result"}, span : Spans, status : Statuses])
    BY <1>1, <1>21, PostedLeft DEF Messages
  <2> QED BY <1>4, <1>7, <1>14, <1>20, <2>1 DEF TraceInv, TraceType, TracesType, ViewerType
<1> QED BY <1>10, <1>14, <1>17, <1>18, <1>19, <1>23 DEF TraceInv

LEMMA ClearKeeps ==
  ASSUME TraceInv, ClearTraces, serving
  PROVE  TraceInv'
<1>1. /\ spanStore' = [row |-> [s \in Spans |-> NoSpan], cached |-> {}, roots |-> 0] /\ upsets' = upsets + 1
      /\ UNCHANGED <<work, away, posted, viewer, evicted, serving>>
  BY DEF ClearTraces, Upset
<1>2. NoSpan.at = "absent" /\ NoSpan \in [status : Statuses, at : {"absent", "open", "over"}]
  BY DEF NoSpan, Statuses
<1>3. spanStore' \in [row : [Spans -> [status : Statuses, at : {"absent", "open", "over"}]], cached : SUBSET Spans, roots : Int]
      /\ spanStore'.cached = {} /\ spanStore'.roots = 0 /\ \A u \in Spans : spanStore'.row[u] = NoSpan
  BY <1>1, <1>2
<1>4. TraceType' /\ TracesType' /\ ViewerType'
  BY <1>1, <1>3 DEF TraceInv, TraceType, TracesType, ViewerType
<1>5. CapHeld'
  <2>1. RootTraces(spanStore') = {}
    BY <1>2, <1>3, SpansAre DEF RootTraces, SpanRows
  <2> QED BY <1>3, <2>1, FS_EmptySet, TraceAssumption DEF CapHeld
<1>6. MessagesTrue'
  <2> SUFFICES ASSUME NEW i \in 1..Len(posted) PROVE MessageTrue(posted, i, work, spanStore', away)
    BY <1>1 DEF MessagesTrue
  <2>1. posted[i].span \in Spans
    <3>1. posted \in Seq(Messages)
      BY DEF TraceInv, TracesType, Messages
    <3>2. posted[i] \in Messages
      BY <3>1
    <3> QED BY <3>2 DEF Messages
  <2>2. MessageTrue(posted, i, work, spanStore, away)
    BY DEF TraceInv, MessagesTrue
  <2> QED BY <1>2, <1>3, <2>1, <2>2 DEF MessageTrue
<1>7. RowsTrue' /\ ShownTrue'
  BY <1>2, <1>3, SpansAre DEF RowsTrue, ShownTrue
<1> QED BY <1>4, <1>5, <1>6, <1>7 DEF TraceInv

LEMMA EvictKeeps ==
  ASSUME TraceInv, NEW s \in Spans, EvictStale(s), serving
  PROVE  TraceInv'
<1>1. /\ spanStore' = [spanStore EXCEPT !.cached = @ \ {s}] /\ evicted' = evicted \cup {s} /\ upsets' = upsets + 1
      /\ UNCHANGED <<work, away, posted, viewer, serving>>
  BY DEF EvictStale, Upset
<1>2. spanStore \in [row : [Spans -> [status : Statuses, at : {"absent", "open", "over"}]], cached : SUBSET Spans, roots : Int]
  BY DEF TraceInv, TracesType
<1>3. /\ spanStore' \in [row : [Spans -> [status : Statuses, at : {"absent", "open", "over"}]], cached : SUBSET Spans, roots : Int]
      /\ spanStore'.row = spanStore.row /\ spanStore'.roots = spanStore.roots /\ spanStore'.cached = spanStore.cached \ {s}
  BY <1>1, <1>2
<1>4. TraceType' /\ TracesType' /\ ViewerType'
  <2>1. ViewerType'
    BY <1>1 DEF TraceInv, ViewerType
  <2>2. evicted' \subseteq Spans /\ upsets' \in Nat
    BY <1>1 DEF TraceInv, TraceType, TracesType
  <2>3. TraceType'
    BY <1>1, <1>3, <2>2 DEF TraceInv, TraceType
  <2>4. TracesType'
    BY <1>1, <1>3, <2>2 DEF TraceInv, TracesType
  <2> QED BY <2>1, <2>3, <2>4
<1>5. RootTraces(spanStore') = RootTraces(spanStore)
  BY <1>3 DEF RootTraces, SpanRows
<1>6. CapHeld' /\ ShownTrue'
  BY <1>1, <1>3, <1>5 DEF TraceInv, CapHeld, ShownTrue
<1>7. MessagesTrue'
  <2> SUFFICES ASSUME NEW i \in 1..Len(posted) PROVE MessageTrue(posted, i, work, spanStore', away)
    BY <1>1 DEF MessagesTrue
  <2>1. MessageTrue(posted, i, work, spanStore, away)
    BY DEF TraceInv, MessagesTrue
  <2> QED BY <1>3, <2>1 DEF MessageTrue
<1>8. RowsTrue'
  <2>1. \A u : (OnTheWay(u)' <=> OnTheWay(u)) /\ (TraceComes(u)' <=> TraceComes(u))
    BY <1>1 DEF OnTheWay, TraceComes
  <2> QED BY <1>1, <1>3, <2>1 DEF TraceInv, RowsTrue
<1> QED BY <1>4, <1>6, <1>7, <1>8 DEF TraceInv

\* The store stays, and what a dashboard shows is what it showed with its buffer.
LEMMA ViewersKeep ==
  ASSUME TraceInv, UNCHANGED <<spanStore, work, away, posted, evicted, serving>>, upsets' \in Nat,
         ViewerType', ShownTrue', serving \/ viewer' = viewer
  PROVE  TraceInv'
<1>1. \A u : (OnTheWay(u)' <=> OnTheWay(u)) /\ (TraceComes(u)' <=> TraceComes(u))
  BY DEF OnTheWay, TraceComes
<1>2. TraceType' /\ TracesType'
  BY DEF TraceInv, TraceType, TracesType, ViewerType
<1>3. MessagesTrue' /\ CapHeld'
  <2>1. RootTraces(spanStore') = RootTraces(spanStore)
    BY DEF RootTraces, SpanRows
  <2> QED BY <2>1 DEF TraceInv, MessagesTrue, CapHeld
<1>4. RowsTrue'
  BY <1>1 DEF TraceInv, RowsTrue
<1> QED BY <1>2, <1>3, <1>4 DEF TraceInv

LEMMA FlushKeeps ==
  ASSUME TraceInv, Flush, serving
  PROVE  TraceInv'
<1> DEFINE Shape == [status : {"all", "error"}, on : BOOLEAN, missed : BOOLEAN, shows : [Traces -> Statuses \cup {"none"}],
                     buffer : Seq(TraceEvents)]
           all == [t \in Traces |-> Shown(viewer, t)]
<1>1. viewer' = [viewer EXCEPT !.buffer = <<>>, !.shows = all] /\ UNCHANGED <<spanStore, work, away, posted, evicted, serving, upsets>>
  BY DEF Flush, AllShown
<1>2. viewer \in Shape
  BY DEF TraceInv, ViewerType, TraceEvents
<1>3. all \in [Traces -> Statuses \cup {"none"}] /\ <<>> \in Seq(TraceEvents)
  BY ShownType
<1>4. \A t \in Traces : all[t] = Shown(viewer, t)
  OBVIOUS
<1> HIDE DEF all
<1>5. /\ viewer' \in Shape /\ viewer'.on = viewer.on /\ viewer'.status = viewer.status /\ viewer'.missed = viewer.missed
      /\ viewer'.buffer = <<>> /\ viewer'.shows = all
  BY <1>1, <1>2, <1>3
<1>6. ViewerType'
  BY <1>5, TraceAssumption DEF ViewerType, TraceEvents
<1>7. \A t \in Traces : Shown(viewer', t) = all[t]
  BY <1>5 DEF Shown
<1>8. ShownTrue'
  BY <1>1, <1>4, <1>5, <1>7 DEF TraceInv, ShownTrue
<1>9. upsets' \in Nat
  BY <1>1 DEF TraceInv, TracesType
<1> QED BY <1>1, <1>6, <1>8, <1>9, ViewersKeep

LEMMA WatchKeeps ==
  ASSUME TraceInv, NEW status \in {"all", "error"}, Watch(status), serving
  PROVE  TraceInv'
<1> DEFINE Shape == [status : {"all", "error"}, on : BOOLEAN, missed : BOOLEAN, shows : [Traces -> Statuses \cup {"none"}],
                     buffer : Seq(TraceEvents)]
           all == [t \in Traces |-> LET root == spanStore.row[Root(t)]
                                    IN  IF root.at = "absent" \/ (status # "all" /\ root.status # status)
                                        THEN "none" ELSE root.status]
           some == viewer.buffer # <<>>
<1>1. /\ viewer' = [viewer EXCEPT !.on = TRUE, !.status = status, !.missed = some, !.shows = all]
      /\ upsets' = upsets + 1 /\ UNCHANGED <<spanStore, work, away, posted, evicted, serving>>
  BY DEF Watch, Upset
<1>2. viewer \in Shape /\ Len(viewer.buffer) <= MaxBuffer
  BY DEF TraceInv, ViewerType, TraceEvents
<1>3. \A t \in Traces : spanStore.row[Root(t)].status \in Statuses
  BY SpansAre DEF TraceInv, TracesType
<1>4. all \in [Traces -> Statuses \cup {"none"}]
  BY <1>3
<1>5. \A t \in Traces : status = "all" /\ spanStore.row[Root(t)].at # "absent" => all[t] = spanStore.row[Root(t)].status
  OBVIOUS
<1>6. some \in BOOLEAN /\ (~some => viewer.buffer = <<>>)
  OBVIOUS
<1> HIDE DEF all, some
<1>7. /\ viewer' \in Shape /\ viewer'.status = status /\ viewer'.missed = some
      /\ viewer'.buffer = viewer.buffer /\ viewer'.shows = all
  BY <1>1, <1>2, <1>4, <1>6
<1>8. ViewerType'
  BY <1>2, <1>7 DEF ViewerType, TraceEvents
<1>9. ShownTrue'
  <2> SUFFICES ASSUME viewer'.status = "all", ~viewer'.missed, NEW u \in Traces
               PROVE /\ spanStore'.row[Root(u)].at = "over" => Shown(viewer', u) = spanStore'.row[Root(u)].status
                     /\ spanStore'.row[Root(u)].at = "open" => Shown(viewer', u) # "none"
    BY DEF ShownTrue
  <2>1. viewer'.buffer = <<>>
    BY <1>6, <1>7
  <2>2. Shown(viewer', u) = all[u]
    BY <1>7, <2>1 DEF Shown
  <2>3. "none" \notin Statuses
    BY DEF Statuses
  <2> QED BY <1>1, <1>3, <1>5, <1>7, <2>2, <2>3
<1>10. upsets' \in Nat
  BY <1>1 DEF TraceInv, TracesType
<1> QED BY <1>1, <1>8, <1>9, <1>10, ViewersKeep

LEMMA ServerStopsKeeps ==
  ASSUME TraceInv, NEW closed \in BOOLEAN, ServerStops(closed), serving
  PROVE  TraceInv'
<1> DEFINE Store == [row : [Spans -> [status : Statuses, at : {"absent", "open", "over"}]], cached : SUBSET Spans, roots : Int]
           all == AllEnded(spanStore, spanStore.cached, "error")
           left == IF closed THEN all ELSE spanStore
<1>1. /\ spanStore' = [left EXCEPT !.cached = {}] /\ serving' = FALSE /\ posted' = <<>> /\ viewer' = NoViewer
      /\ work' = [s \in Spans |-> IF work[s] = "running" \/ spanStore.row[s].at = "open" \/ OnTheWay(s) THEN "cut" ELSE work[s]]
      /\ upsets' = upsets + 1 /\ UNCHANGED <<away, evicted>>
  BY DEF ServerStops, Upset
<1>2. spanStore \in Store
  BY DEF TraceInv, TracesType
<1>3. /\ all \in Store /\ all.roots = spanStore.roots /\ RootTraces(all) = RootTraces(spanStore)
      /\ \A u \in Spans : all.row[u] \in {spanStore.row[u], IF u \in spanStore.cached /\ spanStore.row[u].at # "absent"
                                                            THEN [status |-> "error", at |-> "over"] ELSE spanStore.row[u]}
  <2>1. "error" \in Statuses
    BY DEF Statuses
  <2>2. \A u \in Spans : all.row[u] = IF u \in spanStore.cached \cap spanStore.cached /\ spanStore.row[u].at # "absent"
                                      THEN [status |-> "error", at |-> "over"] ELSE spanStore.row[u]
    BY <2>1, EndedIs
  <2>3. spanStore.cached \cap spanStore.cached = spanStore.cached
    OBVIOUS
  <2> QED BY <2>1, <2>2, <2>3, EndedIs
<1> HIDE DEF all
<1>4. /\ left \in Store /\ left.roots = spanStore.roots /\ RootTraces(left) = RootTraces(spanStore)
      /\ \A u \in Spans : left.row[u] \in {spanStore.row[u], IF u \in spanStore.cached /\ spanStore.row[u].at # "absent"
                                                             THEN [status |-> "error", at |-> "over"] ELSE spanStore.row[u]}
  <2>1. CASE closed
    BY <1>3, <2>1
  <2>2. CASE ~closed
    BY <1>2, <2>2
  <2> QED BY <2>1, <2>2
<1> HIDE DEF left
<1>5. spanStore' \in Store /\ spanStore'.row = left.row /\ spanStore'.roots = left.roots /\ spanStore'.cached = {}
  BY <1>1, <1>4
<1>6. RootTraces(spanStore') = RootTraces(spanStore)
  <2>1. RootTraces(spanStore') = RootTraces(left)
    BY <1>5 DEF RootTraces, SpanRows
  <2> QED BY <1>4, <2>1
<1>7. work \in [Spans -> {"none", "running", "ok", "error", "cut"}]
  BY DEF TraceInv, TraceType
<1>8. work' \in [Spans -> {"none", "running", "ok", "error", "cut"}]
      /\ \A u \in Spans : work'[u] = IF work[u] = "running" \/ spanStore.row[u].at = "open" \/ OnTheWay(u) THEN "cut" ELSE work[u]
  BY <1>1, <1>7
<1>9. MessagesTrue' /\ CapHeld' /\ ShownTrue'
  <2>1. ~viewer'.on
    BY <1>1 DEF NoViewer
  <2>2. CapHeld'
    BY <1>4, <1>5, <1>6 DEF TraceInv, CapHeld
  <2> QED BY <1>1, <2>1, <2>2 DEF MessagesTrue, ShownTrue
<1>10. ViewerType'
  BY <1>1, TraceAssumption DEF ViewerType, NoViewer
<1>11. TraceType' /\ TracesType'
  <2>1. <<>> \in Seq([op : {"insert", "flag", "end", "result"}, span : Spans, status : Statuses]) /\ ~viewer'.on
    BY <1>1 DEF NoViewer
  <2>2. TraceType'
    <3>1. viewer'.shows \in [Traces -> Statuses \cup {"none"}]
      BY <1>10 DEF ViewerType
    <3> QED BY <1>1, <1>5, <1>8, <3>1 DEF TraceInv, TraceType
  <2>3. upsets' \in Nat
    BY <1>1 DEF TraceInv, TracesType
  <2> QED BY <1>1, <1>5, <2>1, <2>2, <2>3 DEF TracesType
<1>12. RowsTrue'
  <2> SUFFICES ASSUME NEW u \in Spans
               PROVE /\ work'[u] = "none" => spanStore'.row[u] = NoSpan /\ u \notin spanStore'.cached
                     /\ RowTrue(u)' /\ (spanStore'.row[u].at = "open" => work'[u] = "cut")
    BY DEF RowsTrue, RowTrue
  <2>1. /\ work[u] = "none" => spanStore.row[u] = NoSpan /\ u \notin spanStore.cached
        /\ RowTrue(u)
    BY DEF TraceInv, RowsTrue, RowTrue
  <2>2. u \notin spanStore'.cached /\ ~OnTheWay(u)' /\ ~TraceComes(u)' /\ evicted' = evicted
    BY <1>1, <1>5 DEF OnTheWay, TraceComes
  <2>3. work'[u] = IF work[u] = "running" \/ spanStore.row[u].at = "open" \/ OnTheWay(u) THEN "cut" ELSE work[u]
    BY <1>8
  <2>4. spanStore'.row[u] = spanStore.row[u]
        \/ (spanStore'.row[u] = [status |-> "error", at |-> "over"] /\ u \in spanStore.cached /\ spanStore.row[u].at # "absent")
    BY <1>4, <1>5
  <2>5. spanStore.row[u].at \in {"absent", "open", "over"} /\ NoSpan.at = "absent"
    BY <1>2 DEF NoSpan
  <2>6. CASE spanStore'.row[u] = spanStore.row[u]
    BY <2>1, <2>2, <2>3, <2>5, <2>6 DEF RowTrue
  <2>7. CASE spanStore'.row[u] = [status |-> "error", at |-> "over"] /\ u \in spanStore.cached /\ spanStore.row[u].at # "absent"
    <3>1. spanStore.row[u].at = "open"
      BY <2>1, <2>5, <2>7 DEF RowTrue
    <3> QED BY <2>2, <2>3, <2>7, <3>1 DEF RowTrue
  <2> QED BY <2>4, <2>6, <2>7
<1> QED BY <1>9, <1>10, <1>11, <1>12 DEF TraceInv

\* The cleanup of a store that is opened, by the server or by the trace command.
LEMMA CleanupKeeps ==
  ASSUME TraceInv, ~serving, NEW roots \in {spanStore.roots, Cardinality(RootTraces(spanStore))},
         spanStore' = [Cleaned(spanStore) EXCEPT !.roots = roots], serving' \in BOOLEAN,
         UNCHANGED <<work, away, posted, viewer, evicted, upsets>>
  PROVE  TraceInv'
<1> DEFINE Row == [status : Statuses, at : {"absent", "open", "over"}]
           r == [s \in Spans |-> IF spanStore.row[s].at = "open" THEN [status |-> "error", at |-> "over"] ELSE spanStore.row[s]]
<1>1. spanStore \in [row : [Spans -> Row], cached : SUBSET Spans, roots : Int] /\ spanStore.cached = {}
      /\ spanStore.roots = Cardinality(RootTraces(spanStore)) /\ spanStore.roots <= Cap /\ posted = <<>> /\ ~viewer.on
  BY DEF TraceInv, TracesType, CapHeld
<1>2. spanStore' = [spanStore EXCEPT !.row = r, !.roots = roots] /\ roots = spanStore.roots
  BY <1>1 DEF Cleaned
<1>3. r \in [Spans -> Row]
  BY <1>1 DEF Statuses
<1>4. \A u \in Spans : r[u] = IF spanStore.row[u].at = "open" THEN [status |-> "error", at |-> "over"] ELSE spanStore.row[u]
  OBVIOUS
<1> HIDE DEF r
<1>5. spanStore' \in [row : [Spans -> Row], cached : SUBSET Spans, roots : Int] /\ spanStore'.row = r
      /\ spanStore'.cached = {} /\ spanStore'.roots = spanStore.roots
  <2> HIDE DEF Row
  <2> QED BY <1>1, <1>2, <1>3
<1>6. CapHeld'
  <2>1. \A u \in Spans : spanStore'.row[u].at = "absent" <=> spanStore.row[u].at = "absent"
    BY <1>4, <1>5
  <2>2. RootTraces(spanStore') = RootTraces(spanStore)
    BY <2>1 DEF RootTraces, SpanRows
  <2> QED BY <1>1, <1>5, <2>2 DEF CapHeld
<1>7. MessagesTrue' /\ ShownTrue' /\ ViewerType'
  BY <1>1 DEF TraceInv, MessagesTrue, ShownTrue, ViewerType
<1>8. TraceType' /\ TracesType'
  BY <1>1, <1>5, <1>7 DEF TraceInv, TraceType, TracesType, ViewerType
<1>9. RowsTrue'
  <2> SUFFICES ASSUME NEW u \in Spans
               PROVE /\ work[u] = "none" => spanStore'.row[u] = NoSpan /\ u \notin spanStore'.cached
                     /\ RowTrue(u)' /\ spanStore'.row[u].at # "open"
    BY DEF RowsTrue, RowTrue
  <2>1. /\ work[u] = "none" => spanStore.row[u] = NoSpan
        /\ RowTrue(u) /\ (spanStore.row[u].at = "open" => work[u] = "cut")
    BY DEF TraceInv, RowsTrue, RowTrue
  <2>2. ~OnTheWay(u)' /\ ~TraceComes(u)' /\ u \notin spanStore'.cached /\ NoSpan.at = "absent"
    BY <1>1, <1>5 DEF OnTheWay, TraceComes, NoSpan
  <2>3. spanStore'.row[u] = IF spanStore.row[u].at = "open" THEN [status |-> "error", at |-> "over"] ELSE spanStore.row[u]
    BY <1>4, <1>5
  <2>4. CASE spanStore.row[u].at = "open"
    BY <2>1, <2>2, <2>3, <2>4 DEF RowTrue
  <2>5. CASE spanStore.row[u].at # "open"
    BY <2>1, <2>2, <2>3, <2>5 DEF RowTrue
  <2> QED BY <2>4, <2>5
<1> QED BY <1>6, <1>7, <1>8, <1>9 DEF TraceInv

LEMMA TracesKeep ==
  ASSUME ~CliAnytime, TraceInv, [TraceNext]_traceVars
  PROVE  TraceInv'
<1>1. CASE UNCHANGED traceVars
  <2>1. ViewerType' /\ ShownTrue' /\ upsets' \in Nat
    BY <1>1 DEF traceVars, TraceInv, ViewerType, ShownTrue, TracesType
  <2> QED BY <1>1, <2>1, ViewersKeep DEF traceVars
<1>2. ASSUME serving, NEW t \in Traces, RootStarts(t) \/ AwayStarts(t) PROVE TraceInv'
  <2>1. CASE RootStarts(t)
    BY <1>2, <2>1, RootStartsKeeps
  <2>2. CASE AwayStarts(t)
    <3> DEFINE s == Root(t)
    <3>1. s \in Spans /\ SpanStarts(s) /\ away' = away \cup {t} /\ s[1] = t /\ \A u \in Spans : IsRoot(u) => u = Root(u[1])
      BY <2>2, SpansAre DEF AwayStarts
    <3>2. away' \subseteq Traces
      BY <3>1 DEF TraceInv, TraceType
    <3>3. \A u \in Spans \ {s} : IsRoot(u) => (u[1] \in away' <=> u[1] \in away)
      BY <3>1
    <3> HIDE DEF s
    <3> QED BY <1>2, <3>1, <3>2, <3>3, StartPostedKeeps
  <2> QED BY <1>2, <2>1, <2>2
<1>3. ASSUME serving, NEW t \in Parents, ChildStarts(t) PROVE TraceInv'
  <2> DEFINE s == Child(t)
  <2>1. s \in Spans /\ ~IsRoot(s) /\ SpanStarts(s) /\ away' = away
    BY <1>3, SpansAre DEF ChildStarts
  <2>2. away' \subseteq Traces
    BY <2>1 DEF TraceInv, TraceType
  <2> HIDE DEF s
  <2> QED BY <1>3, <2>1, <2>2, StartPostedKeeps
<1>4. ASSUME serving, NEW s \in Spans, NEW how \in {"ok", "error", "5xx"}, SpanEnds(s, how) PROVE TraceInv'
  <2> DEFINE x == Outcome(how)
             ms == Ending(s, how)
  <2>1. /\ work[s] = "running" /\ work' = [work EXCEPT ![s] = x] /\ posted' = posted \o ms
        /\ UNCHANGED <<spanStore, viewer, away, evicted, serving, upsets>>
    BY <1>4 DEF SpanEnds, Posts
  <2>2. x \in {"ok", "error"}
    BY DEF Outcome
  <2>3. \/ ms = <<TraceMessage("end", s, x)>>
        \/ x = "error" /\ ms = <<TraceMessage("flag", s, "error"), TraceMessage("end", s, x)>>
    BY DEF Ending, Outcome
  <2>4. ~(IsRoot(s) /\ s[1] \notin away)
    BY <1>4 DEF SpanEnds
  <2> HIDE DEF x, ms
  <2> QED BY <1>4, <2>1, <2>2, <2>3, <2>4, EndPostedKeeps
<1>5. ASSUME serving, NEW t \in Traces, NEW how \in {"ok", "error"}, Replies(t, how) PROVE TraceInv'
  <2> DEFINE s == Root(t)
             ms == <<TraceMessage("result", s, how)>>
  <2>1. /\ work[s] = "running" /\ work' = [work EXCEPT ![s] = how] /\ posted' = posted \o ms
        /\ UNCHANGED <<spanStore, viewer, away, evicted, serving, upsets>>
    BY <1>5 DEF Replies, Posts
  <2>2. s \in Spans /\ IsRoot(s) /\ s[1] \notin away
    BY <1>5, SpansAre DEF Replies
  <2>3. ms = <<TraceMessage("result", s, how)>>
    OBVIOUS
  <2> HIDE DEF s, ms
  <2> QED BY <1>5, <2>1, <2>2, <2>3, EndPostedKeeps
<1>6. ASSUME ~serving, ServerStarts PROVE TraceInv'
  <2>1. /\ spanStore' = [Cleaned(spanStore) EXCEPT !.roots = Cardinality(RootTraces(spanStore))] /\ serving' = TRUE
        /\ UNCHANGED <<work, away, posted, viewer, evicted, upsets>>
    BY <1>6 DEF ServerStarts
  <2> QED BY <1>6, <2>1, CleanupKeeps
<1>7. ASSUME CliTraces PROVE TraceInv'
  <2>1. ~serving /\ UNCHANGED <<work, away, posted, viewer, evicted, serving, upsets>>
    BY <1>7 DEF CliTraces, TraceInv, TracesType
  <2>2. spanStore' = [Cleaned(spanStore) EXCEPT !.roots = spanStore.roots]
    <3>1. spanStore \in [row : [Spans -> [status : Statuses, at : {"absent", "open", "over"}]], cached : SUBSET Spans, roots : Int]
      BY DEF TraceInv, TracesType
    <3> QED BY <1>7, <3>1 DEF CliTraces, Cleaned
  <2>3. serving' \in BOOLEAN
    BY <2>1 DEF TraceInv, TracesType
  <2> QED BY <2>1, <2>2, <2>3, CleanupKeeps
<1>8. CASE serving /\ (ReceiveTrace \/ ThreadStops \/ ClearTraces \/ Flush)
  BY <1>8, ReceiveKeeps, StopsKeep, ClearKeeps, FlushKeeps
<1>9. CASE serving /\ ((\E s \in Spans : EvictStale(s)) \/ (\E status \in {"all", "error"} : Watch(status))
                       \/ \E closed \in BOOLEAN : ServerStops(closed))
  BY <1>9, EvictKeeps, WatchKeeps, ServerStopsKeeps
<1> QED BY <1>1, <1>2, <1>3, <1>4, <1>5, <1>6, <1>7, <1>8, <1>9 DEF TraceNext

\* Under any interleaving of requests, messages of threads, stops, evictions, clearings,
\* restarts and dashboards, a row that has ended says how its work ended, the counter of the
\* cap is the number of root rows, and a dashboard that missed nothing shows what ended
\* (endSpan, enforceTraceCap, the cleanup of the constructor, trace-stream), if the trace
\* command, which ends the open rows of a file it shares, is not run beside the server.
THEOREM SpansTrueAlways == ~CliAnytime /\ TraceSpec => []SpansTrue
<1>1. TraceInv => SpansTrue
  <2> SUFFICES ASSUME TraceInv PROVE SpansTrue
    OBVIOUS
  <2>1. \A t \in Traces : viewer.buffer = <<>> => Shown(viewer, t) = viewer.shows[t]
    BY ShownType
  <2>2. \A s \in SpanRows(spanStore) : s \in Spans
    BY DEF SpanRows
  <2>3. \A s \in SpanRows(spanStore) :
          /\ spanStore.row[s].at = "over" => (spanStore.row[s].status = "ok" <=> work[s] = "ok")
          /\ spanStore.row[s].at = "open" => work[s] \in {"running", "cut"} \/ s \in evicted \/ OnTheWay(s)
    BY <2>2 DEF TraceInv, RowsTrue
  <2>4. spanStore.roots = Cardinality(RootTraces(spanStore)) /\ spanStore.roots <= Cap
    BY DEF TraceInv, CapHeld
  <2>5. viewer.on /\ viewer.status = "all" /\ viewer.buffer = <<>> /\ ~viewer.missed =>
          \A t \in Traces : spanStore.row[Root(t)].at = "over" => viewer.shows[t] = spanStore.row[Root(t)].status
    BY <2>1 DEF TraceInv, ShownTrue
  <2> QED BY <2>3, <2>4, <2>5 DEF SpansTrue
<1> SUFFICES ASSUME ~CliAnytime PROVE TraceSpec => []SpansTrue
  OBVIOUS
<1>2. TraceInv /\ [TraceNext]_traceVars => TraceInv'
  BY TracesKeep
<1> QED BY <1>1, <1>2, TracesStart, PTL DEF TraceSpec
=============================================================================
