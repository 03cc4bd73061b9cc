------------------------------ MODULE S3Chunks ------------------------------
(***************************************************************************)
(* The body of an upload to the S3 proxy (s3/chunked.ts; decodedBody in    *)
(* s3/proxy.ts).  A client that signs its body as a stream frames it: the  *)
(* size of a chunk in hexadecimal, a semicolon and a signature, CR LF, the *)
(* data, CR LF, and a chunk of size 0 at the end.  The body comes in       *)
(* pieces cut anywhere, and may end early.                                 *)
(*                                                                         *)
(* Here a byte is a hexadecimal digit 0..15 or one of the constants below; *)
(* a chunk's data may hold any of them, what looks like framing too.       *)
(***************************************************************************)
EXTENDS Integers, Sequences, SequencesExt

CONSTANTS
  Payloads,   \* data of one chunk
  MaxChunks   \* bound: chunks of a body before the last, empty one

Semicolon == 16
Letter == 17  \* that is no hexadecimal digit
CR == 18
LF == 19
Digits == 0..15

ASSUME S3ChunksAssumption ==
  /\ Payloads \subseteq Seq(Digits \cup {Semicolon, Letter, CR, LF}) \ {<<>>}
  /\ MaxChunks \in Nat

VARIABLES
  sha256,     \* the x-amz-content-sha256 header of the request
  chunks,     \* what the client uploads, chunk by chunk
  sent,       \* the bytes of the body, as far as they will ever come
  arrived,    \* how many of them have been read from the request
  buffer,     \* read, and not consumed
  state,      \* of the decoder
  remaining,  \* bytes of the chunk's data that are still to come
  stored,     \* what the bucket has been given
  ended       \* how the bucket's stream ended: "no", "close", "error", "cancel"

uploadVars == <<sha256, chunks, sent, arrived, buffer, state, remaining, stored, ended>>

Signatures == {"hash", "STREAMING-AWS4-HMAC-SHA256-PAYLOAD", "STREAMING-UNSIGNED-PAYLOAD-TRAILER"}

IsAwsChunked(h) ==
  h \in {"STREAMING-AWS4-HMAC-SHA256-PAYLOAD", "STREAMING-UNSIGNED-PAYLOAD-TRAILER",
         "STREAMING-AWS4-HMAC-SHA256-PAYLOAD-TRAILER"}

Header(size) == <<size, Semicolon, Letter, CR, LF>>
Chunk(data) == Header(Len(data)) \o data \o <<CR, LF>>

\* What follows the chunks of a body: the empty chunk, with a trailer or without, or a
\* line that is no header, from a client that does not frame its body after all.
Tails == {Header(0) \o <<CR, LF>>, Header(0) \o <<Letter, CR, LF, CR, LF>>, <<Letter, CR, LF>>}

Frame(data, tail) == FlattenSeq([i \in DOMAIN data |-> Chunk(data[i])]) \o tail

ChunkLists == UNION {[1..n -> Payloads] : n \in 0..MaxChunks}

UploadInit ==
  /\ sha256 = "hash" /\ chunks = <<>> /\ sent = <<>>
  /\ arrived = 0 /\ buffer = <<>> /\ remaining = 0 /\ stored = <<>>
  /\ state = "none" /\ ended = "no"

\* A client uploads; how much of the body will come is settled here.
Uploads ==
  /\ state = "none"
  /\ sha256' \in Signatures
  /\ chunks' \in ChunkLists
  /\ \E tail \in Tails :
       LET whole == IF IsAwsChunked(sha256') THEN Frame(chunks', tail) ELSE FlattenSeq(chunks')
       IN \E n \in 0..Len(whole) : sent' = SubSeq(whole, 1, n)
  /\ state' = IF IsAwsChunked(sha256') THEN "header" ELSE "passed on"
  /\ UNCHANGED <<arrived, buffer, remaining, stored, ended>>

AllRead == arrived = Len(sent)
After(bytes, n) == SubSeq(bytes, n + 1, Len(bytes))

\* read() gives the next piece of the body, of whatever length.
PieceRead(n) ==
  /\ arrived + n <= Len(sent)
  /\ arrived' = arrived + n
  /\ buffer' = buffer \o SubSeq(sent, arrived + 1, arrived + n)

\* Mutant: a CR at the end of a piece is taken for the end of the line.
IndexOfCRLF_CROnly(bytes) ==
  LET at == {i \in 1..Len(bytes) : bytes[i] = CR}
  IN IF at = {} THEN 0 ELSE CHOOSE i \in at : \A j \in at : i <= j

\* The first CR that is followed by an LF; 0 when there is none.
IndexOfCRLF(bytes) ==
  LET at == {i \in 1..(Len(bytes) - 1) : bytes[i] = CR /\ bytes[i + 1] = LF}
  IN IF at = {} THEN 0 ELSE CHOOSE i \in at : \A j \in at : i <= j

\* parseInt(line up to the semicolon, 16): its leading digits, or -1 for NaN.
Size(line) ==
  LET n == CHOOSE k \in 0..Len(line) :
             /\ \A i \in 1..k : line[i] \in Digits
             /\ k < Len(line) => line[k + 1] \notin Digits
  IN IF n = 0 THEN -1 ELSE FoldLeft(LAMBDA size, d : 16 * size + d, 0, SubSeq(line, 1, n))

HeaderLine ==
  LET at == IndexOfCRLF(buffer) IN LET size == Size(SubSeq(buffer, 1, at - 1)) IN
  /\ state = "header" /\ at # 0
  /\ buffer' = After(buffer, at + 1)
  /\ \/ size = -1 /\ ended' = "error" /\ UNCHANGED <<state, remaining>>
     \/ size = 0 /\ ended' = "close" /\ state' = "done" /\ UNCHANGED remaining
     \/ size > 0 /\ state' = "data" /\ remaining' = size /\ UNCHANGED ended
  /\ UNCHANGED <<arrived, stored>>

\* The one step of a pull that gives the bucket bytes; the next pull goes on.
Data ==
  LET take == IF remaining < Len(buffer) THEN remaining ELSE Len(buffer) IN
  /\ state = "data" /\ buffer # <<>>
  /\ stored' = stored \o SubSeq(buffer, 1, take)
  /\ buffer' = After(buffer, take)
  /\ remaining' = remaining - take
  /\ state' = IF remaining' = 0 THEN "crlf-after-data" ELSE "data"
  /\ UNCHANGED <<arrived, ended>>

\* Mutant: the two bytes are dropped from what is there, without waiting for both.
CrlfAfterData_AtOnce ==
  /\ state = "crlf-after-data" /\ Len(buffer) >= 1
  /\ buffer' = After(buffer, 2)
  /\ state' = "header"
  /\ UNCHANGED <<arrived, remaining, stored, ended>>

CrlfAfterData ==
  /\ state = "crlf-after-data" /\ Len(buffer) >= 2
  /\ buffer' = After(buffer, 2)
  /\ state' = "header"
  /\ UNCHANGED <<arrived, remaining, stored, ended>>

\* What is buffered does not suffice.
Starved ==
  \/ state = "header" /\ IndexOfCRLF(buffer) = 0
  \/ state = "data" /\ buffer = <<>>
  \/ state = "crlf-after-data" /\ Len(buffer) < 2

ReadMore ==
  /\ Starved /\ ~AllRead
  /\ \E n \in 1..(Len(sent) - arrived) : PieceRead(n)
  /\ UNCHANGED <<state, remaining, stored, ended>>

\* The end of the body is an error inside a chunk, and none where a header is expected.
BodyEnds ==
  /\ Starved /\ AllRead
  /\ ended' = IF state = "header" THEN "close" ELSE "error"
  /\ UNCHANGED <<arrived, buffer, state, remaining, stored>>

\* A body that is not framed goes to the bucket as it is.
PassesOn ==
  /\ state = "passed on"
  /\ \/ /\ ~AllRead
        /\ \E n \in 1..(Len(sent) - arrived) :
             arrived' = arrived + n /\ stored' = SubSeq(sent, 1, arrived')
        /\ UNCHANGED ended
     \/ AllRead /\ ended' = "close" /\ UNCHANGED <<arrived, stored>>
  /\ UNCHANGED <<buffer, state, remaining>>

\* The bucket gives up: reader.cancel.
Cancel ==
  /\ state # "none"
  /\ ended' = "cancel"
  /\ UNCHANGED <<arrived, buffer, state, remaining, stored>>

UploadNext ==
  /\ ended = "no"
  /\ \/ Uploads
     \/ /\ UNCHANGED <<sha256, chunks, sent>>
        /\ HeaderLine \/ Data \/ CrlfAfterData \/ ReadMore \/ BodyEnds \/ PassesOn \/ Cancel

-----------------------------------------------------------------------------
UploadType ==
  /\ sha256 \in Signatures /\ chunks \in ChunkLists
  /\ arrived \in 0..Len(sent) /\ remaining \in Nat
  /\ state \in {"none", "header", "data", "crlf-after-data", "done", "passed on"}
  /\ ended \in {"no", "close", "error", "cancel"}

\* How a body is cut makes no difference: the bucket gets the data of the chunks and
\* nothing else, all of it when the stream ends well after the whole body has come, and
\* never half a chunk that is taken for an object (decodeAwsChunked).
UploadTrue ==
  LET data == FlattenSeq(chunks)
      Upto(k) == FlattenSeq(SubSeq(chunks, 1, k))
      framed == FlattenSeq([i \in DOMAIN chunks |-> Chunk(chunks[i])])
  IN /\ UploadType
     /\ IsPrefix(stored, data)
     /\ ended = "close" /\ IsAwsChunked(sha256) =>
          /\ \E k \in 0..Len(chunks) : stored = Upto(k)
          /\ Len(sent) >= Len(framed) => stored = data
     /\ ended = "error" =>
          \/ Len(sent) < Len(framed)
          \/ Len(sent) = Len(framed) + 3 /\ sent[Len(framed) + 1] = Letter
=============================================================================
