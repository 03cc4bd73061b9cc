-------------------------------- MODULE Email --------------------------------
(***************************************************************************)
(* Emails (bindings/email.ts, Generation.callEmail, api/handlers/email.ts). *)
(* send() renders a message, checks its recipients and stores it.  A       *)
(* message that comes in is stored by main and handed to the worker        *)
(* thread, whose handler may reject, forward or answer it long after the   *)
(* dashboard has deleted it.                                               *)
(***************************************************************************)
EXTENDS Naturals, SequencesExt

CONSTANTS
  Addresses,  \* mail addresses ...
  Copied,     \* ... and those of them that are also used for copies
  MaxRows     \* bound on the rows of email_messages

VARIABLES
  mailbox,    \* email_messages: a sequence, "gone" where the dashboard has deleted
  destination, allowed, \* of the send_email binding; None and {} if not configured
  mailHandler \* the email() handler in the thread

mailVars == <<mailbox, destination, allowed, mailHandler>>

NoAddress == "none"
NoHandler == [phase |-> "none"]

\* What the program hands to send(): optional parts, as values or absent.
Texts == {<<>>, <<"">>, <<"text">>}
Htmls == {<<>>, <<"">>, <<"html">>}
Attached == {<<>>, <<"one", "two">>}
Lists == {<<>>} \cup {<<a>> : a \in Copied}
Builders(to, copies) == [to : to, cc : copies, bcc : copies,
                         text : Texts, html : Htmls, attachments : Attached]

\* The header lines of a message that comes in: a field, the continuation of one, or a
\* line that is neither.
Headings == { <<[k |-> "subject", v |-> "v"], [k |-> "", v |-> "w"], [k |-> "received", v |-> "x"]>>,
              <<[k |-> "received", v |-> "v"], [k |-> "received", v |-> "w"], [k |-> "", v |-> "x"]>>,
              <<[k |-> "subject", v |-> "v"], [k |-> "junk", v |-> "w"], [k |-> "", v |-> "x"]>> }

MailInit ==
  /\ mailbox = <<>> /\ mailHandler = NoHandler
  /\ destination \in Addresses \cup {NoAddress} /\ allowed \in {{}, Addresses \ Copied}

-----------------------------------------------------------------------------
(* Rendering: lines of delimiters, heads and bodies.                       *)

Opening(type, boundary) == [t |-> "head", type |-> type, b |-> boundary]
Leaf(type, value) == <<Opening(type, ""), [t |-> "body", type |-> type, b |-> value]>>

\* renderMultipart.
Multipart(boundary, parts) ==
  FlattenSeq([i \in DOMAIN parts |-> <<[t |-> "delim", type |-> "", b |-> boundary]>> \o parts[i]])
    \o <<[t |-> "end", type |-> "", b |-> boundary]>>

Given(part) == part # <<>>
Truthy(part) == part \notin {<<>>, <<"">>}
Value(part) == IF part = <<>> THEN "" ELSE part[1]

Alternative(text, html, boundary) ==
  <<Opening("alternative", boundary)>>
    \o Multipart(boundary, <<Leaf("plain", text), Leaf("html", html)>>)

\* buildAttachmentPart.
Attachment(content) == Leaf("attachment", content)

\* Mutant: one boundary for both levels.
AltPart_SameBoundary(text, html) ==
  IF Truthy(text) /\ Truthy(html) THEN Alternative(Value(text), Value(html), "mixed")
  ELSE IF Truthy(html) THEN Leaf("html", Value(html)) ELSE Leaf("plain", Value(text))

\* buildAltPart.
AltPart(text, html) ==
  IF Truthy(text) /\ Truthy(html) THEN Alternative(Value(text), Value(html), "alt")
  ELSE IF Truthy(html) THEN Leaf("html", Value(html)) ELSE Leaf("plain", Value(text))

\* renderBuilder.
Rendered(b) ==
  IF b.attachments # <<>>
  THEN <<Opening("mixed", "mixed")>>
         \o Multipart("mixed", <<AltPart(b.text, b.html)>>
                                 \o [i \in DOMAIN b.attachments |-> Attachment(b.attachments[i])])
  ELSE IF Given(b.html) /\ Given(b.text) THEN Alternative(Value(b.text), Value(b.html), "alt")
  ELSE IF Given(b.html) THEN Leaf("html", Value(b.html))
  ELSE Leaf("plain", Value(b.text))

Recipients(b) == Range(b.to \o b.cc \o b.bcc)

\* parseEmailHeaders: a line at a time, with the field that is open.
ParsedHeaders(lines) ==
  LET step(acc, line) ==
        CASE line.k = "" /\ acc.key # "" -> [acc EXCEPT !.val = Append(@, line.v)]
          [] OTHER ->
               [key |-> IF line.k \in {"", "junk"} THEN "" ELSE line.k,
                val |-> <<line.v>>,
                fields |-> IF acc.key = "" THEN acc.fields ELSE Append(acc.fields, <<acc.key, acc.val>>)]
      end == FoldLeft(step, [key |-> "", val |-> <<>>, fields |-> <<>>], lines)
  IN IF end.key = "" THEN end.fields ELSE Append(end.fields, <<end.key, end.val>>)

-----------------------------------------------------------------------------
(* The binding.                                                            *)

Store(row) == Len(mailbox) < MaxRows /\ mailbox' = Append(mailbox, row)

\* Whether the loop over the recipients lets this one pass.
Permitted(a) ==
  /\ destination # NoAddress => a = destination
  /\ allowed # {} => a \in allowed

\* send(): of a built message (one of them, to an empty table, is enough: messages do
\* not meet) and of a raw one, whose only recipient is `to'.
SendBuilt(b) ==
  /\ mailbox = <<>>
  /\ \A a \in Recipients(b) : Permitted(a)
  /\ Store([status |-> "sent", via |-> "binding", built |-> b, raw |-> Rendered(b)])
  /\ UNCHANGED <<destination, allowed, mailHandler>>

SendRaw(a) ==
  /\ Permitted(a)
  /\ Store([status |-> "sent", via |-> "raw", to |-> a])
  /\ UNCHANGED <<destination, allowed, mailHandler>>

-----------------------------------------------------------------------------
(* What comes in.                                                          *)

\* callEmail: main stores the message first.  Without a handler it stays "received".
CallEmail(lines) ==
  /\ mailHandler = NoHandler
  /\ Store([status |-> "received", via |-> "incoming"])
  /\ mailHandler' \in {NoHandler, [phase |-> "run", id |-> Len(mailbox'), lines |-> lines,
                                   headers |-> ParsedHeaders(lines)]}
  /\ UNCHANGED <<destination, allowed>>

\* setReject: an UPDATE that finds no row when the message was deleted.
SetReject ==
  /\ mailHandler.phase = "run"
  /\ mailbox[mailHandler.id].status # "gone"
  /\ mailbox' = [mailbox EXCEPT ![mailHandler.id].status = "rejected"]
  /\ UNCHANGED <<destination, allowed, mailHandler>>

\* forward and reply: rows of their own, to anybody.
Forward(a) ==
  /\ mailHandler.phase = "run"
  /\ Store([status |-> "forwarded", via |-> "_forward", to |-> a])
  /\ UNCHANGED <<destination, allowed, mailHandler>>

ReplyTo(b) ==
  /\ mailHandler.phase = "run"
  /\ Store([status |-> "sent", via |-> "_reply", built |-> b, raw |-> Rendered(b)])
  /\ UNCHANGED <<destination, allowed, mailHandler>>

\* The handler returns, throws, or its thread is gone.
HandlerOver ==
  mailHandler.phase = "run" /\ mailHandler' = NoHandler
  /\ UNCHANGED <<mailbox, destination, allowed>>

\* email.delete.
DeleteMail(id) ==
  /\ id \in DOMAIN mailbox /\ mailbox' = [mailbox EXCEPT ![id] = [status |-> "gone"]]
  /\ UNCHANGED <<destination, allowed, mailHandler>>

MailNext ==
  \/ \E b \in Builders({<<a>> : a \in Addresses}, Lists) : SendBuilt(b)
  \/ \E b \in Builders({<<a>> : a \in Copied}, {<<>>}) : ReplyTo(b)
  \/ \E a \in Addresses : SendRaw(a) \/ Forward(a)
  \/ \E lines \in Headings : CallEmail(lines)
  \/ SetReject \/ HandlerOver \/ \E id \in 1..MaxRows : DeleteMail(id)

MailSpec == MailInit /\ [][MailNext]_mailVars
-----------------------------------------------------------------------------
(* What a mail client makes of it.                                         *)

\* The sections between the delimiters of a boundary.
Sections(lines, boundary) ==
  LET cuts == {i \in DOMAIN lines : lines[i].t \in {"delim", "end"} /\ lines[i].b = boundary}
      next(i) == CHOOSE j \in cuts : j > i /\ \A k \in cuts : k > i => j <= k
  IN [i \in {c \in cuts : lines[c].t = "delim"} |-> SubSeq(lines, i + 1, next(i) - 1)]

BodiesIn(lines) == {<<lines[i].type, lines[i].b>> : i \in {j \in DOMAIN lines : lines[j].t = "body"}}

\* A section is a single body, or an alternative of a text and then its html.
Opened(section) ==
  IF section[1].type # "alternative"
  THEN IF Len(section) = 2 THEN BodiesIn(section) ELSE {<<"broken", "">>}
  ELSE LET parts == Sections(section, section[1].b)
       IN IF \E i, j \in DOMAIN parts : i < j /\ parts[i][1].type = "plain" /\ parts[j][1].type = "html"
          THEN BodiesIn(section) ELSE {<<"broken", "">>}

Understood(raw) ==
  IF raw[1].type = "mixed"
  THEN LET parts == Sections(raw, raw[1].b) IN UNION {Opened(parts[i]) : i \in DOMAIN parts}
  ELSE Opened(raw)

\* Whatever is sent through the binding goes only where all of its configuration lets it,
\* blind copies included (send), and a client that reads it finds every part that was
\* given, and each attachment (renderBuilder, renderMultipart).  The handler sees each
\* field with all of its continuation lines, and none of another (parseEmailHeaders).
MailKept ==
  /\ \A id \in DOMAIN mailbox :
       LET row == mailbox[id]
       IN /\ row.status = "sent" /\ row.via = "binding" =>
               \A a \in Range(row.built.to \o row.built.cc \o row.built.bcc) :
                 (destination = NoAddress \/ a = destination) /\ (allowed = {} \/ a \in allowed)
          /\ row.status = "sent" /\ row.via \in {"binding", "_reply"} =>
               /\ row.built.text = <<"text">> => <<"plain", "text">> \in Understood(row.raw)
               /\ row.built.html = <<"html">> => <<"html", "html">> \in Understood(row.raw)
               /\ \A x \in Range(row.built.attachments) : <<"attachment", x>> \in Understood(row.raw)
               /\ <<"broken", "">> \notin Understood(row.raw)
  /\ mailHandler.phase = "run" =>
       LET lines == mailHandler.lines
           first == {i \in DOMAIN lines : lines[i].k \in {"subject", "received"}}
           rest(i) == {j \in DOMAIN lines : j > i /\ \A k \in (i + 1)..j : lines[k].k = ""}
       IN /\ Len(mailHandler.headers) = Cardinality(first)
          /\ \A i \in first : \E h \in Range(mailHandler.headers) :
               h[1] = lines[i].k /\ Range(h[2]) = {lines[j].v : j \in {i} \cup rest(i)}
=============================================================================
