------------------------------ MODULE Channel ------------------------------
(***************************************************************************)
(* What a body that crosses threads promises its consumer: the chunks of   *)
(* the source, in order and without a gap, then the way the source ended.  *)
(* The consumer may give up, and the connection may break, at any time; it *)
(* never takes a truncated body for a complete one.                        *)
(***************************************************************************)
EXTENDS Naturals, Sequences

VARIABLES
  log,      \* the chunks the source produced
  ending,   \* how the source ended: "open", "end", "error"
  got,      \* the chunks the consumer has read
  outcome   \* what the consumer knows: "open", "done", "error", "cancelled", "torn"

channelVars == <<log, ending, got, outcome>>

ChannelInit ==
  /\ log = <<>>
  /\ ending = "open"
  /\ got = <<>>
  /\ outcome = "open"

Produce ==
  /\ ending = "open"
  /\ Len(log') = Len(log) + 1
  /\ SubSeq(log', 1, Len(log)) = log
  /\ UNCHANGED <<ending, got, outcome>>

Finish ==
  /\ ending = "open"
  /\ ending' \in {"end", "error"}
  /\ UNCHANGED <<log, got, outcome>>

Consume ==
  /\ outcome = "open"
  /\ Len(got) < Len(log)
  /\ got' = Append(got, log[Len(got) + 1])
  /\ UNCHANGED <<log, ending, outcome>>

\* The last chunk and the end may be noticed together.
SeeEnd ==
  /\ outcome = "open"
  /\ ending = "end"
  /\ got' = log
  /\ Len(got) + 1 >= Len(log)
  /\ outcome' = "done"
  /\ UNCHANGED <<log, ending>>

SeeError ==
  /\ outcome = "open"
  /\ ending = "error"
  /\ outcome' = "error"
  /\ UNCHANGED <<log, ending, got>>

Abandon ==
  /\ outcome = "open"
  /\ outcome' \in {"cancelled", "torn"}
  /\ UNCHANGED <<log, ending, got>>

ChannelNext == Produce \/ Finish \/ Consume \/ SeeEnd \/ SeeError \/ Abandon

ChannelSpec == ChannelInit /\ [][ChannelNext]_channelVars
=============================================================================
