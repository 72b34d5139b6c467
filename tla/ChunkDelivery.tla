---------------------------- MODULE ChunkDelivery ----------------------------
(***************************************************************************)
(* What a streamed answer of the gateway promises to its client, whatever  *)
(* is between the backend and the client: the data chunks of the backend,  *)
(* in order, none twice and none left out, each changed at most by the     *)
(* postprocessors; an end that tells a whole answer from a broken one, and *)
(* comes after every chunk before it; and one record, made when the answer *)
(* is over and before the client can take it for whole.                    *)
(***************************************************************************)
EXTENDS Naturals, Sequences

CONSTANTS
  Chunks,      \* what a backend may send at once
  Changed(_)   \* a chunk as the postprocessors leave it

VARIABLES
  source,    \* the chunks the backend has sent
  fate,      \* "open", "eof", or "error": the connection to the backend broke
  got,       \* the chunks the client has received
  outcome,   \* "reading", "complete", "aborted" or "gone": the client left
  recorded,  \* records made of the answer
  running    \* the gateway runs

vars == <<source, fate, got, outcome, recorded, running>>

Init ==
  /\ source = <<>> /\ fate = "open"
  /\ got = <<>> /\ outcome = "reading"
  /\ recorded = 0 /\ running = TRUE

Arrive(chunk) ==
  /\ running /\ fate = "open"
  /\ source' = Append(source, chunk)
  /\ UNCHANGED <<fate, got, outcome, recorded, running>>

Close ==
  /\ running /\ fate = "open" /\ fate' \in {"eof", "error"}
  /\ UNCHANGED <<source, got, outcome, recorded, running>>

Deliver ==
  /\ running /\ outcome = "reading" /\ Len(got) < Len(source)
  /\ got' = Append(got, Changed(source[Len(got) + 1]))
  /\ UNCHANGED <<source, fate, outcome, recorded, running>>

\* The record is made once, of an answer that has ended or whose client left.
Settle ==
  /\ running /\ recorded = 0
  /\ fate # "open" \/ outcome = "gone"
  /\ recorded' = 1
  /\ UNCHANGED <<source, fate, got, outcome, running>>

\* The answer ends well only when the backend's did, all of it was received, and
\* it is on record.
Complete ==
  /\ running /\ outcome = "reading"
  /\ fate = "eof" /\ Len(got) = Len(source) /\ recorded = 1
  /\ outcome' = "complete"
  /\ UNCHANGED <<source, fate, got, recorded, running>>

\* It breaks off when the backend's did, after all that came before.
Break ==
  /\ running /\ outcome = "reading"
  /\ fate = "error" /\ Len(got) = Len(source)
  /\ outcome' = "aborted"
  /\ UNCHANGED <<source, fate, got, recorded, running>>

Leave ==
  /\ running /\ outcome = "reading" /\ outcome' = "gone"
  /\ UNCHANGED <<source, fate, got, recorded, running>>

\* When the gateway stops, everything does, at any point.
Stop ==
  /\ running /\ running' = FALSE
  /\ outcome' = IF outcome = "reading" THEN "aborted" ELSE outcome
  /\ UNCHANGED <<source, fate, got, recorded>>

Next ==
  \/ \E chunk \in Chunks : Arrive(chunk)
  \/ Close
  \/ Deliver
  \/ Settle
  \/ Complete
  \/ Break
  \/ Leave
  \/ Stop

Spec == Init /\ [][Next]_vars
=============================================================================
