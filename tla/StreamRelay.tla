----------------------------- MODULE StreamRelay -----------------------------
(***************************************************************************)
(* A streamed answer on its way from the backend to the client:            *)
(* handle_streaming_response of proxy.rs.  A task of its own reads the     *)
(* frames of the backend's body, postprocesses and accumulates them, and   *)
(* puts them in a bounded channel the client's connection takes from.      *)
(* When the body ends, or the connection has dropped its end, it sends the *)
(* trace, records the metrics, and only then closes the channel.           *)
(*                                                                         *)
(* A frame is a sequence of pieces of lines: a whole "line" of JSON, a     *)
(* line whose JSON is "broken" by leaked tokens, the "head" and the "tail" *)
(* of a line that two frames share, or "bytes" that are not UTF-8.         *)
(***************************************************************************)
EXTENDS Naturals, Sequences

CONSTANTS
  Frames,        \* what a backend may send at once
  MaxFrames,     \* bound: frames of one answer
  Capacity,      \* of the channel (64)
  Postprocess,   \* a rule of the model names postprocessors
  Traced,        \* there is a Langfuse collector and the request was JSON
  Error          \* the Err item of the channel

Pieces == {"line", "clean", "broken", "head", "tail", "bytes"}

ASSUME BoundsAssumption == MaxFrames \in Nat /\ Capacity \in Nat \ {0}
ASSUME FramesAssumption ==
  /\ Frames \subseteq Seq(Pieces) \ {<<>>} /\ Error \notin Seq(Pieces)
  /\ Postprocess \in BOOLEAN /\ Traced \in BOOLEAN

VARIABLES
  upstream,     \* environment: the frames sent so far, trailers after them, the end of the body
  task,         \* the spawned task: where it is, the frames read, the item it is about to send
  accumulated,  \* what the trace and the token counts are made from
  queue,        \* the channel
  open,         \* which ends of the channel exist: tx is the task's, rx the connection's
  client,       \* the client's connection: the chunks it took, how it ended
  events,       \* calls of LangfuseCollector::send
  records,      \* calls of MetricsCollector::record
  up            \* the process runs

vars == <<upstream, task, accumulated, queue, open, client, events, records, up>>

Init ==
  /\ upstream = [frames |-> <<>>, trailers |-> "none", end |-> "open"]
  /\ task = [pc |-> "reading", taken |-> 0, item |-> Error]
  /\ accumulated = <<>>
  /\ queue = <<>> /\ open = [tx |-> TRUE, rx |-> TRUE]
  /\ client = [got |-> <<>>, outcome |-> "reading"]
  /\ events = 0 /\ records = 0
  /\ up = TRUE

-----------------------------------------------------------------------------
(***************************************************************************)
(* The backend.  It cuts its answer into frames wherever it likes, but     *)
(* what is cut fits together again: a tail follows a head.                 *)
(***************************************************************************)
Cut(frames) == frames # <<>> /\ LET f == frames[Len(frames)] IN f[Len(f)] = "head"

SendFrame(f) ==
  /\ up /\ upstream.end = "open" /\ upstream.trailers = "none"
  /\ Len(upstream.frames) < MaxFrames
  /\ f[1] = "tail" <=> Cut(upstream.frames)
  /\ upstream' = [upstream EXCEPT !.frames = Append(@, f)]
  /\ UNCHANGED <<task, accumulated, queue, open, client, events, records, up>>

SendTrailers ==
  /\ up /\ upstream.end = "open" /\ upstream.trailers = "none"
  /\ upstream' = [upstream EXCEPT !.trailers = "sent"]
  /\ UNCHANGED <<task, accumulated, queue, open, client, events, records, up>>

EndBody(end) ==
  /\ up /\ upstream.end = "open"
  /\ upstream' = [upstream EXCEPT !.end = end]
  /\ UNCHANGED <<task, accumulated, queue, open, client, events, records, up>>

-----------------------------------------------------------------------------
(***************************************************************************)
(* The task.                                                               *)
(***************************************************************************)
\* process_streaming_chunk works line by line within one frame: a line that
\* parses, or does once the raw repair has been at it, goes through the
\* postprocessors; the part of one does not parse and is passed on as it came,
\* and so is a frame that is not UTF-8.
Processed(f) ==
  IF ~Postprocess \/ \E i \in DOMAIN f : f[i] = "bytes" THEN f
  ELSE [i \in DOMAIN f |-> IF f[i] \in {"line", "broken"} THEN "clean" ELSE f[i]]

\* Mutant: the trace is made from the text as the backend sent it.
ReadFrame_KeepsRaw ==
  /\ up /\ task.pc = "reading" /\ task.taken < Len(upstream.frames)
  /\ LET data == upstream.frames[task.taken + 1] IN
     /\ task' = [pc |-> "sending", taken |-> task.taken + 1, item |-> Processed(data)]
     /\ accumulated' = accumulated \o data
  /\ UNCHANGED <<upstream, queue, open, client, events, records, up>>

ReadFrame ==
  /\ up /\ task.pc = "reading" /\ task.taken < Len(upstream.frames)
  /\ LET data == Processed(upstream.frames[task.taken + 1]) IN
     /\ task' = [pc |-> "sending", taken |-> task.taken + 1, item |-> data]
     /\ accumulated' = accumulated \o data
  /\ UNCHANGED <<upstream, queue, open, client, events, records, up>>

\* Mutant: a frame without data ends the task.
ReadTrailers_Stops ==
  /\ up /\ task.pc = "reading" /\ task.taken = Len(upstream.frames)
  /\ upstream.trailers = "sent"
  /\ upstream' = [upstream EXCEPT !.trailers = "read"]
  /\ task' = [task EXCEPT !.pc = "done"]
  /\ open' = [open EXCEPT !.tx = FALSE]
  /\ UNCHANGED <<accumulated, queue, client, events, records, up>>

\* The trailers are a frame without data: nothing is sent, the loop goes on.
ReadTrailers ==
  /\ up /\ task.pc = "reading" /\ task.taken = Len(upstream.frames)
  /\ upstream.trailers = "sent"
  /\ upstream' = [upstream EXCEPT !.trailers = "read"]
  /\ UNCHANGED <<task, accumulated, queue, open, client, events, records, up>>

AtEnd(end) ==
  /\ up /\ task.pc = "reading" /\ task.taken = Len(upstream.frames)
  /\ upstream.trailers # "sent" /\ upstream.end = end

\* Mutant: an error of the backend ends the loop like the end of the body.
ReadError_Swallowed ==
  /\ AtEnd("error")
  /\ task' = [task EXCEPT !.pc = "tracing"]
  /\ UNCHANGED <<upstream, accumulated, queue, open, client, events, records, up>>

ReadError ==
  /\ AtEnd("error")
  /\ task' = [task EXCEPT !.pc = "failing", !.item = Error]
  /\ UNCHANGED <<upstream, accumulated, queue, open, client, events, records, up>>

\* Mutant: the channel is closed as soon as the body ends.
ReadEnd_ClosesFirst ==
  /\ AtEnd("eof")
  /\ task' = [task EXCEPT !.pc = "tracing"]
  /\ open' = [open EXCEPT !.tx = FALSE]
  /\ UNCHANGED <<upstream, accumulated, queue, client, events, records, up>>

ReadEnd ==
  /\ AtEnd("eof")
  /\ task' = [task EXCEPT !.pc = "tracing"]
  /\ UNCHANGED <<upstream, accumulated, queue, open, client, events, records, up>>

\* Mutant: the channel is not bounded.
SendItem_Unbounded ==
  /\ up /\ task.pc \in {"sending", "failing"} /\ open.rx
  /\ queue' = Append(queue, task.item)
  /\ task' = [task EXCEPT !.pc = IF @ = "sending" THEN "reading" ELSE "tracing"]
  /\ UNCHANGED <<upstream, accumulated, open, client, events, records, up>>

\* tx.send waits for room, which a client that does not read never makes.
SendItem ==
  /\ up /\ task.pc \in {"sending", "failing"}
  /\ open.rx /\ Len(queue) < Capacity
  /\ queue' = Append(queue, task.item)
  /\ task' = [task EXCEPT !.pc = IF @ = "sending" THEN "reading" ELSE "tracing"]
  /\ UNCHANGED <<upstream, accumulated, open, client, events, records, up>>

\* Mutant: a send that fails is ignored and the loop goes on reading.
SendRefused_Ignored ==
  /\ up /\ task.pc \in {"sending", "failing"} /\ ~open.rx
  /\ task' = [task EXCEPT !.pc = IF @ = "sending" THEN "reading" ELSE "tracing"]
  /\ UNCHANGED <<upstream, accumulated, queue, open, client, events, records, up>>

\* It fails once the connection is gone, and only then does the task know.
SendRefused ==
  /\ up /\ task.pc \in {"sending", "failing"} /\ ~open.rx
  /\ task' = [task EXCEPT !.pc = "tracing"]
  /\ UNCHANGED <<upstream, accumulated, queue, open, client, events, records, up>>

\* parse_streaming_chunks: the lines of the accumulated text that parse, a
\* shared line included once both its parts are there.
Parsed(text) ==
  {i \in DOMAIN text : \/ text[i] \in {"line", "clean"}
                       \/ text[i] = "head" /\ i < Len(text) /\ text[i + 1] = "tail"}

\* build_trace_event_from_stream makes no event of a text that is not UTF-8 or
\* has no line that parses.
HasEvent(text) == (\A i \in DOMAIN text : text[i] # "bytes") /\ Parsed(text) # {}

\* Mutant: a traced answer is recorded with its trace, and once more afterwards.
Trace_Records ==
  /\ up /\ task.pc = "tracing"
  /\ events' = IF Traced /\ HasEvent(accumulated) THEN events + 1 ELSE events
  /\ records' = IF Traced THEN records + 1 ELSE records
  /\ task' = [task EXCEPT !.pc = "recording"]
  /\ UNCHANGED <<upstream, accumulated, queue, open, client, up>>

Trace ==
  /\ up /\ task.pc = "tracing"
  /\ events' = IF Traced /\ HasEvent(accumulated) THEN events + 1 ELSE events
  /\ task' = [task EXCEPT !.pc = "recording"]
  /\ UNCHANGED <<upstream, accumulated, queue, open, client, records, up>>

Record ==
  /\ up /\ task.pc = "recording"
  /\ records' = records + 1
  /\ task' = [task EXCEPT !.pc = "closing"]
  /\ UNCHANGED <<upstream, accumulated, queue, open, client, events, up>>

\* tx is dropped with the task.
DropSender ==
  /\ up /\ task.pc = "closing"
  /\ open' = [open EXCEPT !.tx = FALSE]
  /\ task' = [task EXCEPT !.pc = "done"]
  /\ UNCHANGED <<upstream, accumulated, queue, client, events, records, up>>

-----------------------------------------------------------------------------
(***************************************************************************)
(* The client's connection, which owns the receiver.                       *)
(***************************************************************************)
\* However the connection ends it drops the receiver with what is in it.
Hangup(outcome) ==
  /\ client' = [client EXCEPT !.outcome = outcome]
  /\ open' = [open EXCEPT !.rx = FALSE]
  /\ queue' = <<>>

Receive ==
  /\ up /\ client.outcome = "reading"
  /\ queue # <<>>
  /\ IF Head(queue) = Error THEN Hangup("aborted")
     ELSE /\ client' = [client EXCEPT !.got = Append(@, Head(queue))]
          /\ queue' = Tail(queue)
          /\ UNCHANGED open
  /\ UNCHANGED <<upstream, task, accumulated, events, records, up>>

ReceiveEnd ==
  /\ up /\ client.outcome = "reading"
  /\ queue = <<>> /\ ~open.tx
  /\ Hangup("complete")
  /\ UNCHANGED <<upstream, task, accumulated, events, records, up>>

Leave ==
  /\ up /\ client.outcome = "reading"
  /\ Hangup("gone")
  /\ UNCHANGED <<upstream, task, accumulated, events, records, up>>

\* The process ends: main does not wait for the spawned task.
Exit ==
  /\ up /\ up' = FALSE
  /\ client' = [client EXCEPT !.outcome = IF @ = "reading" THEN "aborted" ELSE @]
  /\ UNCHANGED <<upstream, task, accumulated, queue, open, events, records>>

-----------------------------------------------------------------------------
Backend ==
  \/ \E f \in Frames : SendFrame(f)
  \/ SendTrailers
  \/ \E end \in {"eof", "error"} : EndBody(end)

Task ==
  \/ ReadFrame \/ ReadTrailers \/ ReadError \/ ReadEnd
  \/ SendItem \/ SendRefused
  \/ Trace \/ Record \/ DropSender

Connection == Receive \/ ReceiveEnd \/ Leave

Next == Backend \/ Task \/ Connection \/ Exit

Spec == Init /\ [][Next]_vars

\* The runtime polls the task whenever it can go on; backend and client owe nothing.
TaskSpec == Spec /\ WF_vars(Task)

-----------------------------------------------------------------------------
Chunk == Seq(Pieces)

\* Every variable has its type; the task never reads past what was sent.
TypeOK ==
  /\ upstream \in [frames : Seq(Frames), trailers : {"none", "sent", "read"}, end : {"open", "eof", "error"}]
  /\ task \in [pc : {"reading", "sending", "failing", "tracing", "recording", "closing", "done"},
               taken : 0..MaxFrames, item : Chunk \cup {Error}]
  /\ task.taken <= Len(upstream.frames) /\ Len(upstream.frames) <= MaxFrames
  /\ accumulated \in Chunk
  /\ queue \in Seq(Chunk \cup {Error})
  /\ open \in [tx : BOOLEAN, rx : BOOLEAN]
  /\ client \in [got : Seq(Chunk), outcome : {"reading", "complete", "aborted", "gone"}]
  /\ events \in 0..1 /\ records \in 0..1
  /\ up \in BOOLEAN

\* The relay keeps the promise of ChunkDelivery: a prefix of the backend's
\* chunks in order, a clean end only after the last one of a whole body that is on
\* record, an error only after the last one of a broken body; and one record, not
\* before the answer is over or the client gone.
Delivery == INSTANCE ChunkDelivery WITH
  Chunks <- Frames, Changed <- Processed,
  source <- upstream.frames, fate <- upstream.end,
  got <- client.got, outcome <- client.outcome,
  recorded <- records, running <- up
KeepsPromise == Delivery!Spec

\* Backpressure: the task is never further ahead of the client than the channel
\* and the one item it holds.
BoundedReadahead ==
  client.outcome = "reading" => task.taken <= Len(client.got) + Capacity + 1

\* A client that saw the end of its answer can rely on the books: the answer was
\* recorded, and traced when it has a line to trace, even when the process stops
\* right after.
CompleteMeansRecorded ==
  client.outcome = "complete" =>
    /\ records = 1
    /\ Traced /\ HasEvent(accumulated) => events = 1

\* The books never miss a chunk that the client received: what it took, in
\* order, is what the accumulated text begins with.
AccountsForDelivered ==
  LET upTo[n \in 0..Len(client.got)] == IF n = 0 THEN <<>> ELSE upTo[n - 1] \o client.got[n]
      text == upTo[Len(client.got)]
  IN Len(text) <= Len(accumulated) /\ text = SubSeq(accumulated, 1, Len(text))

\* An answer whose client left ends all the same, once the backend ends it or
\* sends more data, whatever the channel held.
Abandoned == client.outcome = "gone" /\
  (upstream.end # "open" \/ task.taken < Len(upstream.frames))
AbandonedStreamEnds == Abandoned ~> ~up \/ task.pc = "done"

\* An answer that the backend ends is recorded and closed, as long as the client
\* takes it or leaves.
EndedStreamIsRecorded ==
  WF_vars(Connection) =>
    (upstream.end # "open" ~> ~up \/ (task.pc = "done" /\ records = 1))
=============================================================================
