-------------------------- MODULE StreamRelayProofs --------------------------
(***************************************************************************)
(* Proofs about StreamRelay: its types, the books a complete answer can    *)
(* rely on, the bound of the readahead, that the relay implements          *)
(* ChunkDelivery, that the accumulated text has what the client has, and   *)
(* that the task runs out of steps, for every frame alphabet, channel and  *)
(* length of answer.                                                       *)
(***************************************************************************)
EXTENDS StreamRelay, WellFoundedInduction, TLAPS

(***************************************************************************)
(* Induction over data: a least counterexample.                            *)
(***************************************************************************)
\* Of the numbers with a property, one is the least.
LEMMA Least ==
  ASSUME NEW T, T \subseteq Nat, T # {}
  PROVE  \E m \in T : \A n \in T : m <= n
<1> DEFINE R == OpToRel(<, Nat)
<1>1. IsWellFoundedOn(R, Nat)
  BY NatLessThanWellFounded
<1>2. \A x, y \in Nat : y < x => <<y, x>> \in R
  BY DEF OpToRel
<1> HIDE DEF R
<1>3. PICK m \in T : \A n \in T : ~ (<<n, m>> \in R)
  BY <1>1, WFMin
<1>4. SUFFICES ASSUME NEW n \in T PROVE m <= n
  OBVIOUS
<1>5. m \in Nat /\ n \in Nat /\ ~ (<<n, m>> \in R)
  BY <1>3
<1>6. ~ (n < m)
  BY <1>2, <1>5
<1> QED
  BY <1>5, <1>6

(***************************************************************************)
(* Facts about the data.                                                   *)
(***************************************************************************)
LEMMA ProcessedType ==
  ASSUME NEW f \in Frames
  PROVE  Processed(f) \in Chunk /\ Processed(f) # Error
<1>1. f \in Seq(Pieces)
  BY FramesAssumption
<1>2. Processed(f) \in Seq(Pieces)
  <2>1. CASE ~Postprocess \/ \E i \in DOMAIN f : f[i] = "bytes"
    BY <1>1, <2>1 DEF Processed
  <2>2. CASE ~(~Postprocess \/ \E i \in DOMAIN f : f[i] = "bytes")
    <3> DEFINE g == [i \in DOMAIN f |-> IF f[i] \in {"line", "broken"} THEN "clean" ELSE f[i]]
    <3>1. \A i \in DOMAIN f : g[i] \in Pieces
      BY <1>1 DEF Pieces
    <3>2. g \in [1..Len(f) -> Pieces] /\ Len(f) \in Nat
      BY <1>1, <3>1
    <3>3. Processed(f) = g
      BY <2>2 DEF Processed
    <3> QED BY <3>2, <3>3
  <2> QED BY <2>1, <2>2
<1> QED BY <1>2, FramesAssumption DEF Chunk

LEMMA HeadAndTail ==
  ASSUME NEW S, NEW q \in Seq(S), q # <<>>
  PROVE  Head(q) \in S /\ Tail(q) \in Seq(S)
OBVIOUS

\* The next frame, while the task has not read all that was sent.
LEMMA NextFrame ==
  ASSUME TypeOK, task.taken < Len(upstream.frames)
  PROVE  /\ upstream.frames[task.taken + 1] \in Frames
         /\ task.taken + 1 \in 1..Len(upstream.frames)
<1>1. upstream.frames \in Seq(Frames) /\ task.taken \in Nat
  BY BoundsAssumption DEF TypeOK
<1>2. task.taken + 1 \in 1..Len(upstream.frames)
  BY <1>1
<1> QED BY <1>1, <1>2

(***************************************************************************)
(* Types.  The counters need that the books are made once, in the order    *)
(* of the task's steps.                                                    *)
(***************************************************************************)
Ending == {"recording", "closing", "done"}

Books ==
  /\ open.tx <=> task.pc # "done"
  /\ records = IF task.pc \in {"closing", "done"} THEN 1 ELSE 0
  /\ events = IF task.pc \in Ending /\ Traced /\ HasEvent(accumulated) THEN 1 ELSE 0
  /\ client.outcome = "complete" => task.pc = "done"

LEMMA InitType == Init => TypeOK /\ Books
BY BoundsAssumption DEF Init, TypeOK, Books, Chunk, Ending

LEMMA BackendType ==
  TypeOK /\ Books /\ Backend => TypeOK' /\ Books'
<1> SUFFICES ASSUME TypeOK, Books, Backend PROVE TypeOK' /\ Books'
  OBVIOUS
<1>1. ASSUME NEW f \in Frames, SendFrame(f) PROVE TypeOK' /\ Books'
  <2>1. upstream.frames \in Seq(Frames)
    BY DEF TypeOK
  <2>2. /\ Append(upstream.frames, f) \in Seq(Frames)
        /\ Len(Append(upstream.frames, f)) = Len(upstream.frames) + 1
        /\ Len(upstream.frames) \in Nat
    BY <2>1
  <2>3. /\ upstream' \in [frames : Seq(Frames), trailers : {"none", "sent", "read"}, end : {"open", "eof", "error"}]
        /\ Len(upstream'.frames) = Len(upstream.frames) + 1
    BY <1>1, <2>2 DEF SendFrame, TypeOK
  <2>4. TypeOK'
    BY <1>1, <2>2, <2>3, BoundsAssumption DEF SendFrame, TypeOK
  <2>5. Books'
    BY <1>1 DEF SendFrame, Books
  <2> QED BY <2>4, <2>5
<1>2. ASSUME SendTrailers PROVE TypeOK' /\ Books'
  BY <1>2 DEF SendTrailers, TypeOK, Books, Ending
<1>3. ASSUME NEW end \in {"eof", "error"}, EndBody(end) PROVE TypeOK' /\ Books'
  BY <1>3 DEF EndBody, TypeOK, Books, Ending
<1> QED BY <1>1, <1>2, <1>3 DEF Backend

LEMMA ReadType ==
  ASSUME TypeOK, Books, ReadFrame \/ ReadTrailers \/ ReadError \/ ReadEnd
  PROVE  TypeOK' /\ Books'
<1>1. CASE ReadFrame
  <2> DEFINE data == Processed(upstream.frames[task.taken + 1])
  <2>1. data \in Chunk
    BY <1>1, NextFrame, ProcessedType DEF ReadFrame
  <2>2. accumulated' \in Chunk
    BY <1>1, <2>1 DEF ReadFrame, TypeOK, Chunk
  <2>3. task.taken + 1 \in 0..MaxFrames /\ task.taken + 1 <= Len(upstream.frames)
    BY <1>1, NextFrame, BoundsAssumption DEF ReadFrame, TypeOK
  <2> QED BY <1>1, <2>1, <2>2, <2>3 DEF ReadFrame, TypeOK, Books, Ending
<1>2. CASE ReadTrailers
  BY <1>2 DEF ReadTrailers, TypeOK, Books, Ending
<1>3. CASE ReadError
  BY <1>3 DEF ReadError, AtEnd, TypeOK, Books, Ending
<1>4. CASE ReadEnd
  BY <1>4 DEF ReadEnd, AtEnd, TypeOK, Books, Ending
<1> QED BY <1>1, <1>2, <1>3, <1>4

LEMMA SendType ==
  ASSUME TypeOK, Books, SendItem \/ SendRefused \/ Trace \/ Record \/ DropSender
  PROVE  TypeOK' /\ Books'
<1>1. CASE SendItem
  BY <1>1 DEF SendItem, TypeOK, Books, Ending
<1>2. CASE SendRefused
  BY <1>2 DEF SendRefused, TypeOK, Books, Ending
<1>3. CASE Trace
  <2>1. HasEvent(accumulated) \in BOOLEAN /\ Traced \in BOOLEAN
    BY FramesAssumption DEF HasEvent
  <2>2. events' = IF Traced /\ HasEvent(accumulated) THEN 1 ELSE 0
    BY <1>3, <2>1 DEF Trace, Books, Ending
  <2>3. TypeOK'
    <3>1. events' \in 0..1
      BY <2>1, <2>2
    <3> QED BY <1>3, <3>1 DEF Trace, TypeOK
  <2>4. Books'
    BY <1>3, <2>1, <2>2 DEF Trace, TypeOK, Books, Ending
  <2> QED BY <2>3, <2>4
<1>4. CASE Record
  BY <1>4 DEF Record, TypeOK, Books, Ending
<1>5. CASE DropSender
  BY <1>5 DEF DropSender, TypeOK, Books, Ending
<1> QED BY <1>1, <1>2, <1>3, <1>4, <1>5

\* However the connection ends, its variables keep their types.
LEMMA HangupType ==
  ASSUME TypeOK, NEW outcome \in {"complete", "aborted", "gone"}, Hangup(outcome)
  PROVE  /\ client' \in [got : Seq(Chunk), outcome : {"reading", "complete", "aborted", "gone"}]
         /\ client'.outcome = outcome /\ client'.got = client.got
         /\ open' \in [tx : BOOLEAN, rx : BOOLEAN]
         /\ open'.tx = open.tx /\ open'.rx = FALSE
         /\ queue' = <<>> /\ queue' \in Seq(Chunk \cup {Error})
<1>1. client \in [got : Seq(Chunk), outcome : {"reading", "complete", "aborted", "gone"}]
  BY DEF TypeOK
<1>2. client' = [client EXCEPT !.outcome = outcome]
  BY DEF Hangup
<1>3. /\ client' \in [got : Seq(Chunk), outcome : {"reading", "complete", "aborted", "gone"}]
      /\ client'.outcome = outcome /\ client'.got = client.got
  BY <1>1, <1>2
<1>4. /\ open' \in [tx : BOOLEAN, rx : BOOLEAN]
      /\ open'.tx = open.tx /\ open'.rx = FALSE
  BY DEF TypeOK, Hangup
<1>5. queue' = <<>> /\ queue' \in Seq(Chunk \cup {Error})
  BY DEF Hangup
<1> QED BY <1>3, <1>4, <1>5

LEMMA ConnectionType ==
  ASSUME TypeOK, Books, Connection \/ Exit
  PROVE  TypeOK' /\ Books'
<1>1. CASE Receive
  <2>1. CASE Head(queue) = Error
    <3>1. Hangup("aborted") /\ UNCHANGED <<upstream, task, accumulated, events, records, up>>
      BY <1>1, <2>1 DEF Receive
    <3>2. TypeOK'
      BY <3>1, HangupType DEF TypeOK
    <3>3. Books'
      BY <3>1, HangupType DEF Books
    <3> QED BY <3>2, <3>3
  <2>2. CASE Head(queue) # Error
    <3>1. Head(queue) \in Chunk /\ queue' \in Seq(Chunk \cup {Error})
      <4>1. queue \in Seq(Chunk \cup {Error}) /\ queue # <<>>
        BY <1>1 DEF Receive, TypeOK
      <4>2. queue' = Tail(queue)
        BY <1>1, <2>2 DEF Receive
      <4> QED BY <2>2, <4>1, <4>2, HeadAndTail
    <3>2. client' \in [got : Seq(Chunk), outcome : {"reading", "complete", "aborted", "gone"}]
      <4>1. client' = [client EXCEPT !.got = Append(@, Head(queue))]
        BY <1>1, <2>2 DEF Receive
      <4>2. client \in [got : Seq(Chunk), outcome : {"reading", "complete", "aborted", "gone"}]
        BY DEF TypeOK
      <4>3. Append(client.got, Head(queue)) \in Seq(Chunk)
        BY <3>1, <4>2
      <4> QED BY <4>1, <4>2, <4>3
    <3>3. TypeOK'
      BY <1>1, <2>2, <3>1, <3>2 DEF Receive, TypeOK
    <3>4. Books'
      BY <1>1, <2>2 DEF Receive, Books, TypeOK
    <3> QED BY <3>3, <3>4
  <2> QED BY <2>1, <2>2
<1>2. CASE ReceiveEnd
  <2>1. Hangup("complete") /\ UNCHANGED <<upstream, task, accumulated, events, records, up>> /\ ~open.tx
    BY <1>2 DEF ReceiveEnd
  <2>2. TypeOK'
    BY <2>1, HangupType DEF TypeOK
  <2>3. Books'
    BY <2>1, HangupType DEF Books
  <2> QED BY <2>2, <2>3
<1>3. CASE Leave
  <2>1. Hangup("gone") /\ UNCHANGED <<upstream, task, accumulated, events, records, up>>
    BY <1>3 DEF Leave
  <2>2. TypeOK'
    BY <2>1, HangupType DEF TypeOK
  <2>3. Books'
    BY <2>1, HangupType DEF Books
  <2> QED BY <2>2, <2>3
<1>4. CASE Exit
  BY <1>4 DEF Exit, TypeOK, Books, Ending
<1> QED BY <1>1, <1>2, <1>3, <1>4 DEF Connection

LEMMA NextType == TypeOK /\ Books /\ [Next]_vars => TypeOK' /\ Books'
<1> SUFFICES ASSUME TypeOK, Books, [Next]_vars PROVE TypeOK' /\ Books'
  OBVIOUS
<1>1. CASE UNCHANGED vars
  BY <1>1 DEF vars, TypeOK, Books
<1>2. CASE Next
  BY <1>2, BackendType, ReadType, SendType, ConnectionType DEF Next, Task
<1> QED BY <1>1, <1>2

LEMMA TypeInvariant == Spec => [](TypeOK /\ Books)
BY InitType, NextType, PTL DEF Spec

\* Every variable of the relay keeps its type; the books are made at most once.
THEOREM TypeCorrect == Spec => []TypeOK
BY TypeInvariant, PTL

\* A client that saw the clean end of its answer (the channel closed, proxy.rs:720)
\* can rely on its record and its trace.
THEOREM CompleteIsRecorded == Spec => []CompleteMeansRecorded
<1>1. Books => CompleteMeansRecorded
  BY DEF Books, CompleteMeansRecorded, Ending
<1> QED BY <1>1, TypeInvariant, PTL

(***************************************************************************)
(* The flow of chunks, while the client reads: what it got, the channel    *)
(* and the item the task holds are together the frames the task has read,  *)
(* each where it belongs; and when the task has left its loop, either the  *)
(* backend's body ended and all of it was read, or the last item of the    *)
(* channel is the error.                                                   *)
(***************************************************************************)
LEMMA AppendItems ==
  ASSUME NEW S, NEW q \in Seq(S), NEW x \in S
  PROVE  /\ Append(q, x) \in Seq(S) /\ Len(q) \in Nat /\ Len(Append(q, x)) = Len(q) + 1
         /\ \A i \in 1..Len(q) : Append(q, x)[i] = q[i]
         /\ Append(q, x)[Len(q) + 1] = x
OBVIOUS

LEMMA TailItems ==
  ASSUME NEW S, NEW q \in Seq(S), q # <<>>
  PROVE  /\ Len(q) \in Nat \ {0} /\ Len(Tail(q)) = Len(q) - 1 /\ Head(q) = q[1]
         /\ \A i \in 1..(Len(q) - 1) : Tail(q)[i] = q[i + 1]
OBVIOUS

After == {"tracing", "recording", "closing", "done"}
Held == IF task.pc = "sending" THEN 1 ELSE 0

\* The first n items of the channel are the chunks that the client gets next.
InTransit(n) ==
  \A i \in 1..n : queue[i] = Processed(upstream.frames[Len(client.got) + i])

AllThere ==
  /\ InTransit(Len(queue))
  /\ Len(client.got) + Len(queue) + Held = task.taken
  /\ task.pc \in After => upstream.end = "eof" /\ task.taken = Len(upstream.frames)

BrokenOff ==
  /\ queue # <<>> /\ task.pc \in After
  /\ InTransit(Len(queue) - 1) /\ queue[Len(queue)] = Error
  /\ Len(client.got) + Len(queue) - 1 = task.taken
  /\ upstream.end = "error" /\ task.taken = Len(upstream.frames)

ItemFits ==
  /\ task.pc = "sending" =>
       task.taken >= 1 /\ task.item = Processed(upstream.frames[task.taken])
  /\ task.pc = "failing" =>
       /\ task.item = Error
       /\ upstream.end = "error" /\ task.taken = Len(upstream.frames)

Flow ==
  client.outcome = "reading" =>
    open.rx /\ Len(queue) <= Capacity /\ ItemFits /\ (AllThere \/ BrokenOff)

LEMMA Lengths ==
  ASSUME TypeOK
  PROVE  /\ upstream.frames \in Seq(Frames) /\ Len(upstream.frames) \in Nat
         /\ queue \in Seq(Chunk \cup {Error}) /\ Len(queue) \in Nat
         /\ client.got \in Seq(Chunk) /\ Len(client.got) \in Nat
         /\ task.taken \in Nat /\ task.taken <= Len(upstream.frames)
         /\ task.item \in Chunk \cup {Error}
<1>1. /\ upstream.frames \in Seq(Frames) /\ queue \in Seq(Chunk \cup {Error})
      /\ client.got \in Seq(Chunk) /\ task.taken \in 0..MaxFrames
      /\ task.taken <= Len(upstream.frames) /\ task.item \in Chunk \cup {Error}
  BY DEF TypeOK
<1> QED BY <1>1, BoundsAssumption

\* The same with the types of the records, which arithmetic on their fields needs.
LEMMA Counts ==
  ASSUME TypeOK
  PROVE  /\ Len(upstream.frames) \in Nat /\ Len(queue) \in Nat /\ Len(client.got) \in Nat
         /\ task.taken \in Nat /\ task.taken <= Len(upstream.frames)
         /\ client \in [got : Seq(Chunk), outcome : {"reading", "complete", "aborted", "gone"}]
         /\ upstream \in [frames : Seq(Frames), trailers : {"none", "sent", "read"},
                          end : {"open", "eof", "error"}]
         /\ task \in [pc : {"reading", "sending", "failing", "tracing", "recording", "closing", "done"},
                      taken : 0..MaxFrames, item : Chunk \cup {Error}]
BY Lengths DEF TypeOK

LEMMA InitFlow == Init => Flow
BY BoundsAssumption DEF Init, Flow, ItemFits, AllThere, InTransit, Held, After

LEMMA BackendFlow ==
  ASSUME TypeOK, Flow, Backend, client.outcome = "reading"
  PROVE  Flow'
<1>1. ASSUME NEW f \in Frames, SendFrame(f) PROVE Flow'
  <2>1. /\ upstream'.frames = Append(upstream.frames, f)
        /\ upstream'.end = upstream.end /\ upstream.end = "open"
        /\ UNCHANGED <<task, queue, open, client>>
    BY <1>1 DEF SendFrame, TypeOK
  <2>2. \A k \in 1..Len(upstream.frames) : upstream'.frames[k] = upstream.frames[k]
    BY <2>1, Lengths, AppendItems
  <2>3. open.rx' /\ Len(queue') <= Capacity
    BY <2>1 DEF Flow
  <2>4. ItemFits'
    BY <2>1, <2>2, Lengths DEF Flow, ItemFits
  <2>5. ASSUME AllThere PROVE AllThere'
    <3>1. InTransit(Len(queue))'
      <4> SUFFICES ASSUME NEW i \in 1..Len(queue)
                   PROVE  queue[i] = Processed(upstream'.frames[Len(client.got) + i])
        BY <2>1 DEF InTransit
      <4>1. Len(client.got) + i \in 1..Len(upstream.frames)
        <5>1. Held \in Nat /\ Len(client.got) + Len(queue) + Held = task.taken
          BY <2>5 DEF AllThere, Held
        <5> QED BY <5>1, Counts
      <4> QED BY <2>2, <2>5, <4>1 DEF AllThere, InTransit
    <3> QED BY <2>1, <2>5, <3>1 DEF AllThere, Held
  <2>6. ASSUME BrokenOff PROVE BrokenOff'
    <3>1. InTransit(Len(queue) - 1)'
      <4> SUFFICES ASSUME NEW i \in 1..(Len(queue) - 1)
                   PROVE  queue[i] = Processed(upstream'.frames[Len(client.got) + i])
        BY <2>1 DEF InTransit
      <4>1. Len(client.got) + i \in 1..Len(upstream.frames)
        BY <2>6, Lengths DEF BrokenOff
      <4> QED BY <2>2, <2>6, <4>1 DEF BrokenOff, InTransit
    <3> QED BY <2>1, <2>6, <3>1 DEF BrokenOff
  <2> QED BY <2>3, <2>4, <2>5, <2>6 DEF Flow
<1>2. ASSUME SendTrailers PROVE Flow'
  <2>1. /\ upstream'.frames = upstream.frames /\ upstream'.end = upstream.end
        /\ UNCHANGED <<task, queue, open, client>>
    BY <1>2 DEF SendTrailers, TypeOK
  <2> QED BY <2>1 DEF Flow, ItemFits, AllThere, BrokenOff, InTransit, Held
<1>3. ASSUME NEW end \in {"eof", "error"}, EndBody(end) PROVE Flow'
  <2>1. /\ upstream'.frames = upstream.frames /\ upstream.end = "open"
        /\ UNCHANGED <<task, queue, open, client>>
    BY <1>3 DEF EndBody, TypeOK
  <2> QED BY <2>1 DEF Flow, ItemFits, AllThere, BrokenOff, InTransit, Held
<1> QED BY <1>1, <1>2, <1>3 DEF Backend

LEMMA ReadFlow ==
  ASSUME TypeOK, Flow, client.outcome = "reading",
         ReadFrame \/ ReadTrailers \/ ReadError \/ ReadEnd
  PROVE  Flow'
<1>1. task.pc = "reading" /\ AllThere /\ open.rx /\ Len(queue) <= Capacity
  BY DEF ReadFrame, ReadTrailers, ReadError, ReadEnd, AtEnd, Flow, BrokenOff, After
<1>2. CASE ReadFrame
  <2>1. /\ task'.pc = "sending" /\ task'.taken = task.taken + 1
        /\ task'.item = Processed(upstream.frames[task.taken + 1])
        /\ UNCHANGED <<upstream, queue, open, client>>
    BY <1>2 DEF ReadFrame
  <2>2. ItemFits'
    BY <2>1, Lengths DEF ItemFits
  <2>3. AllThere'
    BY <1>1, <2>1, Lengths DEF AllThere, InTransit, Held, After
  <2> QED BY <1>1, <2>1, <2>2, <2>3 DEF Flow
<1>3. CASE ReadTrailers
  <2>1. /\ upstream'.frames = upstream.frames /\ upstream'.end = upstream.end
        /\ UNCHANGED <<task, queue, open, client>>
    BY <1>3 DEF ReadTrailers, TypeOK
  <2> QED BY <1>1, <2>1 DEF Flow, ItemFits, AllThere, InTransit, Held
<1>4. CASE ReadError
  <2>1. /\ task'.pc = "failing" /\ task'.taken = task.taken /\ task'.item = Error
        /\ upstream.end = "error" /\ task.taken = Len(upstream.frames)
        /\ UNCHANGED <<upstream, queue, open, client>>
    BY <1>4 DEF ReadError, AtEnd, TypeOK
  <2> QED BY <1>1, <2>1 DEF Flow, ItemFits, AllThere, InTransit, Held, After
<1>5. CASE ReadEnd
  <2>1. /\ task'.pc = "tracing" /\ task'.taken = task.taken
        /\ upstream.end = "eof" /\ task.taken = Len(upstream.frames)
        /\ UNCHANGED <<upstream, queue, open, client>>
    BY <1>5 DEF ReadEnd, AtEnd, TypeOK
  <2> QED BY <1>1, <2>1 DEF Flow, ItemFits, AllThere, InTransit, Held, After
<1> QED BY <1>2, <1>3, <1>4, <1>5

LEMMA SendFlow ==
  ASSUME TypeOK, Flow, client.outcome = "reading", SendItem
  PROVE  Flow'
<1>1. /\ task.pc \in {"sending", "failing"} /\ Len(queue) < Capacity
      /\ queue' = Append(queue, task.item) /\ task'.taken = task.taken
      /\ task'.pc = IF task.pc = "sending" THEN "reading" ELSE "tracing"
      /\ UNCHANGED <<upstream, open, client>>
  BY DEF SendItem, TypeOK
<1>2. AllThere /\ ItemFits /\ open.rx
  BY <1>1 DEF Flow, BrokenOff, After
<1>3. /\ Len(queue') = Len(queue) + 1 /\ queue'[Len(queue) + 1] = task.item
      /\ \A i \in 1..Len(queue) : queue'[i] = queue[i]
  BY <1>1, Lengths, AppendItems
<1>4. Len(queue') <= Capacity
  BY <1>1, <1>3, Lengths, BoundsAssumption
<1>5. ItemFits'
  BY <1>1 DEF ItemFits
<1>6. CASE task.pc = "sending"
  <2>1. Len(client.got) + Len(queue) + 1 = task.taken
    BY <1>2, <1>6 DEF AllThere, Held
  <2>2. task.item = Processed(upstream.frames[Len(client.got) + (Len(queue) + 1)])
    <3>1. Len(client.got) + (Len(queue) + 1) = task.taken
      BY <2>1, Counts
    <3> QED BY <1>2, <1>6, <3>1 DEF ItemFits
  <2>3. InTransit(Len(queue))'
    <3> SUFFICES ASSUME NEW i \in 1..(Len(queue) + 1)
                 PROVE  queue'[i] = Processed(upstream.frames[Len(client.got) + i])
      BY <1>1, <1>3 DEF InTransit
    <3>1. CASE i = Len(queue) + 1
      BY <1>3, <2>2, <3>1
    <3>2. CASE i # Len(queue) + 1
      <4>1. i \in 1..Len(queue)
        BY <3>2, Lengths
      <4> QED BY <1>2, <1>3, <4>1 DEF AllThere, InTransit
    <3> QED BY <3>1, <3>2
  <2>4. task'.pc = "reading" /\ Held' = 0
    BY <1>1, <1>6 DEF Held
  <2>5. Len(client'.got) + Len(queue') + 0 = task'.taken
    <3>1. client'.got = client.got /\ task'.taken = task.taken
      BY <1>1
    <3>2. Len(client.got) + (Len(queue) + 1) + 0 = task.taken
      BY <2>1, Counts
    <3> QED BY <1>3, <3>1, <3>2
  <2>6. AllThere'
    BY <2>3, <2>4, <2>5 DEF AllThere, After
  <2> QED BY <1>1, <1>2, <1>4, <1>5, <2>6 DEF Flow
<1>7. CASE task.pc = "failing"
  <2>1. task.item = Error
    BY <1>2, <1>7 DEF ItemFits
  <2>2. queue' # <<>> /\ queue'[Len(queue')] = Error
    BY <1>3, <2>1, Lengths
  <2>3. InTransit(Len(queue) - 1)'
    <3> SUFFICES ASSUME NEW i \in 1..(Len(queue') - 1)
                 PROVE  queue'[i] = Processed(upstream.frames[Len(client.got) + i])
      BY <1>1 DEF InTransit
    <3>1. i \in 1..Len(queue)
      BY <1>3, Lengths
    <3> QED BY <1>2, <1>3, <3>1 DEF AllThere, InTransit
  <2>4. Len(client.got)' + Len(queue)' - 1 = task'.taken
    BY <1>1, <1>2, <1>3, <1>7, Lengths DEF AllThere, Held
  <2>5. upstream'.end = "error" /\ task'.taken = Len(upstream'.frames)
    BY <1>1, <1>2, <1>7 DEF ItemFits
  <2>6. BrokenOff'
    BY <1>1, <1>7, <2>2, <2>3, <2>4, <2>5 DEF BrokenOff, After
  <2> QED BY <1>1, <1>2, <1>4, <1>5, <2>6 DEF Flow
<1> QED BY <1>1, <1>6, <1>7

LEMMA ReceiveFlow ==
  ASSUME TypeOK, Flow, client.outcome = "reading", Receive, Head(queue) # Error
  PROVE  Flow'
<1>1. /\ queue # <<>> /\ queue' = Tail(queue) /\ UNCHANGED <<upstream, task, open>>
      /\ client'.got = Append(client.got, Head(queue)) /\ client'.outcome = "reading"
  BY DEF Receive, TypeOK
<1>2. /\ Len(queue) \in Nat \ {0} /\ Len(queue') = Len(queue) - 1 /\ Head(queue) = queue[1]
      /\ \A i \in 1..(Len(queue) - 1) : queue'[i] = queue[i + 1]
  BY <1>1, Lengths, TailItems
<1>3. Len(client'.got) = Len(client.got) + 1
  <2>1. Head(queue) \in Chunk \cup {Error}
    BY <1>1, Lengths, HeadAndTail
  <2>2. Head(queue) \in Chunk
    BY <2>1
  <2> QED BY <1>1, <2>2, Lengths, AppendItems
<1>4. open.rx' /\ Len(queue') <= Capacity /\ ItemFits'
  BY <1>1, <1>2, BoundsAssumption DEF Flow, ItemFits
<1>5. ASSUME NEW n \in 0..Len(queue), InTransit(n), NEW i \in 1..(n - 1)
      PROVE  queue'[i] = Processed(upstream'.frames[Len(client'.got) + i])
  <2>1. i + 1 \in 1..n /\ i \in 1..(Len(queue) - 1)
    BY <1>2
  <2>2. queue'[i] = Processed(upstream.frames[Len(client.got) + (i + 1)])
    BY <1>2, <1>5, <2>1 DEF InTransit
  <2>3. Len(client.got) + (i + 1) = Len(client'.got) + i
    <3>1. Len(client.got) + (i + 1) = (Len(client.got) + 1) + i
      BY Counts
    <3> QED BY <1>3, <3>1
  <2> QED BY <1>1, <2>2, <2>3
<1>6. ASSUME AllThere PROVE AllThere'
  <2>1. InTransit(Len(queue))'
    <3>1. Len(queue) \in 0..Len(queue) /\ InTransit(Len(queue))
      BY <1>2, <1>6 DEF AllThere
    <3> QED BY <1>2, <1>5, <3>1 DEF InTransit
  <2>2. Len(client'.got) + Len(queue') + Held' = task'.taken
    <3>1. Held \in Nat /\ Held' = Held
      BY <1>1 DEF Held
    <3>2. Len(client.got) + Len(queue) + Held = task.taken
      BY <1>6 DEF AllThere
    <3>3. (Len(client.got) + 1) + (Len(queue) - 1) + Held = task.taken
      BY <1>2, <3>1, <3>2, Counts
    <3> QED BY <1>1, <1>2, <1>3, <3>1, <3>3
  <2> QED BY <1>1, <1>6, <2>1, <2>2 DEF AllThere
<1>7. ASSUME BrokenOff PROVE BrokenOff'
  <2>1. Len(queue) # 1
    BY <1>2, <1>7 DEF BrokenOff
  <2>2. queue' # <<>> /\ queue'[Len(queue')] = Error
    <3>1. Len(queue) - 1 \in 1..(Len(queue) - 1) /\ (Len(queue) - 1) + 1 = Len(queue)
      BY <1>2, <2>1
    <3>2. queue'[Len(queue')] = Error
      BY <1>2, <1>7, <3>1 DEF BrokenOff
    <3>3. Len(queue') # 0
      BY <1>2, <2>1
    <3> QED BY <3>2, <3>3
  <2>3. InTransit(Len(queue) - 1)'
    <3>1. Len(queue) - 1 \in 0..Len(queue) /\ InTransit(Len(queue) - 1)
      BY <1>2, <1>7 DEF BrokenOff
    <3> QED BY <1>2, <1>5, <3>1 DEF InTransit
  <2>4. Len(client'.got) + Len(queue') - 1 = task'.taken
    BY <1>1, <1>2, <1>3, <1>7, Lengths DEF BrokenOff
  <2> QED BY <1>1, <1>7, <2>2, <2>3, <2>4 DEF BrokenOff
<1> QED BY <1>1, <1>4, <1>6, <1>7 DEF Flow

\* The books and the closing of the channel leave the flow alone.
LEMMA BooksFlow ==
  ASSUME TypeOK, Flow, client.outcome = "reading", Trace \/ Record \/ DropSender
  PROVE  Flow'
<1>1. /\ task.pc \in After /\ task'.pc \in After /\ task'.taken = task.taken
      /\ UNCHANGED <<upstream, queue, client>> /\ open'.rx = open.rx
  BY DEF Trace, Record, DropSender, TypeOK, After
<1>2. Held' = Held /\ ItemFits'
  BY <1>1 DEF Held, ItemFits, After
<1>3. AllThere => AllThere'
  BY <1>1, <1>2 DEF AllThere, InTransit
<1>4. BrokenOff => BrokenOff'
  BY <1>1 DEF BrokenOff, InTransit
<1> QED BY <1>1, <1>2, <1>3, <1>4 DEF Flow

\* A client that no longer reads has no claim, and stays so.
LEMMA EndedFlow ==
  ASSUME TypeOK, [Next]_vars, client.outcome # "reading"
  PROVE  client'.outcome # "reading"
<1>1. ~Receive /\ ~ReceiveEnd /\ ~Leave
  BY DEF Receive, ReceiveEnd, Leave
<1>2. CASE Exit
  BY <1>2 DEF Exit, TypeOK
<1>3. CASE UNCHANGED vars
  BY <1>3 DEF vars
<1>4. CASE Backend \/ Task
  <2>1. UNCHANGED client
    BY <1>4 DEF Backend, Task, SendFrame, SendTrailers, EndBody, ReadFrame, ReadTrailers,
       ReadError, ReadEnd, AtEnd, SendItem, SendRefused, Trace, Record, DropSender
  <2> QED BY <2>1
<1> QED BY <1>1, <1>2, <1>3, <1>4 DEF Next, Connection

LEMMA NextFlow == TypeOK /\ Flow /\ [Next]_vars => Flow'
<1> SUFFICES ASSUME TypeOK, Flow, [Next]_vars PROVE Flow'
  OBVIOUS
<1>1. CASE client.outcome # "reading"
  BY <1>1, EndedFlow DEF Flow
<1>2. CASE client.outcome = "reading"
  <2>1. CASE Backend
    BY <1>2, <2>1, BackendFlow
  <2>2. CASE ReadFrame \/ ReadTrailers \/ ReadError \/ ReadEnd
    BY <1>2, <2>2, ReadFlow
  <2>3. CASE SendItem
    BY <1>2, <2>3, SendFlow
  <2>4. CASE SendRefused
    BY <1>2, <2>4 DEF SendRefused, Flow
  <2>5. CASE Trace \/ Record \/ DropSender
    BY <1>2, <2>5, BooksFlow
  <2>6. CASE Receive
    <3>1. CASE Head(queue) = Error
      <4>1. Hangup("aborted")
        BY <2>6, <3>1 DEF Receive
      <4> QED BY <4>1, HangupType DEF Flow
    <3>2. CASE Head(queue) # Error
      BY <1>2, <2>6, <3>2, ReceiveFlow
    <3> QED BY <3>1, <3>2
  <2>7. CASE ReceiveEnd \/ Leave
    <3>1. Hangup("complete") \/ Hangup("gone")
      BY <2>7 DEF ReceiveEnd, Leave
    <3> QED BY <3>1, HangupType DEF Flow
  <2>8. CASE Exit
    BY <1>2, <2>8 DEF Exit, Flow, TypeOK
  <2>9. CASE UNCHANGED vars
    BY <2>9 DEF vars, Flow, ItemFits, AllThere, BrokenOff, InTransit, Held
  <2> QED BY <2>1, <2>2, <2>3, <2>4, <2>5, <2>6, <2>7, <2>8, <2>9 DEF Next, Task, Connection
<1> QED BY <1>1, <1>2

LEMMA FlowInvariant == Spec => [](TypeOK /\ Books /\ Flow)
<1>1. Init => Flow
  BY InitFlow
<1>2. TypeOK /\ Flow /\ [Next]_vars => Flow'
  BY NextFlow
<1> QED BY <1>1, <1>2, TypeInvariant, PTL DEF Spec

\* However fast the backend is, the task holds at most the channel and one item
\* more than the client took (proxy.rs:616, the bounded channel).
THEOREM ReadaheadIsBounded == Spec => []BoundedReadahead
<1>1. TypeOK /\ Flow => BoundedReadahead
  <2> SUFFICES ASSUME TypeOK, Flow, client.outcome = "reading"
               PROVE  task.taken <= Len(client.got) + Capacity + 1
    BY DEF BoundedReadahead
  <2>1. Len(queue) <= Capacity /\ task.taken <= Len(client.got) + Len(queue) + 1
    <3>1. Len(queue) <= Capacity /\ (AllThere \/ BrokenOff)
      BY DEF Flow
    <3>2. CASE AllThere
      <4>1. Held \in {0, 1} /\ Len(client.got) + Len(queue) + Held = task.taken
        BY <3>2 DEF AllThere, Held
      <4> QED BY <3>1, <4>1, Counts
    <3>3. CASE BrokenOff
      <4>1. Len(client.got) + Len(queue) - 1 = task.taken
        BY <3>3 DEF BrokenOff
      <4> QED BY <3>1, <4>1, Counts
    <3> QED BY <3>1, <3>2, <3>3
  <2> QED BY <2>1, Counts, BoundsAssumption
<1> QED BY <1>1, FlowInvariant, PTL

(***************************************************************************)
(* The refinement.  What the client sees of a step is at most one chunk,   *)
(* or its end.                                                             *)
(***************************************************************************)
\* The chunk at the head of the channel is the next one of the backend's, and one
\* that the task has read.
LEMMA HeadIsNext ==
  ASSUME TypeOK, Flow, Receive, Head(queue) # Error
  PROVE  /\ Head(queue) = Processed(upstream.frames[Len(client.got) + 1])
         /\ Len(client.got) < task.taken
<1> DEFINE got == Len(client.got)
           n == Len(queue)
<1>1. client.outcome = "reading" /\ queue # <<>>
  BY DEF Receive
<1>2. n \in Nat \ {0} /\ Head(queue) = queue[1]
  BY <1>1, Lengths, TailItems
<1>3. got \in Nat /\ task.taken \in Nat
  BY Counts
<1>4. CASE AllThere
  <2>1. queue[1] = Processed(upstream.frames[got + 1])
    BY <1>2, <1>4 DEF AllThere, InTransit
  <2>2. Held \in {0, 1} /\ got + n + Held = task.taken
    BY <1>4 DEF AllThere, Held
  <2> HIDE DEF got, n
  <2>3. got < task.taken
    BY <1>2, <1>3, <2>2
  <2> QED BY <1>2, <2>1, <2>3 DEF got
<1>5. CASE BrokenOff
  <2>1. InTransit(n - 1) /\ queue[n] = Error /\ got + n - 1 = task.taken
    BY <1>5 DEF BrokenOff
  <2> HIDE DEF got, n
  <2>2. n # 1
    BY <1>2, <2>1
  <2>3. 1 \in 1..(n - 1) /\ got < task.taken
    BY <1>2, <1>3, <2>1, <2>2
  <2>4. queue[1] = Processed(upstream.frames[got + 1])
    BY <2>1, <2>3 DEF InTransit, got
  <2> QED BY <1>2, <2>3, <2>4 DEF got
<1> QED BY <1>1, <1>4, <1>5 DEF Flow

LEMMA NextChunkDelivered ==
  ASSUME TypeOK, Flow, Receive, Head(queue) # Error
  PROVE  Delivery!Deliver
<1>1. /\ up /\ client.outcome = "reading" /\ UNCHANGED <<upstream, records, up>>
      /\ client'.got = Append(client.got, Head(queue)) /\ client'.outcome = client.outcome
  BY DEF Receive, TypeOK
<1>2. Len(client.got) < Len(upstream.frames)
  <2> DEFINE got == Len(client.got)
             sent == Len(upstream.frames)
  <2>1. got \in Nat /\ sent \in Nat /\ task.taken \in Nat /\ task.taken <= sent /\ got < task.taken
    BY Counts, HeadIsNext
  <2> HIDE DEF got, sent
  <2>2. got < sent
    BY <2>1
  <2> QED BY <2>2 DEF got, sent
<1> QED BY <1>1, <1>2, HeadIsNext DEF Delivery!Deliver

\* When the error comes to the head of the channel, nothing is behind or before it.
LEMMA ErrorIsLast ==
  ASSUME TypeOK, Flow, Receive, Head(queue) = Error
  PROVE  Delivery!Break
<1> DEFINE got == Len(client.got)
           n == Len(queue)
<1>1. /\ up /\ client.outcome = "reading" /\ queue # <<>> /\ Hangup("aborted")
      /\ UNCHANGED <<upstream, records, up>>
  BY DEF Receive
<1>2. n \in Nat \ {0} /\ queue[1] = Error /\ got \in Nat
  BY <1>1, Lengths, TailItems
<1>3. ASSUME NEW k \in Nat, k <= n, InTransit(k), got + k <= task.taken PROVE k = 0
  <2> SUFFICES ASSUME k # 0 PROVE FALSE
    OBVIOUS
  <2>1. queue[1] = Processed(upstream.frames[got + 1])
    BY <1>3 DEF InTransit
  <2>2. got + 1 \in 1..Len(upstream.frames)
    <3> HIDE DEF got
    <3> QED BY <1>2, <1>3, Counts
  <2>3. upstream.frames[got + 1] \in Frames
    BY <2>2, Lengths
  <2>4. Processed(upstream.frames[got + 1]) # Error
    BY <2>3, ProcessedType, FramesAssumption DEF Chunk
  <2> QED BY <1>2, <2>1, <2>4
<1>4. ~AllThere
  <2> SUFFICES ASSUME AllThere PROVE FALSE
    OBVIOUS
  <2>1. Held \in {0, 1} /\ got + n + Held = task.taken /\ InTransit(n)
    BY DEF AllThere, Held
  <2> HIDE DEF got, n
  <2>2. n <= n /\ got + n <= task.taken
    BY <1>2, <2>1, Counts
  <2> QED BY <1>2, <1>3, <2>1, <2>2
<1>5. BrokenOff
  BY <1>1, <1>4 DEF Flow
<1>6. InTransit(n - 1) /\ got + n - 1 = task.taken
  BY <1>5 DEF BrokenOff
<1>7. got = task.taken
  <2> HIDE DEF got, n
  <2>1. n - 1 \in Nat /\ n - 1 <= n /\ got + (n - 1) <= task.taken
    BY <1>2, <1>6, Counts
  <2>2. n - 1 = 0
    BY <1>3, <1>6, <2>1
  <2> QED BY <1>2, <1>6, <2>2, Counts
<1>8. upstream.end = "error" /\ Len(client.got) = Len(upstream.frames)
  BY <1>5, <1>7 DEF BrokenOff
<1>9. client'.outcome = "aborted" /\ client'.got = client.got
  BY <1>1, HangupType
<1> QED BY <1>1, <1>8, <1>9 DEF Delivery!Break

\* While the process runs, a connection that was aborted is one whose backend failed.
Broken == up /\ client.outcome = "aborted" => upstream.end = "error"

LEMMA BrokenInvariant == Spec => []Broken
<1>1. Init => Broken
  BY DEF Init, Broken
<1>2. TypeOK /\ Books /\ Flow /\ Broken /\ [Next]_vars => Broken'
  <2> SUFFICES ASSUME TypeOK, Flow, Broken, [Next]_vars PROVE Broken'
    OBVIOUS
  <2>1. CASE Receive
    <3>1. CASE Head(queue) = Error
      <4>1. /\ client.outcome = "reading" /\ queue # <<>> /\ Hangup("aborted")
            /\ UNCHANGED upstream
        BY <2>1, <3>1 DEF Receive
      <4>2. upstream.end = "error"
        BY <2>1, <3>1, ErrorIsLast DEF Delivery!Break
      <4> QED BY <4>1, <4>2 DEF Broken
    <3>2. CASE Head(queue) # Error
      <4>1. client'.outcome = "reading"
        BY <2>1, <3>2 DEF Receive, TypeOK
      <4> QED BY <4>1 DEF Broken
    <3> QED BY <3>1, <3>2
  <2>2. CASE ReceiveEnd \/ Leave
    <3>1. Hangup("complete") \/ Hangup("gone")
      BY <2>2 DEF ReceiveEnd, Leave
    <3>2. client'.outcome # "aborted"
      BY <3>1, HangupType
    <3> QED BY <3>2 DEF Broken
  <2>3. CASE Exit
    BY <2>3 DEF Exit, Broken
  <2>4. CASE Backend
    <3>1. /\ UNCHANGED <<client, up>>
          /\ upstream.end = "open" /\ up
      BY <2>4 DEF Backend, SendFrame, SendTrailers, EndBody
    <3> QED BY <3>1 DEF Broken
  <2>5. CASE Task \/ UNCHANGED vars
    <3>1. upstream'.end = upstream.end /\ UNCHANGED <<client, up>>
      BY <2>5 DEF Task, ReadFrame, ReadTrailers, ReadError, ReadEnd, AtEnd, SendItem,
         SendRefused, Trace, Record, DropSender, TypeOK, vars
    <3> QED BY <3>1 DEF Broken
  <2> QED BY <2>1, <2>2, <2>3, <2>4, <2>5 DEF Next, Connection
<1> QED BY <1>1, <1>2, FlowInvariant, PTL DEF Spec

\* A channel that is closed and empty had all of a whole answer in it.
LEMMA CleanEndIsWhole ==
  ASSUME TypeOK, Books, Flow, ReceiveEnd
  PROVE  Delivery!Complete
<1>1. /\ client.outcome = "reading" /\ queue = <<>> /\ ~open.tx
      /\ up /\ Hangup("complete") /\ UNCHANGED <<upstream, records, up>>
  BY DEF ReceiveEnd
<1>2. task.pc = "done" /\ records = 1 /\ AllThere
  BY <1>1 DEF Books, Flow, BrokenOff
<1>3. /\ upstream.end = "eof" /\ task.taken = Len(upstream.frames)
      /\ Held = 0 /\ Len(client.got) + Len(queue) + Held = task.taken
  BY <1>2 DEF AllThere, After, Held
<1>4. Len(client.got) = Len(upstream.frames)
  <2>1. Len(queue) = 0
    BY <1>1
  <2> QED BY <1>3, <2>1, Counts
<1>5. client'.outcome = "complete" /\ client'.got = client.got
  BY <1>1, HangupType
<1> QED BY <1>1, <1>2, <1>3, <1>4, <1>5 DEF Delivery!Complete

\* The answer that is being recorded is over, or its client gone.
LEMMA RecordSettles ==
  ASSUME TypeOK, Books, Flow, Broken, Record
  PROVE  Delivery!Settle
<1>1. /\ up /\ task.pc = "recording" /\ records' = records + 1
      /\ UNCHANGED <<upstream, client, up>>
  BY DEF Record
<1>2. records = 0 /\ client.outcome # "complete"
  BY <1>1 DEF Books
<1>3. client.outcome = "reading" => upstream.end # "open"
  BY <1>1 DEF Flow, AllThere, BrokenOff, After
<1>4. client.outcome = "aborted" => upstream.end # "open"
  BY <1>1 DEF Broken
<1>5. upstream.end # "open" \/ client.outcome = "gone"
  BY <1>2, <1>3, <1>4, Counts
<1> QED BY <1>1, <1>2, <1>5 DEF Delivery!Settle

LEMMA StepRefines ==
  TypeOK /\ Books /\ Flow /\ Broken /\ [Next]_vars => [Delivery!Next]_Delivery!vars
<1> SUFFICES ASSUME TypeOK, Books, Flow, Broken, [Next]_vars
             PROVE  [Delivery!Next]_Delivery!vars
  OBVIOUS
<1>1. ASSUME NEW f \in Frames, SendFrame(f) PROVE Delivery!Arrive(f)
  BY <1>1 DEF SendFrame, TypeOK, Delivery!Arrive
<1>2. CASE SendTrailers
  BY <1>2 DEF SendTrailers, TypeOK, Delivery!vars
<1>3. ASSUME NEW end \in {"eof", "error"}, EndBody(end) PROVE Delivery!Close
  BY <1>3 DEF EndBody, TypeOK, Delivery!Close
<1>4. CASE Task
  <2>1. CASE Record
    BY <2>1, RecordSettles DEF Delivery!Next
  <2>2. CASE ~Record
    <3>1. /\ upstream'.frames = upstream.frames /\ upstream'.end = upstream.end
          /\ UNCHANGED <<client, records, up>>
      BY <1>4, <2>2 DEF Task, ReadFrame, ReadTrailers, ReadError, ReadEnd, AtEnd, SendItem,
         SendRefused, Trace, DropSender, TypeOK
    <3> QED BY <3>1 DEF Delivery!vars
  <2> QED BY <2>1, <2>2
<1>5. CASE Receive
  BY <1>5, NextChunkDelivered, ErrorIsLast DEF Delivery!Next
<1>6. CASE ReceiveEnd
  BY <1>6, CleanEndIsWhole DEF Delivery!Next
<1>7. CASE Leave
  <2>1. /\ up /\ Hangup("gone") /\ client.outcome = "reading"
        /\ UNCHANGED <<upstream, records, up>>
    BY <1>7 DEF Leave
  <2>2. Delivery!Leave
    BY <2>1, HangupType DEF Delivery!Leave
  <2> QED BY <2>2 DEF Delivery!Next
<1>8. CASE Exit
  <2>1. Delivery!Stop
    BY <1>8 DEF Exit, TypeOK, Delivery!Stop
  <2> QED BY <2>1 DEF Delivery!Next
<1>9. CASE UNCHANGED vars
  BY <1>9 DEF vars, Delivery!vars
<1>10. CASE Backend
  <2>1. ASSUME NEW f \in Frames, SendFrame(f) PROVE Delivery!Next
    BY <1>1, <2>1 DEF Delivery!Next
  <2>2. ASSUME NEW end \in {"eof", "error"}, EndBody(end) PROVE Delivery!Next
    BY <1>3, <2>2 DEF Delivery!Next
  <2> QED BY <1>2, <1>10, <2>1, <2>2 DEF Backend
<1> QED BY <1>4, <1>5, <1>6, <1>7, <1>8, <1>9, <1>10 DEF Next, Connection

\* The relay implements ChunkDelivery: chunks in order, none lost or twice, a clean
\* end only after the last chunk of a whole answer that is on record, an error only
\* after the last one of a broken answer, one record (proxy.rs:625-720).
THEOREM RelayKeepsPromise == Spec => KeepsPromise
<1>1. Init => Delivery!Init
  BY DEF Init, Delivery!Init
<1> QED BY <1>1, StepRefines, FlowInvariant, BrokenInvariant, PTL
        DEF Spec, KeepsPromise, Delivery!Spec

(***************************************************************************)
(* The accumulated text.  It is the processed frames one after the other:  *)
(* off[k] is where the k-th of them ends.  The client has the first of     *)
(* them, each as it stands there.                                          *)
(***************************************************************************)
Ends(frames, n, text, off) ==
  /\ off \in [0..n -> 0..Len(text)] /\ off[0] = 0 /\ off[n] = Len(text)
  /\ \A k \in 1..n :
       /\ off[k] = off[k - 1] + Len(Processed(frames[k]))
       /\ \A i \in 1..Len(Processed(frames[k])) : text[off[k - 1] + i] = Processed(frames[k])[i]

InOrder ==
  /\ \E off \in [0..task.taken -> 0..Len(accumulated)] :
       Ends(upstream.frames, task.taken, accumulated, off)
  /\ Len(client.got) <= task.taken
  /\ \A k \in 1..Len(client.got) : client.got[k] = Processed(upstream.frames[k])

LEMMA JoinItems ==
  ASSUME NEW S, NEW p \in Seq(S), NEW q \in Seq(S)
  PROVE  /\ p \o q \in Seq(S) /\ Len(p) \in Nat /\ Len(q) \in Nat /\ Len(p \o q) = Len(p) + Len(q)
         /\ \A i \in 1..Len(p) : (p \o q)[i] = p[i]
         /\ \A i \in 1..Len(q) : (p \o q)[Len(p) + i] = q[i]
OBVIOUS

LEMMA AccumulatedText == TypeOK => accumulated \in Seq(Pieces) /\ Len(accumulated) \in Nat
BY DEF TypeOK, Chunk

\* A text that a frame is added to has one end more.
LEMMA EndsGrow ==
  ASSUME NEW frames, NEW n \in Nat, NEW text \in Seq(Pieces), NEW off, Ends(frames, n, text, off),
         \A k \in 1..(n + 1) : Processed(frames[k]) \in Seq(Pieces)
  PROVE  \E new \in [0..(n + 1) -> 0..Len(text \o Processed(frames[n + 1]))] :
           Ends(frames, n + 1, text \o Processed(frames[n + 1]), new)
<1> DEFINE data == Processed(frames[n + 1])
           old  == Len(text)
           all  == text \o data
           new  == [k \in 0..(n + 1) |-> IF k = n + 1 THEN old + Len(data) ELSE off[k]]
<1>1. data \in Seq(Pieces)
  OBVIOUS
<1>2. /\ old \in Nat /\ Len(data) \in Nat /\ Len(all) = old + Len(data)
      /\ \A i \in 1..old : all[i] = text[i]
      /\ \A i \in 1..Len(data) : all[old + i] = data[i]
  <2> HIDE DEF data
  <2> QED BY <1>1, JoinItems
<1>3. /\ off \in [0..n -> 0..old] /\ off[0] = 0 /\ off[n] = old
      /\ \A k \in 1..n :
           /\ off[k] = off[k - 1] + Len(Processed(frames[k]))
           /\ \A i \in 1..Len(Processed(frames[k])) : text[off[k - 1] + i] = Processed(frames[k])[i]
  BY DEF Ends
<1>d. data = Processed(frames[n + 1])
  OBVIOUS
<1> HIDE DEF data, all, old
<1>4. /\ new \in [0..(n + 1) -> 0..(old + Len(data))]
      /\ new[n + 1] = old + Len(data) /\ \A k \in 0..n : new[k] = off[k]
  BY <1>2, <1>3
<1> HIDE DEF new
<1>5. ASSUME NEW k \in 1..(n + 1)
      PROVE  /\ new[k] = new[k - 1] + Len(Processed(frames[k]))
             /\ \A i \in 1..Len(Processed(frames[k])) : all[new[k - 1] + i] = Processed(frames[k])[i]
  <2>1. CASE k = n + 1
    <3>1. k - 1 = n /\ Processed(frames[k]) = data
      BY <1>d, <2>1
    <3>2. new[k] = old + Len(data) /\ new[k - 1] = old
      BY <1>3, <1>4, <2>1, <3>1
    <3> QED BY <1>2, <3>1, <3>2
  <2>2. CASE k # n + 1
    <3>1. k \in 1..n /\ k \in 0..n /\ k - 1 \in 0..n
      BY <2>2
    <3>2. new[k] = off[k] /\ new[k - 1] = off[k - 1]
      BY <1>4, <3>1
    <3>3. off[k] \in 0..old /\ off[k - 1] \in 0..old /\ off[k] = off[k - 1] + Len(Processed(frames[k]))
      BY <1>3, <3>1
    <3>4. Len(Processed(frames[k])) \in Nat
      <4>1. Processed(frames[k]) \in Seq(Pieces)
        OBVIOUS
      <4> QED BY <4>1
    <3>5. ASSUME NEW i \in 1..Len(Processed(frames[k]))
          PROVE  all[new[k - 1] + i] = Processed(frames[k])[i]
      <4>1. off[k - 1] + i \in 1..old
        BY <1>2, <3>3, <3>4
      <4> QED BY <1>2, <1>3, <3>1, <3>2, <4>1
    <3> QED BY <3>2, <3>3, <3>5
  <2> QED BY <2>1, <2>2
<1>6. new[0] = 0
  BY <1>3, <1>4
<1>7. Ends(frames, n + 1, all, new) /\ new \in [0..(n + 1) -> 0..Len(all)]
  BY <1>2, <1>4, <1>5, <1>6 DEF Ends
<1> QED
  BY <1>7 DEF all, data

LEMMA FrameTypes ==
  ASSUME TypeOK
  PROVE  \A k \in 1..Len(upstream.frames) : Processed(upstream.frames[k]) \in Seq(Pieces)
<1>1. \A k \in 1..Len(upstream.frames) : upstream.frames[k] \in Frames
  BY Lengths
<1> QED
  BY <1>1, ProcessedType DEF Chunk

\* A frame that is read goes to the end of the text.
LEMMA ReadKeepsOrder ==
  ASSUME TypeOK, InOrder, ReadFrame
  PROVE  InOrder'
<1> DEFINE n == task.taken
<1>1. /\ task'.taken = n + 1 /\ accumulated' = accumulated \o Processed(upstream.frames[n + 1])
      /\ UNCHANGED <<upstream, client>> /\ n \in Nat
  BY Counts DEF ReadFrame
<1>2. n + 1 <= Len(upstream.frames)
  BY NextFrame, Counts DEF ReadFrame
<1>3. \A k \in 1..(n + 1) : Processed(upstream.frames[k]) \in Seq(Pieces)
  BY <1>1, <1>2, FrameTypes, Counts
<1>4. PICK off : Ends(upstream.frames, n, accumulated, off)
  BY DEF InOrder
<1>5. \E new \in [0..(n + 1) -> 0..Len(accumulated')] :
        Ends(upstream.frames, n + 1, accumulated', new)
  BY <1>1, <1>3, <1>4, AccumulatedText, EndsGrow
<1>6. Len(client.got) <= n + 1
  BY <1>1, Counts DEF InOrder
<1> QED
  BY <1>1, <1>5, <1>6 DEF InOrder

\* What the client takes is the next frame the task has read.
LEMMA ReceiveKeepsOrder ==
  ASSUME TypeOK, Flow, InOrder, Receive, Head(queue) # Error
  PROVE  InOrder'
<1>1. /\ queue # <<>> /\ UNCHANGED <<upstream, task, accumulated>>
      /\ client'.got = Append(client.got, Head(queue))
  BY DEF Receive, TypeOK
<1>2. Head(queue) \in Chunk
  <2>1. Head(queue) \in Chunk \cup {Error}
    BY <1>1, Lengths, HeadAndTail
  <2> QED BY <2>1
<1>3. /\ Len(client.got) \in Nat /\ Len(client'.got) = Len(client.got) + 1
      /\ \A k \in 1..Len(client.got) : client'.got[k] = client.got[k]
      /\ client'.got[Len(client.got) + 1] = Head(queue)
  BY <1>1, <1>2, Lengths, AppendItems
<1>4. /\ Head(queue) = Processed(upstream.frames[Len(client.got) + 1])
      /\ Len(client.got) < task.taken
  BY HeadIsNext
<1>5. ASSUME NEW k \in 1..Len(client'.got)
      PROVE  client'.got[k] = Processed(upstream.frames[k])
  <2>1. CASE k = Len(client.got) + 1
    BY <1>3, <1>4, <2>1
  <2>2. CASE k # Len(client.got) + 1
    <3>1. k \in 1..Len(client.got)
      BY <1>3, <2>2
    <3> QED BY <1>3, <3>1 DEF InOrder
  <2> QED BY <2>1, <2>2
<1>6. Len(client'.got) <= task.taken
  <2> DEFINE got == Len(client.got)
  <2>1. got \in Nat /\ task.taken \in Nat /\ got < task.taken
    BY <1>4, Counts
  <2> HIDE DEF got
  <2>2. got + 1 <= task.taken
    BY <2>1
  <2> QED BY <1>3, <2>2 DEF got
<1> QED
  BY <1>1, <1>5, <1>6 DEF InOrder

\* The other steps touch neither the text nor what the client has; a frame that
\* the backend sends comes after those that the task has read.
LEMMA OthersKeepOrder ==
  ASSUME TypeOK, InOrder, [Next]_vars, ~ ReadFrame,
         ~ (Receive /\ Head(queue) # Error)
  PROVE  InOrder'
<1>1. ASSUME task'.taken = task.taken, accumulated' = accumulated, client'.got = client.got,
             \A k \in 1..task.taken : upstream'.frames[k] = upstream.frames[k]
      PROVE  InOrder'
  <2>1. PICK off \in [0..task.taken -> 0..Len(accumulated)] :
               Ends(upstream.frames, task.taken, accumulated, off)
    BY DEF InOrder
  <2>2. Ends(upstream'.frames, task.taken, accumulated, off)
    BY <1>1, <2>1 DEF Ends
  <2>3. \A k \in 1..Len(client.got) : k \in 1..task.taken
    BY Counts DEF InOrder
  <2> QED BY <1>1, <2>1, <2>2, <2>3 DEF InOrder
<1>2. ASSUME NEW f \in Frames, SendFrame(f) PROVE InOrder'
  <2>1. upstream'.frames = Append(upstream.frames, f) /\ UNCHANGED <<task, accumulated, client>>
    BY <1>2 DEF SendFrame, TypeOK
  <2>2. \A k \in 1..Len(upstream.frames) : upstream'.frames[k] = upstream.frames[k]
    BY <2>1, Lengths, AppendItems
  <2>3. \A k \in 1..task.taken : k \in 1..Len(upstream.frames)
    BY Counts
  <2> QED BY <1>1, <2>1, <2>2, <2>3
<1>3. CASE SendTrailers \/ \E end \in {"eof", "error"} : EndBody(end)
  <2>1. upstream'.frames = upstream.frames /\ UNCHANGED <<task, accumulated, client>>
    BY <1>3 DEF SendTrailers, EndBody, TypeOK
  <2> QED BY <1>1, <2>1
<1>4. CASE Task
  <2>1. /\ upstream'.frames = upstream.frames /\ task'.taken = task.taken
        /\ UNCHANGED <<accumulated, client>>
    BY <1>4 DEF Task, ReadTrailers, ReadError, ReadEnd, AtEnd, SendItem, SendRefused, Trace,
       Record, DropSender, TypeOK
  <2> QED BY <1>1, <2>1
<1>5. CASE Connection
  <2>1. (\E outcome \in {"complete", "aborted", "gone"} : Hangup(outcome))
        /\ UNCHANGED <<upstream, task, accumulated>>
    BY <1>5 DEF Connection, Receive, ReceiveEnd, Leave
  <2>2. client'.got = client.got
    BY <2>1, HangupType
  <2> QED BY <1>1, <2>1, <2>2
<1>6. CASE Exit \/ UNCHANGED vars
  <2>1. client'.got = client.got /\ UNCHANGED <<upstream, task, accumulated>>
    BY <1>6 DEF Exit, vars, TypeOK
  <2> QED BY <1>1, <2>1
<1> QED
  BY <1>2, <1>3, <1>4, <1>5, <1>6 DEF Next, Backend

LEMMA OrderInvariant == Spec => [](TypeOK /\ InOrder)
<1>1. Init => InOrder
  <2> SUFFICES ASSUME Init PROVE InOrder
    OBVIOUS
  <2>1. task.taken = 0 /\ accumulated = <<>> /\ client.got = <<>>
    BY DEF Init
  <2> DEFINE off == [k \in 0..0 |-> 0]
  <2>2. off \in [0..0 -> 0..Len(accumulated)] /\ off[0] = Len(accumulated) /\ off[0] = 0
    BY <2>1
  <2> HIDE DEF off
  <2>3. Ends(upstream.frames, 0, accumulated, off)
    BY <2>2 DEF Ends
  <2> QED BY <2>1, <2>2, <2>3 DEF InOrder
<1>2. TypeOK /\ Flow /\ InOrder /\ [Next]_vars => InOrder'
  BY ReadKeepsOrder, ReceiveKeepsOrder, OthersKeepOrder
<1> QED BY <1>1, <1>2, FlowInvariant, PTL DEF Spec

(***************************************************************************)
(* What the client has so far, as one text: upTo of AccountsForDelivered.  *)
(***************************************************************************)
Joins(got, f) ==
  f = [n \in 0..Len(got) |-> IF n = 0 THEN <<>> ELSE f[n - 1] \o got[n]]

LEMMA JoinsUnique ==
  ASSUME NEW got, Len(got) \in Nat, NEW f, NEW g, Joins(got, f), Joins(got, g)
  PROVE  f = g
<1> DEFINE T == {n \in 0..Len(got) : f[n] # g[n]}
<1>1. \A n \in 0..Len(got) : /\ f[n] = IF n = 0 THEN <<>> ELSE f[n - 1] \o got[n]
                             /\ g[n] = IF n = 0 THEN <<>> ELSE g[n - 1] \o got[n]
  BY DEF Joins
<1>2. ASSUME T # {} PROVE FALSE
  <2>1. PICK n \in T : \A m \in T : n <= m
    <3>1. T \subseteq Nat
      OBVIOUS
    <3> HIDE DEF T
    <3> QED BY <1>2, <3>1, Least
  <2>2. n # 0 /\ n \in 0..Len(got) /\ f[n] # g[n]
    BY <1>1, <2>1
  <2>3. n - 1 \in 0..Len(got) /\ n - 1 \notin T
    BY <2>1, <2>2
  <2>4. f[n - 1] = g[n - 1]
    BY <2>3
  <2> QED BY <1>1, <2>2, <2>4
<1>3. \A n \in 0..Len(got) : f[n] = g[n]
  BY <1>2
<1> QED
  BY <1>3 DEF Joins

LEMMA Prefixes ==
  ASSUME NEW text \in Seq(Pieces), NEW n \in 0..Len(text)
  PROVE  /\ SubSeq(text, 1, n) \in Seq(Pieces) /\ Len(SubSeq(text, 1, n)) = n
         /\ \A i \in 1..n : SubSeq(text, 1, n)[i] = text[i]
OBVIOUS

\* The texts up to the ends of its chunks are prefixes of the accumulated text.
LEMMA PrefixesJoin ==
  ASSUME NEW frames, NEW n \in Nat, NEW text \in Seq(Pieces), NEW off, Ends(frames, n, text, off),
         NEW got \in Seq(Seq(Pieces)), Len(got) <= n,
         \A k \in 1..Len(got) : got[k] = Processed(frames[k])
  PROVE  Joins(got, [k \in 0..Len(got) |-> SubSeq(text, 1, off[k])])
<1> DEFINE f == [k \in 0..Len(got) |-> SubSeq(text, 1, off[k])]
<1>1. /\ off \in [0..n -> 0..Len(text)] /\ off[0] = 0
      /\ \A k \in 1..n :
           /\ off[k] = off[k - 1] + Len(Processed(frames[k]))
           /\ \A i \in 1..Len(Processed(frames[k])) : text[off[k - 1] + i] = Processed(frames[k])[i]
  BY DEF Ends
<1>2. ASSUME NEW k \in 0..Len(got)
      PROVE  f[k] = IF k = 0 THEN <<>> ELSE f[k - 1] \o got[k]
  <2>1. CASE k = 0
    <3>1. f[k] = SubSeq(text, 1, 0)
      BY <1>1, <2>1
    <3>2. SubSeq(text, 1, 0) = <<>>
      OBVIOUS
    <3> QED BY <2>1, <3>1, <3>2
  <2>2. CASE k # 0
    <3>1. k \in 1..n /\ k \in 1..Len(got) /\ k - 1 \in 0..Len(got) /\ k - 1 \in 0..n /\ k \in 0..n
      BY <2>2
    <3> DEFINE a == off[k - 1]
               b == off[k]
               p == SubSeq(text, 1, a)
               q == got[k]
    <3>2. f[k] = SubSeq(text, 1, b) /\ f[k - 1] = p
      BY <3>1
    <3>3. a \in 0..Len(text) /\ b \in 0..Len(text)
      BY <1>1, <3>1
    <3>4. q \in Seq(Pieces) /\ b = a + Len(q) /\ \A i \in 1..Len(q) : text[a + i] = q[i]
      <4>1. q \in Seq(Pieces) /\ q = Processed(frames[k])
        BY <3>1
      <4>2. /\ b = a + Len(Processed(frames[k]))
            /\ \A i \in 1..Len(Processed(frames[k])) : text[a + i] = Processed(frames[k])[i]
        BY <1>1, <3>1
      <4> HIDE DEF q, a, b
      <4> QED BY <4>1, <4>2
    <3> HIDE DEF a, b, q
    <3>5. /\ p \in Seq(Pieces) /\ Len(p) = a /\ \A i \in 1..a : p[i] = text[i]
      BY <3>3, Prefixes
    <3>6. /\ SubSeq(text, 1, b) \in Seq(Pieces) /\ Len(SubSeq(text, 1, b)) = b
          /\ \A i \in 1..b : SubSeq(text, 1, b)[i] = text[i]
      BY <3>3, Prefixes
    <3> HIDE DEF p, f
    <3>7. /\ p \o q \in Seq(Pieces) /\ Len(p \o q) = b
          /\ \A i \in 1..a : (p \o q)[i] = text[i]
          /\ \A i \in 1..Len(q) : (p \o q)[a + i] = text[a + i]
      <4>1. p \in Seq(Pieces) /\ q \in Seq(Pieces)
        BY <3>4, <3>5
      <4>2. /\ p \o q \in Seq(Pieces) /\ Len(p \o q) = Len(p) + Len(q)
            /\ \A i \in 1..Len(p) : (p \o q)[i] = p[i]
            /\ \A i \in 1..Len(q) : (p \o q)[Len(p) + i] = q[i]
        BY <4>1, JoinItems
      <4> QED BY <3>3, <3>4, <3>5, <4>2
    <3>8. \A i \in 1..b : (p \o q)[i] = text[i]
      <4> SUFFICES ASSUME NEW i \in 1..b PROVE (p \o q)[i] = text[i]
        OBVIOUS
      <4>1. CASE i \in 1..a
        BY <3>7, <4>1
      <4>2. CASE i \notin 1..a
        <5> DEFINE j == i - a
        <5>1. j \in 1..Len(q) /\ a + j = i
          BY <3>3, <3>4, <4>2
        <5> HIDE DEF j
        <5>2. (p \o q)[a + j] = text[a + j]
          BY <3>7, <5>1
        <5> QED BY <5>1, <5>2
      <4> QED BY <4>1, <4>2
    <3>9. SubSeq(text, 1, b) = p \o q
      <4> DEFINE u == SubSeq(text, 1, b)
                 v == p \o q
      <4>1. /\ u \in Seq(Pieces) /\ v \in Seq(Pieces) /\ Len(u) = Len(v)
            /\ \A i \in 1..Len(u) : u[i] = v[i]
        BY <3>6, <3>7, <3>8
      <4> HIDE DEF u, v
      <4>2. u = v
        BY <4>1
      <4> QED BY <4>2 DEF u, v
    <3> QED BY <2>2, <3>2, <3>9 DEF q
  <2> QED BY <2>1, <2>2
<1>3. f = [k \in 0..Len(got) |-> f[k]]
  OBVIOUS
<1> HIDE DEF f
<1>4. Joins(got, f)
  BY <1>2, <1>3 DEF Joins
<1> QED
  BY <1>4 DEF f

\* And so is the whole of what it got.
LEMMA GotIsPrefix ==
  ASSUME NEW frames, NEW n \in Nat, NEW text \in Seq(Pieces), NEW off, Ends(frames, n, text, off),
         NEW got \in Seq(Seq(Pieces)), Len(got) <= n,
         \A k \in 1..Len(got) : got[k] = Processed(frames[k])
  PROVE  LET upTo == CHOOSE g : Joins(got, g) IN
         /\ Len(upTo[Len(got)]) <= Len(text)
         /\ upTo[Len(got)] = SubSeq(text, 1, Len(upTo[Len(got)]))
<1> DEFINE m == Len(got)
           f == [k \in 0..m |-> SubSeq(text, 1, off[k])]
           upTo == CHOOSE g : Joins(got, g)
<1>1. m \in Nat /\ m \in 0..m /\ m \in 0..n
  OBVIOUS
<1>2. off[m] \in 0..Len(text)
  BY <1>1 DEF Ends
<1>3. Joins(got, f)
  BY PrefixesJoin
<1>4. Joins(got, upTo)
  BY <1>3
<1>5. f[m] = SubSeq(text, 1, off[m])
  BY <1>1
<1> HIDE DEF f, upTo
<1>6. upTo = f
  BY <1>1, <1>3, <1>4, JoinsUnique
<1>7. Len(SubSeq(text, 1, off[m])) = off[m] /\ off[m] <= Len(text)
  BY <1>2, Prefixes
<1>8. Len(upTo[m]) <= Len(text) /\ upTo[m] = SubSeq(text, 1, Len(upTo[m]))
  BY <1>5, <1>6, <1>7
<1> QED
  BY <1>8 DEF upTo

\* What the client got is what the accumulated text begins with, at every moment
\* and however its connection ends: the books never miss a chunk (proxy.rs:641,
\* where a chunk is accumulated before it is sent).
THEOREM BooksAccountForDelivered == Spec => []AccountsForDelivered
<1>1. TypeOK /\ InOrder => AccountsForDelivered
  <2> SUFFICES ASSUME TypeOK, InOrder PROVE AccountsForDelivered
    OBVIOUS
  <2> DEFINE upTo == CHOOSE g : Joins(client.got, g)
  <2>1. /\ client.got \in Seq(Seq(Pieces)) /\ task.taken \in Nat /\ accumulated \in Seq(Pieces)
    BY Lengths, AccumulatedText DEF Chunk
  <2>2. PICK off : Ends(upstream.frames, task.taken, accumulated, off)
    BY DEF InOrder
  <2>3. /\ Len(client.got) <= task.taken
        /\ \A k \in 1..Len(client.got) : client.got[k] = Processed(upstream.frames[k])
    BY DEF InOrder
  <2>4. /\ Len(upTo[Len(client.got)]) <= Len(accumulated)
        /\ upTo[Len(client.got)] = SubSeq(accumulated, 1, Len(upTo[Len(client.got)]))
    BY <2>1, <2>2, <2>3, GotIsPrefix
  <2> QED BY <2>4, Zenon DEF AccountsForDelivered, Joins
<1> QED BY <1>1, OrderInvariant, PTL

-----------------------------------------------------------------------------
(***************************************************************************)
(* The safety half of AbandonedStreamEnds and EndedStreamIsRecorded: the   *)
(* steps the task has left are counted.                                    *)
(***************************************************************************)
\* The steps of the task from each place on, when there is nothing more to read.
Ahead == [reading |-> 5, sending |-> 6, failing |-> 4, tracing |-> 3, recording |-> 2,
          closing |-> 1, done |-> 0]

\* A frame that waits costs two, reading and sending it; trailers cost one.
StepsLeft ==
  2 * (Len(upstream.frames) - task.taken)
    + (IF upstream.trailers = "sent" THEN 1 ELSE 0) + Ahead[task.pc]

LEMMA StepsCounted ==
  ASSUME TypeOK
  PROVE  /\ StepsLeft \in Nat /\ Len(upstream.frames) \in Nat /\ task.taken \in Nat
         /\ Len(upstream.frames) - task.taken \in Nat
         /\ Ahead[task.pc] \in 0..6
<1>1. Len(upstream.frames) \in Nat /\ task.taken \in Nat /\ task.taken <= Len(upstream.frames)
  BY BoundsAssumption DEF TypeOK
<1>2. Ahead[task.pc] \in 0..6
  BY DEF TypeOK, Ahead
<1>3. Len(upstream.frames) - task.taken \in Nat
  BY <1>1
<1> QED
  BY <1>1, <1>2, <1>3 DEF StepsLeft

LEMMA TaskStepCounts ==
  ASSUME TypeOK, Task PROVE StepsLeft' < StepsLeft /\ StepsLeft' <= StepsLeft
<1> DEFINE waiting == Len(upstream.frames) - task.taken
<1>1. waiting \in Nat /\ Ahead[task.pc] \in 0..6 /\ Len(upstream.frames) \in Nat /\ task.taken \in Nat
  BY StepsCounted
<1>2. CASE ReadFrame
  <2>1. /\ upstream' = upstream /\ task'.taken = task.taken + 1
        /\ Ahead[task'.pc] = 6 /\ Ahead[task.pc] = 5
    BY <1>2 DEF ReadFrame, Ahead
  <2> DEFINE n == Len(upstream.frames)
             k == task.taken
             last == IF upstream.trailers = "sent" THEN 1 ELSE 0
  <2>2. n \in Nat /\ k \in Nat /\ last \in Nat
    BY <1>1
  <2>3. StepsLeft = 2 * (n - k) + last + 5 /\ StepsLeft' = 2 * (n - (k + 1)) + last + 6
    BY <2>1 DEF StepsLeft
  <2> HIDE DEF n, k, last
  <2> QED
    BY <2>2, <2>3
<1>3. CASE ReadTrailers
  <2>1. upstream'.frames = upstream.frames /\ upstream.trailers = "sent"
        /\ upstream'.trailers = "read" /\ task' = task
    BY <1>3 DEF ReadTrailers, TypeOK
  <2> QED
    BY <1>1, <2>1 DEF StepsLeft
<1>4. ASSUME upstream' = upstream, task'.taken = task.taken, Ahead[task'.pc] \in Nat,
             Ahead[task'.pc] < Ahead[task.pc]
      PROVE  StepsLeft' < StepsLeft /\ StepsLeft' <= StepsLeft
  <2> DEFINE last == IF upstream.trailers = "sent" THEN 1 ELSE 0
             n == 2 * waiting + last
             a == Ahead[task.pc]
             b == Ahead[task'.pc]
  <2>1. last \in Nat /\ a \in Nat /\ b \in Nat /\ b < a
    BY <1>1, <1>4
  <2>2. StepsLeft = n + a /\ StepsLeft' = n + b
    BY <1>4 DEF StepsLeft
  <2> HIDE DEF waiting, last, a, b
  <2>3. n \in Nat
    BY <1>1, <2>1 DEF waiting
  <2> HIDE DEF n
  <2> QED
    BY <2>1, <2>2, <2>3
<1>5. CASE ReadError \/ ReadEnd
  <2>1. task.pc = "reading" /\ upstream' = upstream /\ task'.taken = task.taken
        /\ task'.pc \in {"failing", "tracing"}
    BY <1>5 DEF ReadError, ReadEnd, AtEnd, TypeOK
  <2>2. Ahead[task'.pc] \in Nat /\ Ahead[task'.pc] < Ahead[task.pc]
    BY <2>1 DEF Ahead
  <2> QED
    BY <1>4, <2>1, <2>2
<1>6. CASE SendItem \/ SendRefused
  <2>1. task.pc \in {"sending", "failing"} /\ upstream' = upstream /\ task'.taken = task.taken
        /\ task'.pc \in {"reading", "tracing"} /\ (task.pc = "failing" => task'.pc = "tracing")
    BY <1>6 DEF SendItem, SendRefused, TypeOK
  <2>2. Ahead[task'.pc] \in Nat /\ Ahead[task'.pc] < Ahead[task.pc]
    BY <2>1 DEF Ahead
  <2> QED
    BY <1>4, <2>1, <2>2
<1>7. CASE Trace \/ Record \/ DropSender
  <2>1. /\ upstream' = upstream /\ task'.taken = task.taken
        /\ \/ task.pc = "tracing" /\ task'.pc = "recording"
           \/ task.pc = "recording" /\ task'.pc = "closing"
           \/ task.pc = "closing" /\ task'.pc = "done"
    BY <1>7 DEF Trace, Record, DropSender, TypeOK
  <2>2. Ahead[task'.pc] \in Nat /\ Ahead[task'.pc] < Ahead[task.pc]
    BY <2>1 DEF Ahead
  <2> QED
    BY <1>4, <2>1, <2>2
<1> QED
  BY <1>2, <1>3, <1>5, <1>6, <1>7 DEF Task

\* Once the backend has ended its body the task has so many steps left and no more:
\* each step of its own takes one off, and nobody else adds any, whatever the client
\* does.  With the runtime polling it, it comes to its record and its end unless
\* it waits for room that a connected client does not make (proxy.rs:641).
THEOREM TaskRunsOut ==
  Spec => /\ [](StepsLeft \in Nat)
          /\ [][ /\ Task => StepsLeft' < StepsLeft
                 /\ upstream.end # "open" => StepsLeft' <= StepsLeft ]_vars
<1> DEFINE Fewer == /\ Task => StepsLeft' < StepsLeft
                    /\ upstream.end # "open" => StepsLeft' <= StepsLeft
<1>1. TypeOK => StepsLeft \in Nat
  BY StepsCounted
<1>2. TypeOK /\ [Next]_vars => [Fewer]_vars
  <2> SUFFICES ASSUME TypeOK, Next PROVE Fewer
    BY DEF vars
  <2>1. Task => StepsLeft' < StepsLeft /\ StepsLeft' <= StepsLeft
    BY TaskStepCounts
  <2>2. CASE Task
    BY <2>1, <2>2
  <2>3. CASE Backend
    BY <2>1, <2>3 DEF Backend, SendFrame, SendTrailers, EndBody
  <2>4. CASE Connection \/ Exit
    <3>1. UNCHANGED <<upstream, task>>
      BY <2>4 DEF Connection, Receive, ReceiveEnd, Leave, Exit
    <3>2. StepsLeft' = StepsLeft /\ StepsLeft \in Nat
      BY <3>1, StepsCounted DEF StepsLeft
    <3> QED
      BY <2>1, <3>2
  <2> QED
    BY <2>2, <2>3, <2>4 DEF Next
<1> QED
  BY <1>1, <1>2, TypeInvariant, PTL DEF Spec

=============================================================================
