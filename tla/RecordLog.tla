------------------------------ MODULE RecordLog ------------------------------
(***************************************************************************)
(* What the metrics store promises of a finished request, whatever is      *)
(* between it and the table: records wait in one line, in the order of the *)
(* calls; the front of the line becomes rows, or is lost, as a whole; a    *)
(* record is refused only when the line is long or nobody writes; and a    *)
(* row is deleted only when it is past retention, and then with all that   *)
(* are.                                                                    *)
(***************************************************************************)
EXTENDS Integers, Sequences

CONSTANTS
  Slack,      \* records that surely may wait before one is refused
  Chunk,      \* records that may be written, or lost, at a time
  Retention   \* days that a row is kept

VARIABLES
  line,     \* the records that wait
  log,      \* the rows
  last,     \* the last key given out
  calls,    \* records so far
  lost,     \* the records refused, or lost with their chunk
  writing,  \* somebody writes
  day,
  running   \* the gateway runs

vars == <<line, log, last, calls, lost, writing, day, running>>

Init ==
  /\ line = <<>> /\ log = {} /\ last = 0
  /\ calls = 0 /\ lost = {}
  /\ writing \in BOOLEAN
  /\ day = 0 /\ running = TRUE

Count == running /\ calls' = calls + 1

\* The day is that of the request's start, not of the call.
Accept(start) ==
  /\ Count /\ writing /\ Len(line) < Slack + Chunk
  /\ line' = Append(line, [id |-> calls', start |-> start])
  /\ UNCHANGED <<log, last, lost, writing, day, running>>

Refuse ==
  /\ Count
  /\ Len(line) >= Slack \/ ~writing
  /\ lost' = lost \cup {calls'}
  /\ UNCHANGED <<line, log, last, writing, day, running>>

\* The first n of the line leave it.
Leave(n) ==
  /\ running /\ writing /\ n <= Len(line)
  /\ line' = SubSeq(line, n + 1, Len(line))
  /\ UNCHANGED <<calls, writing, day, running>>

Write(n) ==
  /\ Leave(n)
  /\ log' = log \cup {[key |-> last + k, id |-> line[k].id, start |-> line[k].start] : k \in 1..n}
  /\ last' = last + n
  /\ UNCHANGED lost

Lose(n) ==
  /\ Leave(n)
  /\ lost' = lost \cup {line[k].id : k \in 1..n}
  /\ UNCHANGED <<log, last>>

Prune ==
  /\ running /\ writing
  /\ log' = {row \in log : row.start >= day - Retention}
  /\ UNCHANGED <<line, last, calls, lost, writing, day, running>>

NextDay ==
  /\ running /\ day' = day + 1
  /\ UNCHANGED <<line, log, last, calls, lost, writing, running>>

Stop ==
  /\ running /\ running' = FALSE
  /\ UNCHANGED <<line, log, last, calls, lost, writing, day>>

Next ==
  \/ \E start \in 0..day : Accept(start)
  \/ Refuse
  \/ \E n \in 1..Chunk : Write(n) \/ Lose(n)
  \/ Prune
  \/ NextDay
  \/ Stop

Spec == Init /\ [][Next]_vars
=============================================================================
