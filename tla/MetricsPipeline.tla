--------------------------- MODULE MetricsPipeline ---------------------------
(***************************************************************************)
(* From a finished request to a row of metrics.db: MetricsCollector of     *)
(* metrics.rs.  Request tasks put records into a bounded channel with      *)
(* try_send and never wait; one writer thread takes them out in batches,   *)
(* inserts each batch in a transaction, and prunes old rows now and then.  *)
(*                                                                         *)
(* A record is its number, in the order of the calls of record, and the    *)
(* day its request started, which is earlier than the call for a long one. *)
(***************************************************************************)
EXTENDS Integers, Sequences, FiniteSets

CONSTANTS
  Capacity,     \* of the channel (10 000)
  BatchSize,    \* MAX_BATCH_SIZE (500)
  PruneEvery,   \* PRUNE_EVERY_N_BATCHES (100)
  Retention,    \* RETENTION_DAYS (90)
  MaxRecords,   \* bound: calls of record
  MaxDays       \* bound: days that pass

ASSUME BoundsAssumption ==
  /\ Capacity \in Nat \ {0} /\ BatchSize \in Nat \ {0} /\ PruneEvery \in Nat \ {0}
  /\ Retention \in Nat /\ MaxRecords \in Nat /\ MaxDays \in Nat

VARIABLES
  channel,   \* the records in the channel
  writer,    \* the writer thread: where it is, its batch, the batches since the last prune
  rows,      \* the table api_calls
  keys,      \* the last AUTOINCREMENT key given out
  calls,     \* calls of record so far
  dropped,   \* records that found the channel full
  failed,    \* ghost: the batches whose transaction was rolled back
  pruned,    \* ghost: the records whose rows a prune deleted
  day,
  up         \* the process runs

vars == <<channel, writer, rows, keys, calls, dropped, failed, pruned, day, up>>

Records == [id : 1..MaxRecords, start : 0..MaxDays]
Ids(s) == {s[i].id : i \in DOMAIN s}

\* A row of api_calls.
Row(key, record) == [key |-> key, id |-> record.id, start |-> record.start]

\* The thread ends at once when the database cannot be opened or configured.
Init ==
  /\ channel = <<>> /\ rows = {} /\ keys = 0
  /\ \E pc \in {"receiving", "ended"} : writer = [pc |-> pc, batch |-> <<>>, batches |-> 0]
  /\ calls = 0 /\ dropped = {} /\ failed = {} /\ pruned = {}
  /\ day = 0
  /\ up = TRUE

-----------------------------------------------------------------------------
\* MetricsCollector::record.  A full channel drops the new record; with the
\* writer gone try_send fails for good and says nothing.
Record(start) ==
  /\ up /\ calls < MaxRecords
  /\ calls' = calls + 1
  /\ LET record == [id |-> calls', start |-> start] IN
     IF writer.pc # "ended" /\ Len(channel) < Capacity
     THEN channel' = Append(channel, record) /\ UNCHANGED dropped
     ELSE dropped' = dropped \cup {record.id} /\ UNCHANGED channel
  /\ UNCHANGED <<writer, rows, keys, failed, pruned, day, up>>

-----------------------------------------------------------------------------
(***************************************************************************)
(* writer_loop: wait for one record, take what else is there up to the     *)
(* batch size, insert, and every PruneEvery batches delete what is old.    *)
(***************************************************************************)
Take(pc) ==
  /\ writer' = [writer EXCEPT !.pc = pc, !.batch = Append(@, Head(channel))]
  /\ channel' = Tail(channel)
  /\ UNCHANGED <<rows, keys, calls, dropped, failed, pruned, day, up>>

Recv ==
  /\ up /\ writer.pc = "receiving" /\ channel # <<>>
  /\ Take("filling")

TryRecv ==
  /\ up /\ writer.pc = "filling" /\ channel # <<>>
  /\ Len(writer.batch) < BatchSize
  /\ Take("filling")

\* Mutant: a batch is inserted only when it is full.
BatchDone_WhenFull ==
  /\ up /\ writer.pc = "filling"
  /\ Len(writer.batch) = BatchSize
  /\ writer' = [writer EXCEPT !.pc = "inserting"]
  /\ UNCHANGED <<channel, rows, keys, calls, dropped, failed, pruned, day, up>>

BatchDone ==
  /\ up /\ writer.pc = "filling"
  /\ channel = <<>> \/ Len(writer.batch) = BatchSize
  /\ writer' = [writer EXCEPT !.pc = "inserting"]
  /\ UNCHANGED <<channel, rows, keys, calls, dropped, failed, pruned, day, up>>

\* Mutant: the batches are counted only when they are inserted, after the check.
NextBatch_CountsLate ==
  writer' = [writer EXCEPT
    !.pc = IF writer.batches = PruneEvery THEN "pruning" ELSE "receiving",
    !.batch = <<>>, !.batches = @ + 1]

\* A failed batch counts like an inserted one.
NextBatch ==
  writer' = [writer EXCEPT
    !.pc = IF writer.batches + 1 = PruneEvery THEN "pruning" ELSE "receiving",
    !.batch = <<>>, !.batches = @ + 1]

InsertBatch ==
  /\ up /\ writer.pc = "inserting"
  /\ rows' = rows \cup {Row(keys + k, writer.batch[k]) : k \in DOMAIN writer.batch}
  /\ keys' = keys + Len(writer.batch)
  /\ NextBatch
  /\ UNCHANGED <<channel, calls, dropped, failed, pruned, day, up>>

\* Mutant: a batch that fails is put back behind what came after it.
InsertFails_Requeues ==
  /\ up /\ writer.pc = "inserting"
  /\ channel' = channel \o writer.batch
  /\ NextBatch
  /\ UNCHANGED <<rows, keys, calls, dropped, failed, pruned, day, up>>

\* The transaction is rolled back and its records are gone.
InsertFails ==
  /\ up /\ writer.pc = "inserting"
  /\ failed' = failed \cup Ids(writer.batch)
  /\ NextBatch
  /\ UNCHANGED <<channel, rows, keys, calls, dropped, pruned, day, up>>

Expired(row) == row.start < day - Retention

\* Mutant: the first rows of the table are pruned, as many as have expired.
Prune_Oldest ==
  /\ up /\ writer.pc = "pruning"
  /\ LET old  == Cardinality({row \in rows : Expired(row)})
         gone == {row \in rows : Cardinality({other \in rows : other.key < row.key}) < old}
     IN  rows' = rows \ gone /\ pruned' = pruned \cup {row.id : row \in gone}
  /\ writer' = [writer EXCEPT !.pc = "receiving", !.batches = 0]
  /\ UNCHANGED <<channel, keys, calls, dropped, failed, day, up>>

Prune ==
  /\ up /\ writer.pc = "pruning"
  /\ rows' = {row \in rows : ~Expired(row)}
  /\ pruned' = pruned \cup {row.id : row \in {r \in rows : Expired(r)}}
  /\ writer' = [writer EXCEPT !.pc = "receiving", !.batches = 0]
  /\ UNCHANGED <<channel, keys, calls, dropped, failed, day, up>>

\* The DELETE fails and is logged.
PruneFails ==
  /\ up /\ writer.pc = "pruning"
  /\ writer' = [writer EXCEPT !.pc = "receiving", !.batches = 0]
  /\ UNCHANGED <<channel, rows, keys, calls, dropped, failed, pruned, day, up>>

-----------------------------------------------------------------------------
NextDay ==
  /\ up /\ day < MaxDays /\ day' = day + 1
  /\ UNCHANGED <<channel, writer, rows, keys, calls, dropped, failed, pruned, up>>

\* The process ends without waiting for the thread: an open transaction is
\* rolled back, and what is in the channel goes with it.
Exit ==
  /\ up /\ up' = FALSE
  /\ UNCHANGED <<channel, writer, rows, keys, calls, dropped, failed, pruned, day>>

Writer ==
  \/ Recv \/ TryRecv \/ BatchDone
  \/ InsertBatch \/ InsertFails
  \/ Prune \/ PruneFails

Next ==
  \/ \E start \in 0..day : Record(start)
  \/ Writer
  \/ NextDay
  \/ Exit

Spec == Init /\ [][Next]_vars

\* The operating system runs the writer thread whenever it can go on.
FairSpec == Spec /\ WF_vars(Writer)

-----------------------------------------------------------------------------
\* Every variable has its type, no queue exceeds its bound, and neither does the
\* number of batches between two prunes: a prune that does not fail comes at least
\* every PruneEvery batches, failed ones counted.
TypeOK ==
  /\ channel \in Seq(Records) /\ Len(channel) <= Capacity
  /\ writer \in [pc : {"receiving", "filling", "inserting", "pruning", "ended"},
                 batch : Seq(Records), batches : 0..PruneEvery]
  /\ Len(writer.batch) <= BatchSize
  /\ writer.pc \in {"receiving", "filling", "inserting"} => writer.batches < PruneEvery
  /\ rows \subseteq [key : 1..keys, id : 1..MaxRecords, start : 0..MaxDays] /\ keys \in Nat
  /\ calls \in 0..MaxRecords /\ dropped \subseteq 1..MaxRecords
  /\ failed \subseteq 1..MaxRecords /\ pruned \subseteq 1..MaxRecords
  /\ day \in 0..MaxDays /\ up \in BOOLEAN

Stored == {row.id : row \in rows}
Settled == dropped \cup failed \cup pruned \cup Stored
InWork == Ids(channel) \cup Ids(writer.batch)

\* The calls of record keep their order within a queue, and between two.
Ordered(s) == \A i, j \in DOMAIN s : i < j => s[i].id < s[j].id
Before(s, t) == \A i \in DOMAIN s, j \in DOMAIN t : s[i].id < t[j].id

\* No record gets lost on the way but in the three places that say so (channel
\* full or writer gone, transaction failed, pruned), none is in two places or
\* becomes two rows, and the keys of the rows are in the order of the calls,
\* across channel and batch.
Conserved ==
  /\ Settled \cup InWork = 1..calls
  /\ dropped \cap (failed \cup pruned \cup Stored \cup InWork) = {}
  /\ failed \cap (pruned \cup Stored \cup InWork) = {}
  /\ pruned \cap (Stored \cup InWork) = {} /\ Stored \cap InWork = {}
  /\ Ordered(writer.batch) /\ Ordered(channel) /\ Before(writer.batch, channel)
  /\ \A r, s \in rows : r.key < s.key <=> r.id < s.id

\* The pipeline keeps the promise of RecordLog: batch and channel are one line, of
\* which whole batches become rows or are lost, in order; a record is refused only
\* behind a full channel or without a writer; and a prune deletes what is past
\* retention and nothing else, though the order of the keys is not that of the days.
Log == INSTANCE RecordLog WITH
  Slack <- Capacity, Chunk <- BatchSize,
  line <- writer.batch \o channel, log <- rows, last <- keys,
  lost <- dropped \cup failed, writing <- writer.pc # "ended", running <- up
KeepsLog == Log!Spec

\* While the process and its writer run, every record is settled in the end.
EveryRecordSettles ==
  \A n \in 1..MaxRecords :
    n \in InWork ~> n \in Settled \/ ~up
=============================================================================
