------------------------ MODULE MetricsPipelineProofs ------------------------
(***************************************************************************)
(* MetricsPipeline for any channel, batch, retention and number of         *)
(* records: the types, the books of the records, what a prune may delete,  *)
(* that the pipeline implements RecordLog, and how long a record may wait. *)
(* The records in work are the batch followed by the channel; a call of    *)
(* record extends that line at its end, the writer moves the border inside *)
(* it, and an insert takes the batch off its front.                        *)
(***************************************************************************)
EXTENDS MetricsPipeline, FiniteSetTheorems, SequenceTheorems, TLAPS

\* A writer that holds no batch.
Resting == writer.pc \in {"receiving", "pruning", "ended"} => writer.batch = <<>>

\* The rows come before the records in work, and a key is that of one row.
Keyed ==
  /\ \A r \in rows : \A n \in InWork : r.id < n
  /\ \A r, s \in rows : r.key = s.key => r = s

Types == TypeOK /\ Resting

-----------------------------------------------------------------------------
\* The two ends of the line.
LEMMA IdsOfAppend ==
  ASSUME NEW s \in Seq(Records), NEW r \in Records
  PROVE  /\ Append(s, r) \in Seq(Records) /\ Len(Append(s, r)) = Len(s) + 1
         /\ Ids(Append(s, r)) = Ids(s) \cup {r.id}
<1> DEFINE t == Append(s, r)
<1>1. /\ t \in Seq(Records) /\ Len(t) = Len(s) + 1 /\ DOMAIN t = 1..Len(s) + 1
      /\ DOMAIN s = 1..Len(s) /\ Len(s) \in Nat
      /\ \A i \in 1..Len(s) : t[i] = s[i]
      /\ t[Len(s) + 1] = r
  OBVIOUS
<1> HIDE DEF t
<1>2. \A i \in DOMAIN t : i \in DOMAIN s \/ i = Len(s) + 1
  BY <1>1
<1>3. \A i \in DOMAIN s : i \in DOMAIN t
  BY <1>1
<1>4. Len(s) + 1 \in DOMAIN t
  BY <1>1
<1>5. Ids(t) = Ids(s) \cup {r.id}
  BY <1>1, <1>2, <1>3, <1>4 DEF Ids
<1> QED
  BY <1>1, <1>5 DEF t

LEMMA IdsOfHead ==
  ASSUME NEW s \in Seq(Records), s # <<>>
  PROVE  /\ Head(s) \in Records /\ Tail(s) \in Seq(Records) /\ Len(Tail(s)) = Len(s) - 1
         /\ Ids(s) = {Head(s).id} \cup Ids(Tail(s))
<1> DEFINE t == Tail(s)
<1>1. /\ t \in Seq(Records) /\ Len(t) = Len(s) - 1 /\ DOMAIN t = 1..Len(s) - 1
      /\ DOMAIN s = 1..Len(s) /\ Len(s) \in Nat \ {0}
      /\ \A i \in 1..Len(s) - 1 : t[i] = s[i + 1]
      /\ Head(s) = s[1] /\ s[1] \in Records
  OBVIOUS
<1> HIDE DEF t
<1>2. \A i \in DOMAIN s : i = 1 \/ (i - 1 \in DOMAIN t /\ t[i - 1] = s[i])
  BY <1>1
<1>3. \A i \in DOMAIN t : i + 1 \in DOMAIN s /\ t[i] = s[i + 1]
  BY <1>1
<1>4. 1 \in DOMAIN s
  BY <1>1
<1>5. Ids(s) \subseteq {Head(s).id} \cup Ids(t)
  BY <1>1, <1>2 DEF Ids
<1>6. {Head(s).id} \cup Ids(t) \subseteq Ids(s)
  BY <1>1, <1>3, <1>4 DEF Ids
<1> QED
  BY <1>1, <1>5, <1>6 DEF t

LEMMA IdsOfNothing == Ids(<<>>) = {}
  BY DEF Ids

LEMMA IdsTyped == ASSUME NEW s \in Seq(Records) PROVE Ids(s) \subseteq 1..MaxRecords
<1>1. \A i \in DOMAIN s : s[i] \in Records
  OBVIOUS
<1> QED
  BY <1>1 DEF Ids, Records

\* A record whose number is larger than every other's goes to the end.
LEMMA AppendKeepsOrder ==
  ASSUME NEW b \in Seq(Records), NEW s \in Seq(Records), NEW r \in Records,
         Ordered(s), Before(b, s), \A n \in Ids(b) \cup Ids(s) : n < r.id
  PROVE  Ordered(Append(s, r)) /\ Before(b, Append(s, r))
<1> DEFINE t == Append(s, r)
<1>1. /\ t \in Seq(Records) /\ DOMAIN t = 1..Len(s) + 1 /\ DOMAIN s = 1..Len(s) /\ Len(s) \in Nat
      /\ \A i \in 1..Len(s) : t[i] = s[i]
      /\ t[Len(s) + 1] = r
  OBVIOUS
<1>2. (\A i \in DOMAIN s : s[i].id < r.id) /\ (\A i \in DOMAIN b : b[i].id < r.id)
  BY DEF Ids
<1> HIDE DEF t
<1>3. Ordered(t)
  <2> SUFFICES ASSUME NEW i \in DOMAIN t, NEW j \in DOMAIN t, i < j PROVE t[i].id < t[j].id
    BY DEF Ordered
  <2>1. i \in 1..Len(s) /\ t[i] = s[i]
    BY <1>1
  <2>2. CASE j \in 1..Len(s)
    BY <1>1, <2>1, <2>2 DEF Ordered
  <2>3. CASE j = Len(s) + 1
    BY <1>1, <1>2, <2>1, <2>3
  <2> QED
    BY <1>1, <2>2, <2>3
<1>4. Before(b, t)
  BY <1>1, <1>2 DEF Before
<1> QED
  BY <1>3, <1>4 DEF t

\* The border between batch and channel moves by one record.
LEMMA TakeKeepsOrder ==
  ASSUME NEW b \in Seq(Records), NEW s \in Seq(Records), s # <<>>,
         Ordered(b), Ordered(s), Before(b, s)
  PROVE  /\ Ordered(Append(b, Head(s))) /\ Ordered(Tail(s))
         /\ Before(Append(b, Head(s)), Tail(s))
         /\ Ids(Append(b, Head(s))) \cup Ids(Tail(s)) = Ids(b) \cup Ids(s)
<1> DEFINE t == Append(b, Head(s))
           u == Tail(s)
<1>1. /\ u \in Seq(Records) /\ DOMAIN u = 1..Len(s) - 1
      /\ DOMAIN s = 1..Len(s) /\ Len(s) \in Nat \ {0}
      /\ \A i \in 1..Len(s) - 1 : u[i] = s[i + 1]
      /\ Head(s) = s[1] /\ s[1] \in Records
  OBVIOUS
<1>2. /\ t \in Seq(Records) /\ DOMAIN t = 1..Len(b) + 1 /\ DOMAIN b = 1..Len(b) /\ Len(b) \in Nat
      /\ \A i \in 1..Len(b) : t[i] = b[i]
      /\ t[Len(b) + 1] = s[1]
  BY <1>1
<1>3. Ids(t) \cup Ids(u) = Ids(b) \cup Ids(s)
  BY <1>1, IdsOfHead, IdsOfAppend
<1> HIDE DEF t, u
<1>4. \A i \in DOMAIN b : b[i].id < s[1].id
  BY <1>1 DEF Before
<1>5. Ordered(t)
  <2> SUFFICES ASSUME NEW i \in DOMAIN t, NEW j \in DOMAIN t, i < j PROVE t[i].id < t[j].id
    BY DEF Ordered
  <2>1. i \in DOMAIN b /\ t[i] = b[i]
    BY <1>2
  <2>2. CASE j \in DOMAIN b
    BY <1>2, <2>1, <2>2 DEF Ordered
  <2>3. CASE j = Len(b) + 1
    BY <1>2, <1>4, <2>1, <2>3
  <2> QED
    BY <1>2, <2>2, <2>3
<1>6. Ordered(u)
  <2> SUFFICES ASSUME NEW i \in DOMAIN u, NEW j \in DOMAIN u, i < j PROVE u[i].id < u[j].id
    BY DEF Ordered
  <2>1. i + 1 \in DOMAIN s /\ j + 1 \in DOMAIN s /\ i + 1 < j + 1
    BY <1>1
  <2>2. s[i + 1].id < s[j + 1].id
    BY <2>1 DEF Ordered
  <2> QED
    BY <1>1, <2>2
<1>7. \A j \in DOMAIN u : s[1].id < u[j].id /\ \A i \in DOMAIN b : b[i].id < u[j].id
  <2> SUFFICES ASSUME NEW j \in DOMAIN u
               PROVE s[1].id < u[j].id /\ \A i \in DOMAIN b : b[i].id < u[j].id
    OBVIOUS
  <2>1. 1 \in DOMAIN s /\ j + 1 \in DOMAIN s /\ 1 < j + 1 /\ u[j] = s[j + 1]
    BY <1>1
  <2>2. s[1].id < s[j + 1].id
    BY <2>1 DEF Ordered
  <2>3. \A i \in DOMAIN b : b[i].id < s[j + 1].id
    BY <2>1 DEF Before
  <2> QED
    BY <2>1, <2>2, <2>3
<1>8. Before(t, u)
  BY <1>2, <1>7 DEF Before
<1> QED
  BY <1>3, <1>5, <1>6, <1>8 DEF t, u

LEMMA NothingIsOrdered ==
  ASSUME NEW s PROVE Ordered(<<>>) /\ Before(<<>>, s)
  BY DEF Ordered, Before

-----------------------------------------------------------------------------
\* The type invariant and the batch of a resting writer.
Writers == [pc : {"receiving", "filling", "inserting", "pruning", "ended"},
            batch : Seq(Records), batches : 0..PruneEvery]

LEMMA InitTypes == Init => Types
<1> SUFFICES ASSUME Init PROVE Types
  OBVIOUS
<1>1. PICK pc \in {"receiving", "ended"} : writer = [pc |-> pc, batch |-> <<>>, batches |-> 0]
  BY DEF Init
<1>2. PruneEvery \in Nat \ {0} /\ Capacity \in Nat /\ BatchSize \in Nat
      /\ MaxRecords \in Nat /\ MaxDays \in Nat
  BY BoundsAssumption
<1>3. <<>> \in Seq(Records) /\ Len(<<>>) = 0
  OBVIOUS
<1>4. writer \in Writers /\ writer.pc = pc /\ writer.batch = <<>> /\ writer.batches = 0
  BY <1>1, <1>2, <1>3 DEF Writers
<1>5. TypeOK
  BY <1>2, <1>3, <1>4 DEF TypeOK, Init, Writers
<1> QED
  BY <1>4, <1>5 DEF Types, Resting

LEMMA TakeTypes ==
  ASSUME Types, NEW pc \in {"filling"}, channel # <<>>, Len(writer.batch) < BatchSize,
         writer.pc \in {"receiving", "filling"}, Take(pc)
  PROVE  Types'
<1>1. /\ channel \in Seq(Records) /\ Len(channel) <= Capacity /\ writer \in Writers
      /\ writer.batches < PruneEvery
  BY DEF Types, TypeOK, Writers
<1>2. /\ channel' \in Seq(Records) /\ Len(channel') = Len(channel) - 1
      /\ Head(channel) \in Records
  BY <1>1, IdsOfHead DEF Take
<1>3. Append(writer.batch, Head(channel)) \in Seq(Records)
      /\ Len(Append(writer.batch, Head(channel))) = Len(writer.batch) + 1
  BY <1>1, <1>2, IdsOfAppend DEF Writers
<1>4. /\ writer' \in Writers /\ writer'.pc = "filling" /\ writer'.batches = writer.batches
      /\ writer'.batch = Append(writer.batch, Head(channel))
  BY <1>1, <1>3 DEF Take, Writers
<1>5. Len(writer'.batch) <= BatchSize /\ Len(channel') <= Capacity
  BY <1>1, <1>2, <1>3, <1>4, BoundsAssumption DEF Writers
<1>6. TypeOK'
  BY <1>1, <1>2, <1>4, <1>5 DEF Types, TypeOK, Take, Writers
<1> QED
  BY <1>4, <1>6 DEF Types, Resting

\* What follows an insert, whether it succeeded or not.
LEMMA NextBatchTypes ==
  ASSUME Types, writer.pc = "inserting", NextBatch
  PROVE  /\ writer' \in Writers /\ writer'.batch = <<>> /\ Len(writer'.batch) = 0
         /\ writer'.pc \in {"receiving", "pruning"}
         /\ writer'.pc = "receiving" => writer'.batches < PruneEvery
<1> DEFINE pc == IF writer.batches + 1 = PruneEvery THEN "pruning" ELSE "receiving"
           empty == <<>>
           n == writer.batches + 1
<1>1. writer \in Writers /\ writer.batches \in 0..PruneEvery /\ writer.batches < PruneEvery
  BY DEF Types, TypeOK, Writers
<1>2. PruneEvery \in Nat \ {0} /\ empty \in Seq(Records) /\ Len(empty) = 0
  BY BoundsAssumption
<1>3. n \in 0..PruneEvery /\ pc \in {"receiving", "pruning"} /\ (pc = "receiving" => n < PruneEvery)
  BY <1>1, <1>2
<1>4. writer' = [pc |-> pc, batch |-> empty, batches |-> n]
  BY <1>1 DEF NextBatch, Writers
<1> HIDE DEF pc, empty, n
<1>5. writer' \in Writers /\ writer'.pc = pc /\ writer'.batch = empty /\ writer'.batches = n
  BY <1>2, <1>3, <1>4 DEF Writers
<1> QED
  BY <1>2, <1>3, <1>5 DEF empty

LEMMA RowsTyped ==
  ASSUME Types, NEW k \in DOMAIN writer.batch
  PROVE  /\ k \in 1..Len(writer.batch) /\ writer.batch[k] \in Records
         /\ Row(keys + k, writer.batch[k])
              \in [key : 1..keys + Len(writer.batch), id : 1..MaxRecords, start : 0..MaxDays]
<1>1. writer.batch \in Seq(Records) /\ keys \in Nat
  BY DEF Types, TypeOK
<1>2. k \in 1..Len(writer.batch) /\ writer.batch[k] \in Records /\ Len(writer.batch) \in Nat
  BY <1>1
<1>3. keys + k \in 1..keys + Len(writer.batch)
  BY <1>1, <1>2
<1>4. writer.batch[k].id \in 1..MaxRecords /\ writer.batch[k].start \in 0..MaxDays
  BY <1>2 DEF Records
<1> QED
  BY <1>2, <1>3, <1>4 DEF Row

LEMMA RestTypes ==
  ASSUME Types,
         writer' = [writer EXCEPT !.pc = "receiving", !.batches = 0], writer.pc = "pruning"
  PROVE  /\ writer' \in Writers /\ writer'.pc = "receiving" /\ writer'.batch = <<>>
         /\ writer'.batches < PruneEvery /\ Len(writer'.batch) <= BatchSize
<1>1. writer \in Writers /\ PruneEvery \in Nat \ {0} /\ writer.batch = <<>>
      /\ Len(writer.batch) <= BatchSize
  BY BoundsAssumption DEF Types, TypeOK, Resting, Writers
<1>2. writer' = [pc |-> "receiving", batch |-> writer.batch, batches |-> 0]
  BY <1>1 DEF Writers
<1>3. writer.batch \in Seq(Records)
  BY <1>1 DEF Writers
<1>4. /\ writer' \in Writers /\ writer'.pc = "receiving" /\ writer'.batch = writer.batch
      /\ writer'.batches = 0
  BY <1>1, <1>2, <1>3 DEF Writers
<1> QED
  BY <1>1, <1>4

LEMMA StepTypes == Types /\ [Next]_vars => Types'
<1> SUFFICES ASSUME Types, [Next]_vars PROVE Types'
  OBVIOUS
<1>0. /\ TypeOK /\ Resting /\ BoundsAssumption
      /\ PruneEvery \in Nat \ {0} /\ Capacity \in Nat \ {0} /\ BatchSize \in Nat \ {0}
      /\ MaxRecords \in Nat /\ MaxDays \in Nat
      /\ writer \in Writers /\ channel \in Seq(Records) /\ calls \in 0..MaxRecords
  BY BoundsAssumption DEF Types, TypeOK, Writers, BoundsAssumption
<1>1. ASSUME NEW start \in 0..day, Record(start) PROVE Types'
  <2> DEFINE record == [id |-> calls', start |-> start]
  <2>1. calls' = calls + 1 /\ calls' \in 0..MaxRecords /\ calls' \in 1..MaxRecords
        /\ start \in 0..MaxDays
    BY <1>0, <1>1 DEF Record, TypeOK
  <2>2. record \in Records /\ record.id = calls'
    BY <2>1 DEF Records
  <2> HIDE DEF record
  <2>3. \/ channel' = Append(channel, record) /\ Len(channel) < Capacity /\ dropped' = dropped
        \/ channel' = channel /\ dropped' = dropped \cup {calls'}
    BY <1>1, <2>2 DEF Record, record
  <2>4. channel' \in Seq(Records) /\ Len(channel') <= Capacity
    <3>1. /\ Append(channel, record) \in Seq(Records)
          /\ Len(Append(channel, record)) = Len(channel) + 1
      BY <1>0, <2>2, IdsOfAppend
    <3>2. Len(channel) \in Nat /\ Len(channel) <= Capacity
      BY <1>0 DEF TypeOK
    <3> QED
      BY <1>0, <2>3, <3>1, <3>2
  <2>5. dropped' \subseteq 1..MaxRecords
    BY <1>0, <2>1, <2>3 DEF TypeOK
  <2>6. UNCHANGED <<writer, rows, keys, failed, pruned, day, up>>
    BY <1>1 DEF Record
  <2> QED
    BY <1>0, <2>1, <2>4, <2>5, <2>6 DEF Types, TypeOK, Resting
<1>2. CASE Recv
  <2>1. Len(writer.batch) < BatchSize
    BY <1>0, <1>2 DEF Recv, Resting
  <2> QED
    BY <1>2, <2>1, TakeTypes DEF Recv
<1>3. CASE TryRecv
  BY <1>3, TakeTypes DEF TryRecv
<1>4. CASE BatchDone
  <2>1. /\ writer' \in Writers /\ writer'.pc = "inserting" /\ writer'.batch = writer.batch
        /\ writer'.batches = writer.batches /\ writer.batches < PruneEvery
    BY <1>0, <1>4 DEF BatchDone, Writers, TypeOK
  <2> QED
    BY <1>0, <1>4, <2>1 DEF Types, TypeOK, Resting, BatchDone, Writers
<1>5. CASE InsertBatch
  <2>1. writer.batch \in Seq(Records) /\ Len(writer.batch) \in Nat
        /\ keys \in Nat /\ rows \subseteq [key : 1..keys, id : 1..MaxRecords, start : 0..MaxDays]
    BY <1>0 DEF TypeOK
  <2>2. /\ rows' = rows \cup {Row(keys + k, writer.batch[k]) : k \in DOMAIN writer.batch}
        /\ keys' = keys + Len(writer.batch) /\ keys' \in Nat /\ keys <= keys'
    BY <1>5, <2>1 DEF InsertBatch
  <2>3. rows \subseteq [key : 1..keys', id : 1..MaxRecords, start : 0..MaxDays]
    BY <2>1, <2>2
  <2>4. rows' \subseteq [key : 1..keys', id : 1..MaxRecords, start : 0..MaxDays]
    BY <2>2, <2>3, RowsTyped
  <2>5. UNCHANGED <<channel, calls, dropped, failed, pruned, day, up>>
    BY <1>5 DEF InsertBatch
  <2>6. /\ writer' \in Writers /\ writer'.batch = <<>> /\ Len(writer'.batch) <= BatchSize
        /\ writer'.pc \in {"receiving", "pruning"}
        /\ writer'.pc = "receiving" => writer'.batches < PruneEvery
    BY <1>0, <1>5, NextBatchTypes DEF InsertBatch
  <2> QED
    BY <1>0, <2>2, <2>4, <2>5, <2>6 DEF Types, TypeOK, Resting, Writers
<1>6. CASE InsertFails
  <2>1. failed' \subseteq 1..MaxRecords
    BY <1>0, <1>6, IdsTyped DEF InsertFails, TypeOK
  <2>2. UNCHANGED <<channel, rows, keys, calls, dropped, pruned, day, up>>
    BY <1>6 DEF InsertFails
  <2>3. /\ writer' \in Writers /\ writer'.batch = <<>> /\ Len(writer'.batch) <= BatchSize
        /\ writer'.pc \in {"receiving", "pruning"}
        /\ writer'.pc = "receiving" => writer'.batches < PruneEvery
    BY <1>0, <1>6, NextBatchTypes DEF InsertFails
  <2> QED
    BY <1>0, <2>1, <2>2, <2>3 DEF Types, TypeOK, Resting, Writers
<1>7. CASE Prune
  <2>1. rows' \subseteq rows /\ pruned' \subseteq 1..MaxRecords
    BY <1>0, <1>7 DEF Prune, TypeOK
  <2>2. UNCHANGED <<channel, keys, calls, dropped, failed, day, up>>
    BY <1>7 DEF Prune
  <2>3. /\ writer' \in Writers /\ writer'.pc = "receiving" /\ writer'.batch = <<>>
        /\ writer'.batches < PruneEvery /\ Len(writer'.batch) <= BatchSize
    BY <1>7, RestTypes DEF Prune
  <2> QED
    BY <1>0, <2>1, <2>2, <2>3 DEF Types, TypeOK, Resting, Writers
<1>8. CASE PruneFails
  <2>1. /\ writer' \in Writers /\ writer'.pc = "receiving" /\ writer'.batch = <<>>
        /\ writer'.batches < PruneEvery /\ Len(writer'.batch) <= BatchSize
    BY <1>8, RestTypes DEF PruneFails
  <2> QED
    BY <1>0, <1>8, <2>1 DEF Types, TypeOK, Resting, PruneFails, Writers
<1>9. CASE NextDay
  BY <1>0, <1>9 DEF Types, TypeOK, Resting, NextDay
<1>10. CASE Exit
  BY <1>0, <1>10 DEF Types, TypeOK, Resting, Exit
<1>11. CASE UNCHANGED vars
  BY <1>0, <1>11 DEF Types, TypeOK, Resting, vars
<1> QED
  BY <1>1, <1>2, <1>3, <1>4, <1>5, <1>6, <1>7, <1>8, <1>9, <1>10, <1>11 DEF Next, Writer

\* Every variable keeps its type, the two queues their bounds, and the prune its
\* distance: it comes due after PruneEvery batches at the latest, failed or not.
THEOREM TypeCorrect == Spec => []TypeOK
<1>1. Types => TypeOK
  BY DEF Types
<1> QED
  BY <1>1, InitTypes, StepTypes, PTL DEF Spec

-----------------------------------------------------------------------------
(***************************************************************************)
(* The books.  Every record is in one place: dropped, failed, pruned, a    *)
(* row, or in work.                                                        *)
(***************************************************************************)
Books == Conserved /\ Keyed

LEMMA InitBooks == Init => Books
<1> SUFFICES ASSUME Init PROVE Books
  OBVIOUS
<1>1. /\ channel = <<>> /\ writer.batch = <<>> /\ rows = {} /\ calls = 0
      /\ dropped = {} /\ failed = {} /\ pruned = {}
  BY DEF Init
<1>2. InWork = {} /\ Settled = {} /\ Stored = {} /\ 1..calls = {}
  BY <1>1, IdsOfNothing DEF InWork, Settled, Stored
<1>3. Ordered(writer.batch) /\ Ordered(channel) /\ Before(writer.batch, channel)
  BY <1>1, NothingIsOrdered
<1> QED
  BY <1>1, <1>2, <1>3 DEF Books, Conserved, Keyed

\* A call of record gives the next number to one record, which goes to the end of
\* the line or is dropped.
LEMMA RecordBooks ==
  ASSUME Types, Books, NEW start \in 0..day, Record(start)
  PROVE  Books'
<1> DEFINE n == calls + 1
           record == [id |-> n, start |-> start]
<1>1. /\ TypeOK /\ calls \in Nat /\ n \in 1..MaxRecords /\ start \in 0..MaxDays
      /\ channel \in Seq(Records) /\ writer.batch \in Seq(Records) /\ MaxRecords \in Nat
  BY BoundsAssumption DEF Types, TypeOK, Record
<1>2. record \in Records /\ record.id = n
  BY <1>1 DEF Records
<1>3. 1..n = 1..calls \cup {n} /\ n \notin 1..calls /\ \A m \in 1..calls : m < n
  BY <1>1
<1>4. calls' = n /\ UNCHANGED <<writer, rows, keys, failed, pruned>>
  BY DEF Record
<1>5. \/ channel' = Append(channel, record) /\ dropped' = dropped
      \/ channel' = channel /\ dropped' = dropped \cup {n}
  BY DEF Record
<1>6. Stored' = Stored
  BY <1>4 DEF Stored
<1> HIDE DEF record, n
<1>7. CASE channel' = Append(channel, record) /\ dropped' = dropped
  <2>1. Ids(channel') = Ids(channel) \cup {n}
    BY <1>1, <1>2, <1>7, IdsOfAppend
  <2>2. InWork' = InWork \cup {n} /\ Settled' = Settled
    BY <1>4, <1>6, <1>7, <2>1 DEF InWork, Settled
  <2>3. \A m \in InWork : m < n
    BY <1>3 DEF Books, Conserved
  <2>4. Ordered(channel') /\ Before(writer'.batch, channel')
    BY <1>1, <1>2, <1>4, <1>7, <2>3, AppendKeepsOrder DEF Books, Conserved, InWork
  <2>5. \A r \in rows : r.id < n
    <3>1. \A r \in rows : r.id \in Stored
      BY DEF Stored
    <3> QED
      BY <1>3, <3>1 DEF Books, Conserved, Settled
  <2>6. Keyed'
    BY <1>4, <2>2, <2>5 DEF Books, Keyed
  <2>7. n \notin Settled \cup InWork
    BY <1>3 DEF Books, Conserved
  <2>8. Settled' \cup InWork' = 1..calls'
    BY <1>3, <1>4, <2>2 DEF Books, Conserved
  <2>9. /\ (dropped \cap (failed \cup pruned \cup Stored \cup InWork) = {})'
        /\ (failed \cap (pruned \cup Stored \cup InWork) = {})'
        /\ (pruned \cap (Stored \cup InWork) = {})' /\ (Stored \cap InWork = {})'
    BY <1>4, <1>6, <1>7, <2>2, <2>7 DEF Books, Conserved, Settled
  <2>10. Ordered(writer'.batch) /\ \A r, s \in rows' : r.key < s.key <=> r.id < s.id
    BY <1>4 DEF Books, Conserved
  <2> QED
    BY <2>4, <2>6, <2>8, <2>9, <2>10 DEF Books, Conserved
<1>8. CASE channel' = channel /\ dropped' = dropped \cup {n}
  <2>1. InWork' = InWork
    BY <1>4, <1>8 DEF InWork
  <2>2. Settled' = Settled \cup {n}
    BY <1>4, <1>6, <1>8 DEF Settled
  <2>3. n \notin Settled \cup InWork
    BY <1>3 DEF Books, Conserved
  <2>4. Settled' \cup InWork' = 1..calls'
    BY <1>3, <1>4, <2>1, <2>2 DEF Books, Conserved
  <2>5. /\ (dropped \cap (failed \cup pruned \cup Stored \cup InWork) = {})'
        /\ (failed \cap (pruned \cup Stored \cup InWork) = {})'
        /\ (pruned \cap (Stored \cup InWork) = {})' /\ (Stored \cap InWork = {})'
    BY <1>4, <1>6, <1>8, <2>1, <2>3 DEF Books, Conserved, Settled
  <2>6. /\ Ordered(writer'.batch) /\ Ordered(channel') /\ Before(writer'.batch, channel')
        /\ \A r, s \in rows' : r.key < s.key <=> r.id < s.id
    BY <1>4, <1>8 DEF Books, Conserved
  <2>7. Keyed'
    BY <1>4, <2>1 DEF Books, Keyed
  <2> QED
    BY <2>4, <2>5, <2>6, <2>7 DEF Books, Conserved
<1> QED
  BY <1>5, <1>7, <1>8

\* What moves records within the line leaves the books alone.
LEMMA LineBooks ==
  ASSUME Books, InWork' = InWork,
         Ordered(writer.batch)', Ordered(channel)', Before(writer.batch, channel)',
         UNCHANGED <<rows, calls, dropped, failed, pruned>>
  PROVE  Books'
<1>1. Stored' = Stored /\ Settled' = Settled
  BY DEF Stored, Settled
<1>2. Keyed'
  BY DEF Books, Keyed
<1>3. Conserved'
  BY <1>1 DEF Books, Conserved
<1> QED
  BY <1>2, <1>3 DEF Books

LEMMA TakeBooks ==
  ASSUME Types, Books, NEW pc, channel # <<>>, Take(pc)
  PROVE  Books'
<1>1. channel \in Seq(Records) /\ writer.batch \in Seq(Records) /\ writer \in Writers
  BY DEF Types, TypeOK, Writers
<1>2. writer'.batch = Append(writer.batch, Head(channel)) /\ channel' = Tail(channel)
  BY <1>1 DEF Take, Writers
<1>3. /\ Ordered(writer'.batch) /\ Ordered(channel') /\ Before(writer'.batch, channel')
      /\ Ids(writer'.batch) \cup Ids(channel') = Ids(writer.batch) \cup Ids(channel)
  BY <1>1, <1>2, TakeKeepsOrder DEF Books, Conserved
<1>4. InWork' = InWork
  BY <1>3 DEF InWork
<1> QED
  BY <1>3, <1>4, LineBooks DEF Take

\* The batch leaves the front of the line and becomes the last rows.
LEMMA InsertBooks ==
  ASSUME Types, Books, InsertBatch
  PROVE  Books'
<1> DEFINE b == writer.batch
           new == {Row(keys + k, b[k]) : k \in DOMAIN b}
<1>1. /\ b \in Seq(Records) /\ DOMAIN b = 1..Len(b) /\ Len(b) \in Nat /\ keys \in Nat
      /\ rows \subseteq [key : 1..keys, id : 1..MaxRecords, start : 0..MaxDays]
      /\ channel \in Seq(Records)
  BY DEF Types, TypeOK
<1>2. rows' = rows \cup new /\ UNCHANGED <<channel, calls, dropped, failed, pruned>>
  BY DEF InsertBatch
<1>3. writer'.batch = <<>>
  BY NextBatchTypes DEF InsertBatch
<1>4. \A r \in new : \E k \in DOMAIN b : r = Row(keys + k, b[k]) /\ r.key = keys + k /\ r.id = b[k].id
  BY DEF Row
<1>5. \A k \in DOMAIN b : Row(keys + k, b[k]) \in new /\ Row(keys + k, b[k]).id = b[k].id
  BY DEF Row
<1> HIDE DEF new
<1>6. {r.id : r \in new} = Ids(b)
  BY <1>4, <1>5 DEF Ids
<1>7. Stored' = Stored \cup Ids(b)
  BY <1>2, <1>6 DEF Stored
<1>8. InWork' = Ids(channel) /\ InWork = Ids(channel) \cup Ids(b)
  BY <1>2, <1>3, IdsOfNothing DEF InWork
<1> HIDE DEF b
<1>9. \A m \in Ids(b) : \A n \in Ids(channel) : m < n
  BY DEF Books, Conserved, Before, Ids, b
<1>10. \A m \in Ids(channel) : m \in Nat
  BY <1>1, IdsTyped
<1>11. Ids(b) \cap Ids(channel) = {}
  BY <1>9, <1>10
<1>12. /\ (dropped \cap (failed \cup pruned \cup Stored \cup InWork) = {})'
       /\ (failed \cap (pruned \cup Stored \cup InWork) = {})'
       /\ (pruned \cap (Stored \cup InWork) = {})' /\ (Stored \cap InWork = {})'
  BY <1>2, <1>7, <1>8, <1>11 DEF Books, Conserved
<1>13. Settled' \cup InWork' = 1..calls'
  BY <1>2, <1>7, <1>8 DEF Books, Conserved, Settled
<1>14. Ordered(writer'.batch) /\ Ordered(channel') /\ Before(writer'.batch, channel')
  BY <1>2, <1>3, NothingIsOrdered DEF Books, Conserved
<1>15. \A k \in DOMAIN b : k \in Nat \ {0} /\ b[k].id \in Nat
  <2> SUFFICES ASSUME NEW k \in DOMAIN b PROVE k \in Nat \ {0} /\ b[k].id \in Nat
    OBVIOUS
  <2>1. k \in Nat \ {0} /\ b[k] \in Records
    BY <1>1
  <2> QED
    BY <2>1 DEF Records
<1>16. \A r \in rows : \A s \in new :
         r.key \in Nat /\ s.key \in Nat /\ r.id \in Nat /\ s.id \in Nat /\ r.key < s.key /\ r.id < s.id
  <2> SUFFICES ASSUME NEW r \in rows, NEW s \in new
               PROVE  /\ r.key \in Nat /\ s.key \in Nat /\ r.id \in Nat /\ s.id \in Nat
                      /\ r.key < s.key /\ r.id < s.id
    OBVIOUS
  <2>1. PICK k \in DOMAIN b : s.key = keys + k /\ s.id = b[k].id
    BY <1>4
  <2>2. r.key \in 1..keys /\ r.id \in Nat
    BY <1>1
  <2>3. s.id \in InWork
    BY <1>8, <2>1 DEF Ids
  <2>4. r.id < s.id
    BY <2>3 DEF Books, Keyed
  <2>5. k \in Nat \ {0} /\ s.id \in Nat
    BY <1>15, <2>1
  <2> QED
    BY <1>1, <2>1, <2>2, <2>4, <2>5
<1>17. \A r, s \in new : (r.key < s.key <=> r.id < s.id) /\ (r.key = s.key => r = s)
  <2> SUFFICES ASSUME NEW r \in new, NEW s \in new
               PROVE  (r.key < s.key <=> r.id < s.id) /\ (r.key = s.key => r = s)
    OBVIOUS
  <2>1. PICK k \in DOMAIN b : r = Row(keys + k, b[k]) /\ r.key = keys + k /\ r.id = b[k].id
    BY <1>4
  <2>2. PICK l \in DOMAIN b : s = Row(keys + l, b[l]) /\ s.key = keys + l /\ s.id = b[l].id
    BY <1>4
  <2>3. k \in Nat /\ l \in Nat /\ b[k].id \in Nat /\ b[l].id \in Nat
    BY <1>15
  <2>4. (k < l => b[k].id < b[l].id) /\ (l < k => b[l].id < b[k].id)
    BY DEF Books, Conserved, Ordered, b
  <2>5. k < l \/ l < k \/ k = l
    BY <2>3
  <2>6. k < l <=> b[k].id < b[l].id
    BY <2>3, <2>4, <2>5
  <2>7. (r.key < s.key <=> k < l) /\ (r.key = s.key => k = l)
    BY <1>1, <2>1, <2>2, <2>3
  <2> QED
    BY <2>1, <2>2, <2>6, <2>7
<1>18. \A r, s \in rows' : r.key < s.key <=> r.id < s.id
  <2> SUFFICES ASSUME NEW r \in rows', NEW s \in rows' PROVE r.key < s.key <=> r.id < s.id
    OBVIOUS
  <2>1. CASE r \in rows /\ s \in rows
    BY <2>1 DEF Books, Conserved
  <2>2. CASE r \in rows /\ s \in new
    BY <1>16, <2>2
  <2>3. CASE r \in new /\ s \in rows
    BY <1>16, <2>3
  <2>4. CASE r \in new /\ s \in new
    BY <1>17, <2>4
  <2> QED
    BY <1>2, <2>1, <2>2, <2>3, <2>4
<1>19. \A r, s \in rows' : r.key = s.key => r = s
  <2> SUFFICES ASSUME NEW r \in rows', NEW s \in rows', r.key = s.key PROVE r = s
    OBVIOUS
  <2>1. CASE r \in rows /\ s \in rows
    BY <2>1 DEF Books, Keyed
  <2>2. CASE r \in rows /\ s \in new
    BY <1>16, <2>2
  <2>3. CASE r \in new /\ s \in rows
    BY <1>16, <2>3
  <2>4. CASE r \in new /\ s \in new
    BY <1>17, <2>4
  <2> QED
    BY <1>2, <2>1, <2>2, <2>3, <2>4
<1>20. \A r \in rows' : \A n \in InWork' : r.id < n
  BY <1>2, <1>4, <1>5, <1>6, <1>8, <1>9 DEF Books, Keyed
<1>21. Keyed'
  BY <1>19, <1>20 DEF Keyed
<1> QED
  BY <1>12, <1>13, <1>14, <1>18, <1>21 DEF Books, Conserved

\* A batch that failed is in no other place.
LEMMA FailBooks ==
  ASSUME Types, Books, InsertFails
  PROVE  Books'
<1> DEFINE b == writer.batch
<1>1. b \in Seq(Records) /\ channel \in Seq(Records)
  BY DEF Types, TypeOK
<1>2. failed' = failed \cup Ids(b) /\ UNCHANGED <<channel, rows, calls, dropped, pruned>>
  BY DEF InsertFails
<1>3. writer'.batch = <<>>
  BY NextBatchTypes DEF InsertFails
<1>4. InWork' = Ids(channel) /\ InWork = Ids(channel) \cup Ids(b)
  BY <1>2, <1>3, IdsOfNothing DEF InWork
<1>5. Stored' = Stored
  BY <1>2 DEF Stored
<1>6. \A m \in Ids(b) : \A n \in Ids(channel) : m < n
  BY DEF Books, Conserved, Before, Ids
<1>7. \A m \in Ids(channel) : m \in Nat
  BY <1>1, IdsTyped
<1> HIDE DEF b
<1>8. Ids(b) \cap Ids(channel) = {}
  BY <1>6, <1>7
<1>9. /\ (dropped \cap (failed \cup pruned \cup Stored \cup InWork) = {})'
      /\ (failed \cap (pruned \cup Stored \cup InWork) = {})'
      /\ (pruned \cap (Stored \cup InWork) = {})' /\ (Stored \cap InWork = {})'
  BY <1>2, <1>4, <1>5, <1>8 DEF Books, Conserved
<1>10. Settled' \cup InWork' = 1..calls'
  BY <1>2, <1>4, <1>5 DEF Books, Conserved, Settled
<1>11. /\ Ordered(writer'.batch) /\ Ordered(channel') /\ Before(writer'.batch, channel')
       /\ \A r, s \in rows' : r.key < s.key <=> r.id < s.id
  BY <1>2, <1>3, NothingIsOrdered DEF Books, Conserved
<1>12. Keyed'
  BY <1>2, <1>4 DEF Books, Keyed
<1> QED
  BY <1>9, <1>10, <1>11, <1>12 DEF Books, Conserved

\* A pruned record has no second row that stays.
LEMMA PruneBooks ==
  ASSUME Types, Books, Prune
  PROVE  Books'
<1> DEFINE gone == {row \in rows : Expired(row)}
           ids == {row.id : row \in gone}
<1>1. rows' = rows \ gone /\ pruned' = pruned \cup ids
      /\ UNCHANGED <<channel, calls, dropped, failed>>
  BY DEF Prune
<1>2. writer'.batch = writer.batch
  BY RestTypes DEF Prune, Types, Resting
<1> HIDE DEF gone
<1>3. gone \subseteq rows
  BY DEF gone
<1>4. InWork' = InWork
  BY <1>1, <1>2 DEF InWork
<1>5. rows \subseteq [key : 1..keys, id : 1..MaxRecords, start : 0..MaxDays] /\ keys \in Nat
  BY DEF Types, TypeOK
<1>6. \A r, s \in rows : r.id = s.id => r = s
  <2> SUFFICES ASSUME NEW r \in rows, NEW s \in rows, r.id = s.id PROVE r = s
    OBVIOUS
  <2>1. r.key \in Nat /\ s.key \in Nat /\ r.id \in Nat /\ s.id \in Nat
    BY <1>5
  <2>2. ~(r.key < s.key) /\ ~(s.key < r.key)
    BY <2>1 DEF Books, Conserved
  <2>3. r.key = s.key
    BY <2>1, <2>2
  <2> QED
    BY <2>3 DEF Books, Keyed
<1>7. Stored = Stored' \cup ids
  BY <1>1, <1>3 DEF Stored
<1>8. Stored' \cap ids = {}
  BY <1>1, <1>3, <1>6 DEF Stored
<1> HIDE DEF ids
<1>9. /\ (dropped \cap (failed \cup pruned \cup Stored \cup InWork) = {})'
      /\ (failed \cap (pruned \cup Stored \cup InWork) = {})'
      /\ (pruned \cap (Stored \cup InWork) = {})' /\ (Stored \cap InWork = {})'
  BY <1>1, <1>4, <1>7, <1>8 DEF Books, Conserved
<1>10. Settled' \cup InWork' = 1..calls'
  BY <1>1, <1>4, <1>7 DEF Books, Conserved, Settled
<1>11. /\ Ordered(writer'.batch) /\ Ordered(channel') /\ Before(writer'.batch, channel')
       /\ \A r, s \in rows' : r.key < s.key <=> r.id < s.id
  BY <1>1, <1>2 DEF Books, Conserved
<1>12. Keyed'
  BY <1>1, <1>4 DEF Books, Keyed
<1> QED
  BY <1>9, <1>10, <1>11, <1>12 DEF Books, Conserved

LEMMA StepBooks == Types /\ Books /\ [Next]_vars => Books'
<1> SUFFICES ASSUME Types, Books, [Next]_vars PROVE Books'
  OBVIOUS
<1>0. writer \in Writers
  BY DEF Types, TypeOK, Writers
<1>1. ASSUME UNCHANGED <<channel, rows, calls, dropped, failed, pruned>>,
             writer'.batch = writer.batch
      PROVE  Books'
  BY <1>1, LineBooks DEF Books, Conserved, InWork
<1>2. ASSUME NEW start \in 0..day, Record(start) PROVE Books'
  BY <1>2, RecordBooks
<1>3. CASE Recv
  BY <1>3, TakeBooks DEF Recv
<1>4. CASE TryRecv
  BY <1>4, TakeBooks DEF TryRecv
<1>5. CASE BatchDone
  BY <1>0, <1>1, <1>5 DEF BatchDone, Writers
<1>6. CASE InsertBatch
  BY <1>6, InsertBooks
<1>7. CASE InsertFails
  BY <1>7, FailBooks
<1>8. CASE Prune
  BY <1>8, PruneBooks
<1>9. CASE PruneFails
  BY <1>0, <1>1, <1>9 DEF PruneFails, Writers
<1>10. CASE NextDay
  BY <1>1, <1>10 DEF NextDay
<1>11. CASE Exit
  BY <1>1, <1>11 DEF Exit
<1>12. CASE UNCHANGED vars
  BY <1>1, <1>12 DEF vars
<1> QED
  BY <1>2, <1>3, <1>4, <1>5, <1>6, <1>7, <1>8, <1>9, <1>10, <1>11, <1>12 DEF Next, Writer

\* A record is lost only where the code says so, is never in two places, and its
\* row is keyed in the order of the calls.
THEOREM RecordsConserved == Spec => []Conserved
<1>1. Books => Conserved
  BY DEF Books
<1> QED
  BY <1>1, InitTypes, StepTypes, InitBooks, StepBooks, PTL DEF Spec

\* A row disappears only when it is past retention, and a prune leaves none that is.
PruneIsExact ==
  [][ /\ \A row \in rows \ rows' : Expired(row)
      /\ pruned' # pruned => \A row \in rows' : ~Expired(row) ]_vars

\* A prune deletes the rows past retention and no others.
THEOREM PrunesAreExact == Spec => PruneIsExact
<1> DEFINE Exact == /\ \A row \in rows \ rows' : Expired(row)
                    /\ pruned' # pruned => \A row \in rows' : ~Expired(row)
<1>1. [Next]_vars => [Exact]_vars
  <2> SUFFICES ASSUME Next PROVE Exact
    BY DEF vars
  <2>1. CASE Prune
    BY <2>1 DEF Prune, Expired
  <2>2. CASE InsertBatch
    BY <2>2 DEF InsertBatch
  <2>3. CASE \E start \in 0..day : Record(start)
    BY <2>3 DEF Record
  <2>4. CASE Recv \/ TryRecv \/ BatchDone
    BY <2>4 DEF Recv, TryRecv, BatchDone, Take
  <2>5. CASE InsertFails \/ PruneFails \/ NextDay \/ Exit
    BY <2>5 DEF InsertFails, PruneFails, NextDay, Exit
  <2> QED
    BY <2>1, <2>2, <2>3, <2>4, <2>5 DEF Next, Writer
<1> QED
  BY <1>1, PTL DEF Spec, PruneIsExact

-----------------------------------------------------------------------------
(***************************************************************************)
(* The pipeline implements RecordLog.  The line of records that wait is    *)
(* the batch followed by the channel.                                      *)
(***************************************************************************)
\* The border between batch and channel moves: the line stays.
LEMMA TakeKeepsLine ==
  ASSUME NEW b \in Seq(Records), NEW s \in Seq(Records), s # <<>>
  PROVE  Append(b, Head(s)) \o Tail(s) = b \o s
<1> DEFINE t == Append(b, Head(s))
           u == Tail(s)
           x == t \o u
           y == b \o s
<1>1. /\ u \in Seq(Records) /\ Len(u) = Len(s) - 1 /\ Len(s) \in Nat \ {0}
      /\ \A i \in 1..Len(s) - 1 : u[i] = s[i + 1]
      /\ Head(s) = s[1] /\ s[1] \in Records
  OBVIOUS
<1>2. /\ t \in Seq(Records) /\ Len(t) = Len(b) + 1 /\ Len(b) \in Nat
      /\ \A i \in 1..Len(b) : t[i] = b[i]
      /\ t[Len(b) + 1] = s[1]
  BY <1>1
<1> HIDE DEF t, u
<1>3. /\ x \in Seq(Records) /\ Len(x) = Len(t) + Len(u)
      /\ \A i \in 1..Len(t) + Len(u) : x[i] = IF i <= Len(t) THEN t[i] ELSE u[i - Len(t)]
  BY <1>1, <1>2, ConcatProperties
<1>4. /\ y \in Seq(Records) /\ Len(y) = Len(b) + Len(s)
      /\ \A i \in 1..Len(b) + Len(s) : y[i] = IF i <= Len(b) THEN b[i] ELSE s[i - Len(b)]
  BY ConcatProperties
<1> HIDE DEF x, y
<1>5. Len(x) = Len(y)
  BY <1>1, <1>2, <1>3, <1>4
<1>6. ASSUME NEW i \in 1..Len(x) PROVE x[i] = y[i]
  <2>1. CASE i <= Len(b)
    <3>1. i \in 1..Len(b) /\ i \in 1..Len(t) + Len(u) /\ i \in 1..Len(b) + Len(s) /\ i <= Len(t)
      BY <1>1, <1>2, <1>3, <2>1
    <3>2. x[i] = t[i] /\ t[i] = b[i] /\ y[i] = b[i]
      BY <1>2, <1>3, <1>4, <2>1, <3>1
    <3> QED
      BY <3>2
  <2>2. CASE i = Len(b) + 1
    BY <1>1, <1>2, <1>3, <1>4, <2>2
  <2>3. CASE i > Len(b) + 1
    <3>1. i - (Len(b) + 1) \in 1..Len(s) - 1 /\ i - Len(b) = (i - (Len(b) + 1)) + 1
      BY <1>1, <1>2, <1>3, <2>3
    <3>2. u[i - (Len(b) + 1)] = s[i - Len(b)]
      BY <1>1, <3>1
    <3>3. x[i] = u[i - (Len(b) + 1)]
      BY <1>1, <1>2, <1>3, <2>3
    <3>4. y[i] = s[i - Len(b)]
      BY <1>1, <1>2, <1>3, <1>4, <2>3
    <3> QED
      BY <3>2, <3>3, <3>4
  <2> QED
    BY <1>1, <1>2, <1>3, <2>1, <2>2, <2>3
<1>7. x = y
  BY <1>3, <1>4, <1>5, <1>6, SeqEqual
<1> QED
  BY <1>7 DEF x, y, t, u

\* A record at the end of the channel is at the end of the line.
LEMMA AppendExtendsLine ==
  ASSUME NEW b \in Seq(Records), NEW s \in Seq(Records), NEW r \in Records
  PROVE  b \o Append(s, r) = Append(b \o s, r)
<1> DEFINE t == Append(s, r)
           y == b \o s
           x == b \o t
           z == Append(y, r)
<1>1. /\ t \in Seq(Records) /\ Len(t) = Len(s) + 1 /\ Len(s) \in Nat /\ Len(b) \in Nat
      /\ \A i \in 1..Len(s) : t[i] = s[i]
      /\ t[Len(s) + 1] = r
  OBVIOUS
<1>2. /\ y \in Seq(Records) /\ Len(y) = Len(b) + Len(s)
      /\ \A i \in 1..Len(b) + Len(s) : y[i] = IF i <= Len(b) THEN b[i] ELSE s[i - Len(b)]
  BY ConcatProperties
<1> HIDE DEF t
<1>3. /\ x \in Seq(Records) /\ Len(x) = Len(b) + Len(t)
      /\ \A i \in 1..Len(b) + Len(t) : x[i] = IF i <= Len(b) THEN b[i] ELSE t[i - Len(b)]
  BY <1>1, ConcatProperties
<1> HIDE DEF x, y
<1>4. /\ z \in Seq(Records) /\ Len(z) = Len(y) + 1
      /\ \A i \in 1..Len(y) : z[i] = y[i]
      /\ z[Len(y) + 1] = r
  BY <1>2
<1> HIDE DEF z
<1>5. Len(x) = Len(z)
  BY <1>1, <1>2, <1>3, <1>4
<1>6. ASSUME NEW i \in 1..Len(x) PROVE x[i] = z[i]
  <2>1. CASE i <= Len(b)
    <3>1. i \in 1..Len(b) /\ i \in 1..Len(b) + Len(s) /\ i \in 1..Len(y)
      BY <1>1, <1>2, <1>3, <2>1
    <3>2. x[i] = b[i] /\ z[i] = y[i] /\ y[i] = b[i]
      BY <1>2, <1>3, <1>4, <2>1, <3>1
    <3> QED
      BY <3>2
  <2>2. CASE i > Len(b) /\ i <= Len(b) + Len(s)
    <3>1. i - Len(b) \in 1..Len(s) /\ i \in 1..Len(b) + Len(s) /\ i \in 1..Len(y)
      BY <1>1, <1>2, <1>3, <2>2
    <3>2. x[i] = t[i - Len(b)] /\ z[i] = y[i] /\ y[i] = s[i - Len(b)]
      BY <1>1, <1>2, <1>3, <1>4, <2>2, <3>1
    <3> QED
      BY <1>1, <3>1, <3>2
  <2>3. CASE i = Len(b) + Len(s) + 1
    <3>1. i - Len(b) = Len(s) + 1 /\ ~(i <= Len(b)) /\ i = Len(y) + 1
      BY <1>1, <1>2, <2>3
    <3>2. x[i] = t[i - Len(b)]
      BY <1>3, <3>1
    <3> QED
      BY <1>1, <1>4, <3>1, <3>2
  <2> QED
    BY <1>1, <1>3, <2>1, <2>2, <2>3
<1>7. x = z
  BY <1>3, <1>4, <1>5, <1>6, SeqEqual
<1> QED
  BY <1>7 DEF x, y, z, t

\* The batch is the front of the line, and without it the channel is left.
LEMMA BatchLeavesLine ==
  ASSUME NEW b \in Seq(Records), NEW s \in Seq(Records)
  PROVE  /\ Len(b \o s) = Len(b) + Len(s) /\ Len(b) \in Nat /\ Len(s) \in Nat
         /\ \A k \in 1..Len(b) : (b \o s)[k] = b[k]
         /\ SubSeq(b \o s, Len(b) + 1, Len(b \o s)) = s
<1> DEFINE y == b \o s
           x == SubSeq(y, Len(b) + 1, Len(y))
<1>1. Len(b) \in Nat /\ Len(s) \in Nat
  OBVIOUS
<1>2. /\ y \in Seq(Records) /\ Len(y) = Len(b) + Len(s)
      /\ \A i \in 1..Len(b) + Len(s) : y[i] = IF i <= Len(b) THEN b[i] ELSE s[i - Len(b)]
  BY ConcatProperties
<1> HIDE DEF y
<1>3. \A k \in 1..Len(b) : y[k] = b[k]
  BY <1>1, <1>2
<1>4. \A i \in Len(b) + 1..Len(y) : y[i] \in Records
  BY <1>1, <1>2
<1>5. /\ x \in Seq(Records)
      /\ Len(x) = IF Len(b) + 1 <= Len(y) THEN Len(y) - (Len(b) + 1) + 1 ELSE 0
      /\ \A i \in 1..Len(y) - (Len(b) + 1) + 1 : x[i] = y[Len(b) + 1 + i - 1]
  BY <1>1, <1>2, <1>4, SubSeqProperties
<1> HIDE DEF x
<1>6. Len(x) = Len(s)
  BY <1>1, <1>2, <1>5
<1>7. ASSUME NEW i \in 1..Len(x) PROVE x[i] = s[i]
  <2>1. /\ i \in 1..Len(y) - (Len(b) + 1) + 1 /\ Len(b) + 1 + i - 1 = Len(b) + i
        /\ Len(b) + i \in 1..Len(b) + Len(s) /\ ~(Len(b) + i <= Len(b)) /\ (Len(b) + i) - Len(b) = i
    BY <1>1, <1>2, <1>6
  <2>2. x[i] = y[Len(b) + i]
    BY <1>5, <2>1
  <2> QED
    BY <1>2, <2>1, <2>2
<1>8. x = s
  BY <1>5, <1>6, <1>7, SeqEqual
<1> QED
  BY <1>1, <1>2, <1>3, <1>8 DEF x, y

LEMMA NothingIsShort == Len(<<>>) = 0
  OBVIOUS

\* A writer that fills or inserts a batch has a record in it.
Laden == writer.pc \in {"filling", "inserting"} => writer.batch # <<>>

LEMMA InitLaden == Init => Laden
  BY DEF Init, Laden

LEMMA StepLaden == Types /\ Laden /\ [Next]_vars => Laden'
<1> SUFFICES ASSUME Types, Laden, [Next]_vars PROVE Laden'
  OBVIOUS
<1>0. writer \in Writers /\ channel \in Seq(Records) /\ writer.batch \in Seq(Records)
  BY DEF Types, TypeOK, Writers
<1>1. ASSUME Take("filling"), channel # <<>> PROVE Laden'
  <2>1. Head(channel) \in Records
    BY <1>0, <1>1
  <2>2. Len(Append(writer.batch, Head(channel))) # 0
    BY <1>0, <2>1, IdsOfAppend
  <2>3. Append(writer.batch, Head(channel)) # <<>>
    BY <2>2, NothingIsShort
  <2>4. writer'.batch = Append(writer.batch, Head(channel))
    BY <1>0, <1>1 DEF Take, Writers
  <2> QED
    BY <2>3, <2>4 DEF Laden
<1>2. CASE Recv \/ TryRecv
  BY <1>1, <1>2 DEF Recv, TryRecv
<1>3. CASE BatchDone
  BY <1>0, <1>3 DEF BatchDone, Laden, Writers
<1>4. CASE InsertBatch \/ InsertFails
  <2>1. writer'.pc \in {"receiving", "pruning"}
    BY <1>4, NextBatchTypes DEF InsertBatch, InsertFails
  <2> QED
    BY <2>1 DEF Laden
<1>5. CASE Prune \/ PruneFails
  <2>1. writer'.pc = "receiving"
    BY <1>5, RestTypes DEF Prune, PruneFails
  <2> QED
    BY <2>1 DEF Laden
<1>6. CASE UNCHANGED writer
  BY <1>6 DEF Laden
<1> QED
  BY <1>2, <1>3, <1>4, <1>5, <1>6 DEF Next, Writer, Record, NextDay, Exit, vars

LEMMA LineBegins == Init => Log!Init
<1> SUFFICES ASSUME Init PROVE Log!Init
  OBVIOUS
<1>1. PICK pc \in {"receiving", "ended"} : writer = [pc |-> pc, batch |-> <<>>, batches |-> 0]
  BY DEF Init
<1>2. writer.batch = <<>> /\ channel = <<>>
  BY <1>1 DEF Init
<1>3. writer.batch \o channel = <<>>
  BY <1>2, ConcatEmptySeq
<1>4. (writer.pc # "ended") \in BOOLEAN
  OBVIOUS
<1>5. /\ rows = {} /\ keys = 0 /\ calls = 0 /\ dropped \cup failed = {} /\ day = 0 /\ up = TRUE
  BY DEF Init
<1> QED
  BY <1>3, <1>4, <1>5 DEF Log!Init

\* A step that moves records within the line, or moves none, is none of RecordLog.
LEMMA LineRests ==
  ASSUME (writer.batch \o channel)' = writer.batch \o channel,
         (writer.pc # "ended")' = (writer.pc # "ended"),
         UNCHANGED <<rows, keys, calls, dropped, failed, day, up>>
  PROVE  UNCHANGED Log!vars
  BY DEF Log!vars

LEMMA TakeRests ==
  ASSUME Types, Take("filling"), channel # <<>>, writer.pc # "ended"
  PROVE  UNCHANGED Log!vars
<1>1. writer \in Writers /\ channel \in Seq(Records) /\ writer.batch \in Seq(Records)
  BY DEF Types, TypeOK, Writers
<1>2. writer'.batch = Append(writer.batch, Head(channel)) /\ writer'.pc = "filling"
  BY <1>1 DEF Take, Writers
<1>3. (writer.batch \o channel)' = writer.batch \o channel
  BY <1>1, <1>2, TakeKeepsLine DEF Take
<1>4. (writer.pc # "ended")' = (writer.pc # "ended")
  BY <1>2
<1> QED
  BY <1>3, <1>4, LineRests DEF Take

\* A call of record is accepted at the end of the line, or refused.
LEMMA RecordImplements ==
  ASSUME Types, NEW start \in 0..day, Record(start)
  PROVE  Log!Accept(start) \/ Log!Refuse
<1> DEFINE record == [id |-> calls', start |-> start]
<1>1. /\ writer \in Writers /\ channel \in Seq(Records) /\ writer.batch \in Seq(Records)
      /\ Len(channel) <= Capacity /\ Len(writer.batch) <= BatchSize
      /\ Len(channel) \in Nat /\ Len(writer.batch) \in Nat
      /\ Capacity \in Nat /\ BatchSize \in Nat
  BY BoundsAssumption DEF Types, TypeOK, Writers
<1>2. record \in Records
  BY BoundsAssumption DEF Record, Records, Types, TypeOK
<1>3. Len(writer.batch \o channel) = Len(writer.batch) + Len(channel)
  BY <1>1, BatchLeavesLine
<1>4. Log!Count /\ UNCHANGED <<writer, rows, keys, failed, day, up>>
  BY DEF Log!Count, Record
<1>5. CASE writer.pc # "ended" /\ Len(channel) < Capacity
  <2>1. channel' = Append(channel, record) /\ dropped' = dropped
    BY <1>5 DEF Record
  <2>2. (writer.batch \o channel)' = Append(writer.batch \o channel, record)
    BY <1>1, <1>2, <1>4, <2>1, AppendExtendsLine
  <2>3. Len(writer.batch \o channel) < Capacity + BatchSize
    BY <1>1, <1>3, <1>5
  <2>4. UNCHANGED <<rows, keys, dropped \cup failed, writer.pc # "ended", day, up>>
    BY <1>4, <2>1
  <2> QED
    BY <1>4, <1>5, <2>2, <2>3, <2>4 DEF Log!Accept
<1>6. CASE ~(writer.pc # "ended" /\ Len(channel) < Capacity)
  <2>1. channel' = channel /\ dropped' = dropped \cup {calls'}
    BY <1>6 DEF Record
  <2>2. Len(writer.batch \o channel) >= Capacity \/ ~(writer.pc # "ended")
    BY <1>1, <1>3, <1>6
  <2>3. (dropped \cup failed)' = (dropped \cup failed) \cup {calls'}
    BY <1>4, <2>1
  <2>4. UNCHANGED <<writer.batch \o channel, rows, keys, writer.pc # "ended", day, up>>
    BY <1>4, <2>1
  <2> QED
    BY <1>4, <2>2, <2>3, <2>4 DEF Log!Refuse
<1> QED
  BY <1>5, <1>6

\* The batch leaves the line as a whole.
LEMMA BatchLeaves ==
  ASSUME Types, Laden, writer.pc = "inserting", up, NextBatch, UNCHANGED <<channel, calls, day, up>>
  PROVE  Len(writer.batch) \in 1..BatchSize /\ Log!Leave(Len(writer.batch))
<1> DEFINE n == Len(writer.batch)
<1>1. /\ channel \in Seq(Records) /\ writer.batch \in Seq(Records) /\ Len(writer.batch) <= BatchSize
      /\ BatchSize \in Nat
  BY BoundsAssumption DEF Types, TypeOK
<1>2. n \in Nat /\ n # 0
  BY <1>1 DEF Laden
<1>3. n <= Len(writer.batch \o channel)
  BY <1>1, <1>2, BatchLeavesLine
<1>4. SubSeq(writer.batch \o channel, n + 1, Len(writer.batch \o channel)) = channel
  BY <1>1, <1>3, BatchLeavesLine
<1>5. writer'.batch = <<>> /\ writer'.pc # "ended"
  BY NextBatchTypes
<1>6. (writer.batch \o channel)' = channel
  BY <1>1, <1>5, ConcatEmptySeq
<1>7. UNCHANGED <<calls, writer.pc # "ended", day, up>>
  BY <1>5
<1>8. Log!Leave(n)
  BY <1>3, <1>4, <1>6, <1>7 DEF Log!Leave
<1> QED
  BY <1>1, <1>2, <1>8

LEMMA InsertImplements ==
  ASSUME Types, Laden, InsertBatch
  PROVE  Log!Write(Len(writer.batch))
<1> DEFINE line == writer.batch \o channel
           n == Len(writer.batch)
           new == {Row(keys + k, writer.batch[k]) : k \in DOMAIN writer.batch}
           moved == {[key |-> keys + k, id |-> line[k].id, start |-> line[k].start] : k \in 1..n}
<1>1. channel \in Seq(Records) /\ writer.batch \in Seq(Records)
  BY DEF Types, TypeOK
<1>2. Log!Leave(n)
  BY BatchLeaves DEF InsertBatch
<1>3. \A k \in 1..n : line[k] = writer.batch[k]
  BY <1>1, BatchLeavesLine
<1>4. DOMAIN writer.batch = 1..n
  BY <1>1
<1>5. new = moved
  BY <1>3, <1>4 DEF Row
<1>6. rows' = rows \cup moved /\ keys' = keys + n /\ UNCHANGED (dropped \cup failed)
  BY <1>5 DEF InsertBatch
<1> QED
  BY <1>2, <1>6 DEF Log!Write

LEMMA FailureImplements ==
  ASSUME Types, Laden, InsertFails
  PROVE  Log!Lose(Len(writer.batch))
<1> DEFINE line == writer.batch \o channel
           n == Len(writer.batch)
           gone == {line[k].id : k \in 1..n}
<1>1. channel \in Seq(Records) /\ writer.batch \in Seq(Records)
  BY DEF Types, TypeOK
<1>2. Log!Leave(n)
  BY BatchLeaves DEF InsertFails
<1>3. \A k \in 1..n : line[k] = writer.batch[k]
  BY <1>1, BatchLeavesLine
<1>4. DOMAIN writer.batch = 1..n
  BY <1>1
<1>5. Ids(writer.batch) = gone
  BY <1>3, <1>4 DEF Ids
<1>6. (dropped \cup failed)' = (dropped \cup failed) \cup gone /\ UNCHANGED <<rows, keys>>
  BY <1>5 DEF InsertFails
<1> QED
  BY <1>2, <1>6 DEF Log!Lose

\* A row is expired when its record's day is further back than the retention.
LEMMA PruneImplements ==
  ASSUME Types, Prune
  PROVE  Log!Prune
<1>1. \A row \in rows : ~Expired(row) <=> row.start >= day - Retention
  <2> SUFFICES ASSUME NEW row \in rows PROVE ~Expired(row) <=> row.start >= day - Retention
    OBVIOUS
  <2>1. row.start \in Nat /\ day \in Nat /\ Retention \in Nat
    BY BoundsAssumption DEF Types, TypeOK
  <2> QED
    BY <2>1 DEF Expired
<1>2. rows' = {row \in rows : row.start >= day - Retention}
  BY <1>1 DEF Prune
<1>3. writer'.batch = writer.batch /\ writer'.pc # "ended" /\ writer.pc # "ended"
  BY RestTypes DEF Prune, Types, Resting
<1>4. UNCHANGED <<writer.batch \o channel, keys, calls, dropped \cup failed, writer.pc # "ended",
                  day, up>>
  BY <1>3 DEF Prune
<1>5. up /\ writer.pc # "ended"
  BY DEF Prune
<1> QED
  BY <1>2, <1>4, <1>5 DEF Log!Prune

LEMMA StepImplements == Types /\ Laden /\ [Next]_vars => [Log!Next]_(Log!vars)
<1> SUFFICES ASSUME Types, Laden, [Next]_vars PROVE Log!Next \/ UNCHANGED Log!vars
  OBVIOUS
<1>0. writer \in Writers
  BY DEF Types, TypeOK, Writers
<1>1. ASSUME NEW start \in 0..day, Record(start) PROVE Log!Next
  BY <1>1, RecordImplements DEF Log!Next
<1>2. CASE Recv
  BY <1>2, TakeRests DEF Recv
<1>3. CASE TryRecv
  BY <1>3, TakeRests DEF TryRecv
<1>4. CASE BatchDone
  <2>1. writer'.batch = writer.batch /\ writer'.pc = "inserting" /\ writer.pc = "filling"
    BY <1>0, <1>4 DEF BatchDone, Writers
  <2> QED
    BY <1>4, <2>1, LineRests DEF BatchDone
<1>5. CASE InsertBatch
  <2>1. Len(writer.batch) \in 1..BatchSize
    BY <1>5, BatchLeaves DEF InsertBatch
  <2> QED
    BY <1>5, <2>1, InsertImplements DEF Log!Next
<1>6. CASE InsertFails
  <2>1. Len(writer.batch) \in 1..BatchSize
    BY <1>6, BatchLeaves DEF InsertFails
  <2> QED
    BY <1>6, <2>1, FailureImplements DEF Log!Next
<1>7. CASE Prune
  BY <1>7, PruneImplements DEF Log!Next
<1>8. CASE PruneFails
  <2>1. writer'.batch = writer.batch /\ writer'.pc = "receiving" /\ writer.pc = "pruning"
    BY <1>8, RestTypes DEF PruneFails, Types, Resting
  <2> QED
    BY <1>8, <2>1, LineRests DEF PruneFails
<1>9. CASE NextDay
  <2>1. Log!NextDay
    BY <1>9 DEF NextDay, Log!NextDay
  <2> QED
    BY <2>1 DEF Log!Next
<1>10. CASE Exit
  <2>1. Log!Stop
    BY <1>10 DEF Exit, Log!Stop
  <2> QED
    BY <2>1 DEF Log!Next
<1>11. CASE UNCHANGED vars
  BY <1>11, LineRests DEF vars
<1> QED
  BY <1>1, <1>2, <1>3, <1>4, <1>5, <1>6, <1>7, <1>8, <1>9, <1>10, <1>11 DEF Next, Writer

\* What is between the call of record and the table is one line of records that
\* loses nothing but what it refuses or fails to write, and a table from which
\* nothing goes before its time.
THEOREM LogIsKept == Spec => KeepsLog
<1> QED
  BY InitTypes, StepTypes, InitLaden, StepLaden, LineBegins, StepImplements, PTL
     DEF Spec, KeepsLog, Log!Spec

-----------------------------------------------------------------------------
(***************************************************************************)
(* The safety half of EveryRecordSettles: the steps of the writer that a   *)
(* record may still wait for are counted.                                  *)
(***************************************************************************)
\* The records of the channel up to n, and the steps of the writer until it is about
\* to take the next record, or has one more in its batch.
UpTo(n) == {m \in Ids(channel) : m <= n}
Pace == [receiving |-> 1, filling |-> BatchSize - Len(writer.batch) + 4, inserting |-> 3,
         pruning |-> 2, ended |-> 0]

\* At worst every record has the batch to itself and waits for a prune.
Wait(n) == (BatchSize + 4) * Cardinality(UpTo(n)) + Pace[writer.pc]

LEMMA WaitIsCounted ==
  ASSUME Types, NEW n
  PROVE  /\ IsFiniteSet(UpTo(n)) /\ Cardinality(UpTo(n)) \in Nat
         /\ Pace[writer.pc] \in Nat /\ Wait(n) \in Nat
         /\ writer.pc = "filling" => Pace[writer.pc] >= 4
<1>1. channel \in Seq(Records) /\ MaxRecords \in Nat /\ BatchSize \in Nat /\ writer \in Writers
      /\ Len(writer.batch) <= BatchSize
  BY BoundsAssumption DEF Types, TypeOK, Writers
<1>2. IsFiniteSet(1..MaxRecords) /\ UpTo(n) \subseteq 1..MaxRecords
  BY <1>1, IdsTyped, FS_Interval DEF UpTo
<1>3. IsFiniteSet(UpTo(n)) /\ Cardinality(UpTo(n)) \in Nat
  BY <1>2, FS_Subset, FS_CardinalityType
<1>4. Len(writer.batch) \in Nat
  BY <1>1 DEF Writers
<1>5. BatchSize - Len(writer.batch) + 4 \in Nat /\ BatchSize - Len(writer.batch) + 4 >= 4
  BY <1>1, <1>4
<1>6. Pace[writer.pc] \in Nat /\ (writer.pc = "filling" => Pace[writer.pc] >= 4)
  BY <1>1, <1>5 DEF Pace, Writers
<1>7. (BatchSize + 4) * Cardinality(UpTo(n)) \in Nat
  BY <1>1, <1>3
<1> QED
  BY <1>3, <1>6, <1>7 DEF Wait

\* A step that leaves the channel as it is.
LEMMA PaceSettles ==
  ASSUME Types, NEW n, UpTo(n)' = UpTo(n), Pace[writer.pc]' \in Nat
  PROVE  /\ Pace[writer.pc]' < Pace[writer.pc] => Wait(n)' < Wait(n)
         /\ Pace[writer.pc]' <= Pace[writer.pc] => Wait(n)' <= Wait(n)
<1> DEFINE w == (BatchSize + 4) * Cardinality(UpTo(n))
           p == Pace[writer.pc]
           q == Pace[writer.pc]'
<1>1. p \in Nat /\ q \in Nat
  BY WaitIsCounted
<1>2. w \in Nat
  BY WaitIsCounted, BoundsAssumption
<1>3. Wait(n) = w + p /\ Wait(n)' = w + q
  BY DEF Wait
<1> HIDE DEF w, p, q
<1>4. (q < p => Wait(n)' < Wait(n)) /\ (q <= p => Wait(n)' <= Wait(n))
  BY <1>1, <1>2, <1>3
<1> QED
  BY <1>4 DEF p, q

\* The first of the channel goes; a record behind it has one less before it.
LEMMA TakeAdvances ==
  ASSUME Types, Books, channel # <<>>, channel' = Tail(channel), NEW n \in InWork
  PROVE  /\ Cardinality(UpTo(n)') \in Nat
         /\ \/ n \in Ids(channel) /\ Cardinality(UpTo(n)) = Cardinality(UpTo(n)') + 1
            \/ n \in Ids(writer.batch) /\ UpTo(n)' = UpTo(n)
<1> DEFINE h == Head(channel).id
           t == Tail(channel)
<1>1. channel \in Seq(Records) /\ writer.batch \in Seq(Records)
  BY DEF Types, TypeOK
<1>2. Ids(channel) = {h} \cup Ids(t) /\ t \in Seq(Records)
  BY <1>1, IdsOfHead
<1>3. Ids(channel) \subseteq Nat /\ Ids(writer.batch) \subseteq Nat
  BY <1>1, IdsTyped
<1>4. \A m \in Ids(t) : h < m
  <2> SUFFICES ASSUME NEW i \in DOMAIN t PROVE h < t[i].id
    BY DEF Ids
  <2>1. /\ 1 \in DOMAIN channel /\ i + 1 \in DOMAIN channel /\ 1 < i + 1
        /\ Head(channel) = channel[1] /\ t[i] = channel[i + 1]
    BY <1>1
  <2> QED
    BY <2>1 DEF Books, Conserved, Ordered
<1>5. Ids(channel') = Ids(t)
  OBVIOUS
<1> HIDE DEF h, t
<1>6. UpTo(n)' = {m \in Ids(t) : m <= n}
  BY <1>5 DEF UpTo
<1>7. CASE n \in Ids(channel)
  <2>1. n \in Nat /\ h \in Nat /\ h <= n
    BY <1>2, <1>3, <1>4, <1>7
  <2>2. UpTo(n) = UpTo(n)' \cup {h}
    BY <1>2, <1>6, <2>1 DEF UpTo
  <2>3. h \notin UpTo(n)'
    BY <1>2, <1>3, <1>4, <1>6
  <2>4. IsFiniteSet(UpTo(n)')
    BY <2>2, WaitIsCounted, FS_Subset
  <2>5. Cardinality(UpTo(n)) = Cardinality(UpTo(n)') + 1
    BY <2>2, <2>3, <2>4, FS_AddElement
  <2> QED
    BY <1>7, <2>4, <2>5, FS_CardinalityType
<1>8. CASE n \in Ids(writer.batch)
  <2>1. \A m \in Ids(channel) : n < m
    BY <1>8 DEF Books, Conserved, Before, Ids
  <2>2. UpTo(n) = {} /\ UpTo(n)' = {}
    BY <1>2, <1>3, <1>6, <1>8, <2>1 DEF UpTo
  <2> QED
    BY <1>8, <2>2, WaitIsCounted
<1> QED
  BY <1>7, <1>8 DEF InWork

LEMMA TakeShortensWait ==
  ASSUME Types, Books, Recv \/ TryRecv, NEW n \in InWork
  PROVE  Wait(n)' < Wait(n) /\ Wait(n)' <= Wait(n)
<1> DEFINE K == BatchSize + 4
           c == Cardinality(UpTo(n))
           d == Cardinality(UpTo(n)')
           p == Pace[writer.pc]
           q == Pace[writer.pc]'
           z == Len(writer.batch)
<1>1. /\ writer \in Writers /\ channel \in Seq(Records) /\ writer.batch \in Seq(Records)
      /\ Len(writer.batch) <= BatchSize /\ BatchSize \in Nat /\ Len(writer.batch) \in Nat
      /\ BatchSize >= 1
  BY BoundsAssumption DEF Types, TypeOK, Writers
<1>2. channel # <<>> /\ Take("filling") /\ channel' = Tail(channel)
  BY DEF Recv, TryRecv, Take
<1>3. writer'.batch = Append(writer.batch, Head(channel)) /\ writer'.pc = "filling"
  BY <1>1, <1>2 DEF Take, Writers
<1>4. Head(channel) \in Records
  BY <1>1, <1>2
<1>5. Len(writer'.batch) = z + 1
  BY <1>1, <1>3, <1>4, IdsOfAppend
<1>6. q = BatchSize - (z + 1) + 4
  BY <1>3, <1>5 DEF Pace
<1>7. c \in Nat /\ d \in Nat /\ ((n \in Ids(channel) /\ c = d + 1) \/ (n \in Ids(writer.batch) /\ d = c))
  BY <1>2, WaitIsCounted, TakeAdvances
<1>8. Wait(n) = K * c + p /\ Wait(n)' = K * d + q
  BY DEF Wait
<1>9. CASE Recv
  <2>1. p = 1 /\ writer.batch = <<>>
    BY <1>9 DEF Recv, Pace, Types, Resting
  <2>2. z = 0 /\ n \notin Ids(writer.batch)
    BY <2>1, IdsOfNothing
  <2>3. c = d + 1
    BY <1>7, <2>2
  <2> HIDE DEF c, d, p, q, z
  <2>4. K * c = K * d + K /\ K * d \in Nat
    BY <1>1, <1>7, <2>3
  <2> QED
    BY <1>1, <1>6, <1>8, <2>1, <2>2, <2>4
<1>10. CASE TryRecv
  <2>1. p = BatchSize - z + 4
    BY <1>10 DEF TryRecv, Pace
  <2> HIDE DEF c, d, p, q, z
  <2>2. K * d <= K * c /\ K * d \in Nat /\ K * c \in Nat
    <3>1. CASE c = d
      BY <1>1, <1>7, <3>1
    <3>2. CASE c = d + 1
      <4>1. K * c = K * d + K /\ K * d \in Nat /\ K \in Nat
        BY <1>1, <1>7, <3>2
      <4> QED
        BY <4>1
    <3> QED
      BY <1>7, <3>1, <3>2
  <2>3. z \in Nat
    BY <1>1 DEF z
  <2>4. q < p /\ q \in Int /\ p \in Int
    BY <1>1, <1>6, <2>1, <2>3
  <2> HIDE DEF K
  <2> QED
    BY <1>8, <2>2, <2>4
<1> QED
  BY <1>9, <1>10

\* A batch is settled as a whole, whether it is inserted or fails.
LEMMA BatchSettles ==
  ASSUME Types, InsertBatch \/ InsertFails, NEW n \in Ids(writer.batch)
  PROVE  n \in Settled'
<1>1. PICK k \in DOMAIN writer.batch : n = writer.batch[k].id
  BY DEF Ids
<1>2. CASE InsertBatch
  <2>1. Row(keys + k, writer.batch[k]) \in rows' /\ Row(keys + k, writer.batch[k]).id = n
    BY <1>1, <1>2 DEF InsertBatch, Row
  <2> QED
    BY <2>1 DEF Settled, Stored
<1>3. CASE InsertFails
  BY <1>3 DEF InsertFails, Settled
<1> QED
  BY <1>2, <1>3

\* Every step of the writer settles a record or takes something off its wait.
LEMMA WriterShortensWait ==
  ASSUME Types, Books, Writer, NEW n \in InWork
  PROVE  n \in Settled' \/ (Wait(n)' < Wait(n) /\ Wait(n)' <= Wait(n))
<1>0. writer \in Writers
  BY DEF Types, TypeOK, Writers
<1>1. CASE Recv \/ TryRecv
  BY <1>1, TakeShortensWait
<1>2. ASSUME channel' = channel, Pace[writer.pc]' \in Nat, Pace[writer.pc]' < Pace[writer.pc]
      PROVE  Wait(n)' < Wait(n) /\ Wait(n)' <= Wait(n)
  <2>1. UpTo(n)' = UpTo(n)
    BY <1>2 DEF UpTo
  <2>2. Pace[writer.pc]' <= Pace[writer.pc]
    BY <1>2, WaitIsCounted
  <2> QED
    BY <1>2, <2>1, <2>2, PaceSettles
<1>3. CASE BatchDone
  <2>1. channel' = channel /\ writer.pc = "filling" /\ writer'.pc = "inserting"
    BY <1>0, <1>3 DEF BatchDone, Writers
  <2>2. Pace[writer.pc]' = 3 /\ Pace[writer.pc] >= 4 /\ Pace[writer.pc] \in Nat
    BY <2>1, WaitIsCounted DEF Pace
  <2> QED
    BY <1>2, <2>1, <2>2
<1>4. CASE InsertBatch \/ InsertFails
  <2>1. channel' = channel /\ writer.pc = "inserting" /\ writer'.pc \in {"receiving", "pruning"}
    BY <1>4, NextBatchTypes DEF InsertBatch, InsertFails
  <2>2. Pace[writer.pc]' \in 1..2 /\ Pace[writer.pc] = 3
    BY <2>1 DEF Pace
  <2> QED
    BY <1>2, <2>1, <2>2
<1>5. CASE Prune \/ PruneFails
  <2>1. channel' = channel /\ writer.pc = "pruning" /\ writer'.pc = "receiving"
    BY <1>5, RestTypes DEF Prune, PruneFails
  <2>2. Pace[writer.pc]' = 1 /\ Pace[writer.pc] = 2
    BY <2>1 DEF Pace
  <2> QED
    BY <1>2, <2>1, <2>2
<1> QED
  BY <1>1, <1>3, <1>4, <1>5 DEF Writer

\* What the others do makes nobody wait longer: a record that comes goes behind.
LEMMA OthersKeepWait ==
  ASSUME Types, Books, NEW n \in InWork,
         (\E start \in 0..day : Record(start)) \/ NextDay \/ Exit \/ UNCHANGED vars
  PROVE  Wait(n)' = Wait(n) /\ Wait(n)' <= Wait(n)
<1>1. writer' = writer
  BY DEF Record, NextDay, Exit, vars
<1>2. UpTo(n)' = UpTo(n)
  <2>1. CASE channel' = channel
    BY <2>1 DEF UpTo
  <2>2. ASSUME NEW start \in 0..day, Record(start), channel' # channel PROVE UpTo(n)' = UpTo(n)
    <3> DEFINE record == [id |-> calls + 1, start |-> start]
    <3>1. channel' = Append(channel, record) /\ channel \in Seq(Records)
      BY <2>2 DEF Record, Types, TypeOK
    <3>2. record \in Records /\ record.id = calls + 1
      BY <2>2, BoundsAssumption DEF Record, Records, Types, TypeOK
    <3>3. Ids(channel') = Ids(channel) \cup {calls + 1}
      BY <3>1, <3>2, IdsOfAppend
    <3>4. n \in 1..calls /\ calls \in Nat
      BY BoundsAssumption DEF Books, Conserved, Types, TypeOK
    <3> QED
      BY <3>3, <3>4 DEF UpTo
  <2> QED
    BY <2>1, <2>2 DEF NextDay, Exit, vars
<1>3. Pace[writer.pc]' = Pace[writer.pc]
  BY <1>1 DEF Pace
<1>4. Wait(n)' = Wait(n)
  BY <1>2, <1>3 DEF Wait
<1> QED
  BY <1>4, WaitIsCounted

\* A record that was taken into the channel waits for so many steps of the writer
\* and no more, however many come after it: none overtakes it, and every step of the
\* writer, a failed insert or prune too, brings it nearer to its row or its loss.
THEOREM WaitsRunOut ==
  Spec => /\ [](\A n \in InWork : Wait(n) \in Nat)
          /\ [][\A n \in InWork :
                  \/ n \in Settled'
                  \/ Wait(n)' <= Wait(n) /\ (Writer => Wait(n)' < Wait(n))]_vars
<1> DEFINE Nearer == \A n \in InWork :
                       \/ n \in Settled'
                       \/ Wait(n)' <= Wait(n) /\ (Writer => Wait(n)' < Wait(n))
<1>1. Types => \A n \in InWork : Wait(n) \in Nat
  BY WaitIsCounted
<1>2. Types /\ Books /\ [Next]_vars => [Nearer]_vars
  <2> SUFFICES ASSUME Types, Books, Next, NEW n \in InWork
               PROVE  \/ n \in Settled'
                      \/ Wait(n)' <= Wait(n) /\ (Writer => Wait(n)' < Wait(n))
    BY DEF vars
  <2>1. Writer => n \in Settled' \/ (Wait(n)' < Wait(n) /\ Wait(n)' <= Wait(n))
    BY WriterShortensWait
  <2>2. ~Writer => Wait(n)' <= Wait(n)
    BY OthersKeepWait DEF Next
  <2> QED
    BY <2>1, <2>2
<1> QED
  BY <1>1, <1>2, InitTypes, StepTypes, InitBooks, StepBooks, PTL DEF Spec

=============================================================================
