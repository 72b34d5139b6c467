---------------------- MODULE LangfuseCollectorsProofs ----------------------
(***************************************************************************)
(* LangfuseCollectors for any admin calls, requests, settings and bounds:  *)
(* the collector in force is one of the settings in force, no part of an   *)
(* event is handed over twice or forgotten, what the collector of startup  *)
(* holds at the end is not left in it, and the fair queue of the lock      *)
(* moves every caller towards its front.                                   *)
(***************************************************************************)
EXTENDS LangfuseCollectors, TLAPS

-----------------------------------------------------------------------------
(***************************************************************************)
(* Types.  A call keeps the position of a collector that was built.        *)
(***************************************************************************)
Types == TypeOK /\ \A p \in Puts : put[p].built <= Len(collectors)

\* The place of a caller in the queue is given up.
LEMMA LeaveType ==
  ASSUME NEW S, NEW s \in Seq(S), NEW k \in DOMAIN s
  PROVE  SubSeq(s, 1, k - 1) \o SubSeq(s, k + 1, Len(s)) \in Seq(S)
<1>1. k \in 1..Len(s) /\ Len(s) \in Nat /\ \A i \in 1..Len(s) : s[i] \in S
  OBVIOUS
<1>2. SubSeq(s, 1, k - 1) \in Seq(S)
  BY <1>1
<1>3. SubSeq(s, k + 1, Len(s)) \in Seq(S)
  BY <1>1
<1> QED
  BY <1>2, <1>3

LEMMA LeaveQueueType ==
  ASSUME NEW x, LeaveQueue(x), waiting \in Seq(Puts \cup Requests)
  PROVE  waiting' \in Seq(Puts \cup Requests)
<1>1. \A k \in DOMAIN waiting :
        SubSeq(waiting, 1, k - 1) \o SubSeq(waiting, k + 1, Len(waiting)) \in Seq(Puts \cup Requests)
  BY LeaveType
<1> QED
  BY <1>1 DEF LeaveQueue

\* A flush leaves the buffers and the flights what they were.
LEMMA TakeType ==
  ASSUME TypeOK, NEW c \in 1..MaxCollectors, NEW parts \in SUBSET Part,
         NEW who \in Puts \cup {"main", "nobody"}, Take(c, parts, who)
  PROVE  buffer' \in [1..MaxCollectors -> SUBSET Part] /\ flights' \subseteq Flight
<1>1. buffer' \in [1..MaxCollectors -> SUBSET Part]
  BY DEF Take, TypeOK
<1>2. parts # {} => [waiter |-> who, parts |-> parts] \in Flight
  BY DEF Flight
<1>3. (IF parts = {} THEN {} ELSE {[waiter |-> who, parts |-> parts]}) \subseteq Flight
  BY <1>2
<1>4. flights \subseteq Flight
  BY DEF TypeOK
<1> QED
  BY <1>1, <1>3, <1>4 DEF Take

LEMMA AbandonedType ==
  ASSUME TypeOK, NEW x PROVE Abandoned(x) \subseteq Flight
BY DEF TypeOK, Abandoned, Flight

LEMMA TypesInit == Init => Types
<1> SUFFICES ASSUME Init PROVE Types
  OBVIOUS
<1>1. collectors \in Seq(Enabled) /\ Len(collectors) <= MaxCollectors /\ Len(collectors) \in Nat
      /\ Len(collectors) >= 0
  <2>1. CASE Initial = Disabled
    BY <2>1, BoundsAssumption DEF Init
  <2>2. CASE Initial # Disabled
    <3>1. collectors = <<Initial>> /\ Initial \in Enabled
      BY <2>2 DEF Init, Enabled
    <3> QED
      BY <3>1, BoundsAssumption
  <2> QED
    BY <2>1, <2>2
<1>2. settings \in {Disabled} \cup Enabled
  BY DEF Init, Enabled
<1>3. put \in [Puts -> PutType] /\ \A p \in Puts : put[p].built = 0
  BY BoundsAssumption DEF Init, NoPut, PutType
<1>4. req \in [Requests -> RequestType]
  BY <1>1 DEF Init, NoRequest, RequestType
<1>5. waiting \in Seq(Puts \cup Requests)
  BY DEF Init
<1>6. buffer \in [1..MaxCollectors -> SUBSET Part] /\ current \in 0..Len(collectors)
  BY <1>1 DEF Init
<1> QED
  BY <1>1, <1>2, <1>3, <1>4, <1>5, <1>6, BoundsAssumption DEF Init, Types, TypeOK

LEMMA TypesNext == Types /\ [Next]_vars => Types'
<1> SUFFICES ASSUME Types, [Next]_vars PROVE Types'
  OBVIOUS
<1>t. /\ TypeOK /\ MaxCollectors \in Nat \ {0} /\ MaxEvents \in Nat
      /\ \A p \in Puts : put[p].built <= Len(collectors)
  BY BoundsAssumption DEF Types
<1>n. /\ collectors \in Seq(Enabled) /\ Len(collectors) \in Nat /\ Len(collectors) <= MaxCollectors
      /\ current \in 0..Len(collectors) /\ events \in 0..MaxEvents /\ DOMAIN collectors = 1..Len(collectors)
      /\ put \in [Puts -> PutType] /\ req \in [Requests -> RequestType]
      /\ waiting \in Seq(Puts \cup Requests)
      /\ \A c \in 1..MaxCollectors : buffer[c] \subseteq Part
  BY <1>t DEF TypeOK
<1>w. \A x \in Puts \cup Requests : Append(waiting, x) \in Seq(Puts \cup Requests)
  BY <1>n
<1>h. waiting # <<>> => Tail(waiting) \in Seq(Puts \cup Requests)
  BY <1>n
\* The record of one admin call is replaced by another that is right.
<1>p. ASSUME NEW p \in Puts, NEW record \in PutType, record.built <= Len(collectors'),
             Len(collectors) <= Len(collectors'), Len(collectors') \in Nat,
             put' = [put EXCEPT ![p] = record]
      PROVE  put' \in [Puts -> PutType] /\ \A q \in Puts : put'[q].built <= Len(collectors')
  <2>1. \A q \in Puts : put[q].built <= Len(collectors')
    <3> SUFFICES ASSUME NEW q \in Puts PROVE put[q].built <= Len(collectors')
      OBVIOUS
    <3>1. put[q].built \in Nat
      BY <1>n DEF PutType
    <3> QED
      BY <3>1, <1>t, <1>n, <1>p
  <2> QED
    BY <1>p, <1>n, <2>1
<1>i. NoPut \in PutType /\ NoPut.built = 0 /\ NoRequest \in RequestType
  <2>1. 0 \in 0..MaxCollectors /\ 0 \in 0..Len(collectors)
    BY <1>n, <1>t
  <2> QED
    BY <2>1 DEF NoPut, PutType, NoRequest, RequestType
<1>1. ASSUME NEW p \in Puts, NEW config \in {Disabled} \cup Settings, Begin(p, config)
      PROVE  Types'
  <2> DEFINE record == [NoPut EXCEPT !.pc = "reading", !.config = config]
  <2>1. record \in PutType /\ record.built = 0
    <3>1. 0 \in 0..MaxCollectors
      BY <1>t
    <3> QED
      BY <3>1 DEF NoPut, PutType
  <2>2. put' = [put EXCEPT ![p] = record] /\ collectors' = collectors
    BY <1>1 DEF Begin, Forces
  <2> HIDE DEF record
  <2>4. record.built <= Len(collectors') /\ Len(collectors) <= Len(collectors') /\ Len(collectors') \in Nat
    BY <2>1, <2>2, <1>n
  <2>3. put' \in [Puts -> PutType] /\ \A q \in Puts : put'[q].built <= Len(collectors')
    BY <2>1, <2>2, <2>4, <1>p
  <2> QED
    BY <1>1, <2>3, <1>t, <1>w DEF Begin, Forces, Batches, Tasks, Ghosts, Types, TypeOK, RequestType
\* A step that moves an admin call, and of the rest only what is said.
<1>m. ASSUME NEW p \in Puts, NEW pc \in {"idle", "reading", "awaiting", "building", "setting",
                                        "queueing", "writing", "saving"},
             put' = [put EXCEPT ![p].pc = pc] \/ put' = [put EXCEPT ![p] = [NoPut EXCEPT !.pc = pc]],
             collectors' = collectors
      PROVE  put' \in [Puts -> PutType] /\ \A q \in Puts : put'[q].built <= Len(collectors')
  <2>1. put[p] \in PutType /\ put[p].built <= Len(collectors) /\ 0 <= Len(collectors)
    BY <1>n, <1>t
  <2> DEFINE one == [put[p] EXCEPT !.pc = pc]
             two == [NoPut EXCEPT !.pc = pc]
  <2>2. one \in PutType /\ one.built = put[p].built
    BY <2>1 DEF PutType
  <2>3. two \in PutType /\ two.built = 0
    BY <1>i DEF PutType
  <2>4. put' = [put EXCEPT ![p] = one] \/ put' = [put EXCEPT ![p] = two]
    BY <1>m
  <2>5. Len(collectors) <= Len(collectors') /\ Len(collectors') \in Nat
    BY <1>m, <1>n
  <2> HIDE DEF one, two
  <2>6. one.built <= Len(collectors') /\ two.built <= Len(collectors')
    BY <2>1, <2>2, <2>3, <1>m
  <2>7. CASE put' = [put EXCEPT ![p] = one]
    BY <2>2, <2>5, <2>6, <2>7, <1>p
  <2>8. CASE put' = [put EXCEPT ![p] = two]
    BY <2>3, <2>5, <2>6, <2>8, <1>p
  <2> QED
    BY <2>4, <2>7, <2>8
<1>2. ASSUME NEW p \in Puts, TakeReadGuard(p) PROVE Types'
  <2>1. put' \in [Puts -> PutType] /\ \A q \in Puts : put'[q].built <= Len(collectors')
    <3>1. /\ collectors' = collectors
          /\ put' = [put EXCEPT ![p].pc = "building"] \/ put' = [put EXCEPT ![p].pc = "awaiting"]
      BY <1>2 DEF TakeReadGuard, Forces
    <3> QED
      BY <3>1, <1>m
  <2>2. buffer' \in [1..MaxCollectors -> SUBSET Part] /\ flights' \subseteq Flight
    <3>1. CASE current = 0
      BY <1>2, <3>1, <1>t DEF TakeReadGuard, TypeOK
    <3>2. CASE current # 0
      <4>1. current \in 1..MaxCollectors
        BY <1>n, <1>t, <3>2
      <4>2. Take(current, buffer[current], p)
        BY <1>2, <3>2 DEF TakeReadGuard
      <4> QED
        BY <4>1, <4>2, <1>t, <1>n, TakeType
    <3> QED
      BY <3>1, <3>2
  <2>3. readers' \subseteq Puts
    BY <1>2, <1>t DEF TakeReadGuard, TypeOK
  <2> QED
    BY <1>2, <2>1, <2>2, <2>3, <1>t, <1>h
       DEF TakeReadGuard, Forces, Tasks, Ghosts, Types, TypeOK, RequestType
<1>3. ASSUME NEW p \in Puts, FlushOld(p) PROVE Types'
  <2>1. put' \in [Puts -> PutType] /\ \A q \in Puts : put'[q].built <= Len(collectors')
    BY <1>3, <1>m DEF FlushOld, Forces
  <2> QED
    BY <1>3, <2>1, <1>t DEF FlushOld, Forces, Batches, Tasks, Ghosts, Types, TypeOK, RequestType
<1>4. ASSUME NEW p \in Puts, Build(p) PROVE Types'
  <2>1. CASE put[p].config = Disabled
    <3>1. collectors' = collectors /\ put' = [put EXCEPT ![p].pc = "setting"]
      BY <1>4, <2>1 DEF Build
    <3>2. put' \in [Puts -> PutType] /\ \A q \in Puts : put'[q].built <= Len(collectors')
      BY <3>1, <1>m
    <3> QED
      BY <1>4, <3>1, <3>2, <1>t DEF Build, Batches, Lock, Tasks, Ghosts, Types, TypeOK, RequestType
  <2>2. CASE put[p].config # Disabled
    <3>1. /\ Len(collectors) < MaxCollectors /\ collectors' = Append(collectors, put[p].config)
          /\ put' = [put EXCEPT ![p].pc = "setting", ![p].built = Len(collectors) + 1]
      BY <1>4, <2>2 DEF Build
    <3>2. put[p] \in PutType /\ put[p].config \in Enabled
      <4>1. put[p] \in PutType
        BY <1>n
      <4> QED
        BY <4>1, <2>2 DEF PutType, Enabled
    <3>3. /\ collectors' \in Seq(Enabled) /\ Len(collectors') = Len(collectors) + 1
          /\ Len(collectors') \in 0..MaxCollectors
      BY <3>1, <3>2, <1>n, <1>t
    <3> DEFINE record == [put[p] EXCEPT !.pc = "setting", !.built = Len(collectors) + 1]
    <3>4. record \in PutType /\ record.built = Len(collectors) + 1 /\ put' = [put EXCEPT ![p] = record]
      <4>1. Len(collectors) + 1 \in 0..MaxCollectors
        BY <3>1, <1>n, <1>t
      <4> QED
        BY <4>1, <3>1, <3>2, <1>n DEF PutType
    <3> HIDE DEF record
    <3>5. record.built <= Len(collectors') /\ Len(collectors) <= Len(collectors') /\ Len(collectors') \in Nat
      BY <3>3, <3>4, <1>n
    <3>6. put' \in [Puts -> PutType] /\ \A q \in Puts : put'[q].built <= Len(collectors')
      BY <3>4, <3>5, <1>p
    <3>7. /\ UNCHANGED <<settings, current, Batches, Lock, req, Tasks, Ghosts, phase>>
          /\ 0..Len(collectors) \subseteq 0..Len(collectors') /\ Len(collectors') <= MaxCollectors
          /\ DOMAIN collectors \subseteq DOMAIN collectors'
      BY <1>4, <3>3, <1>n DEF Build
    <3>8. req' \in [Requests -> RequestType'] /\ current' \in 0..Len(collectors')
      BY <3>7, <1>n DEF RequestType
    <3>9. adding' \subseteq [event : 1..MaxEvents, collector : DOMAIN collectors', part : Parts]
      BY <3>7, <1>t DEF Tasks, TypeOK
    <3> QED
      BY <3>3, <3>6, <3>7, <3>8, <3>9, <1>t DEF Batches, Lock, Tasks, Ghosts, Types, TypeOK
  <2> QED
    BY <2>1, <2>2
<1>5. ASSUME NEW p \in Puts, SetSettings(p) PROVE Types'
  <2>1. put' \in [Puts -> PutType] /\ \A q \in Puts : put'[q].built <= Len(collectors')
    BY <1>5, <1>m DEF SetSettings
  <2>2. settings' \in {Disabled} \cup Enabled
    BY <1>5, <1>n, SettingsAssumption DEF SetSettings, PutType, Enabled
  <2> QED
    BY <1>5, <2>1, <2>2, <1>t DEF SetSettings, Batches, Lock, Tasks, Types, TypeOK, RequestType
<1>6. ASSUME NEW p \in Puts, Queue(p) PROVE Types'
  <2>1. put' \in [Puts -> PutType] /\ \A q \in Puts : put'[q].built <= Len(collectors')
    BY <1>6, <1>m DEF Queue, Forces
  <2> QED
    BY <1>6, <2>1, <1>t, <1>w DEF Queue, Forces, Batches, Tasks, Ghosts, Types, TypeOK, RequestType
<1>7. ASSUME NEW p \in Puts, SetCollector(p) PROVE Types'
  <2>1. put' \in [Puts -> PutType] /\ \A q \in Puts : put'[q].built <= Len(collectors')
    BY <1>7, <1>m DEF SetCollector
  <2>2. current' \in 0..Len(collectors)
    <3>1. put[p].built \in Nat /\ put[p].built <= Len(collectors)
      BY <1>n, <1>t DEF PutType
    <3> QED
      BY <3>1, <1>7, <1>n DEF SetCollector
  <2>3. author' \in Puts \cup {"nobody", "torn"}
    BY <1>7, <1>t DEF SetCollector, TypeOK
  <2> QED
    BY <1>7, <2>1, <2>2, <2>3, <1>t, <1>h DEF SetCollector, Batches, Tasks, Types, TypeOK, RequestType
<1>8. ASSUME NEW p \in Puts, Saved(p) PROVE Types'
  <2>1. put' \in [Puts -> PutType] /\ \A q \in Puts : put'[q].built <= Len(collectors')
    <3>1. put' = [put EXCEPT ![p] = NoPut] /\ collectors' = collectors
      BY <1>8 DEF Saved, Forces
    <3>2. NoPut.built <= Len(collectors') /\ Len(collectors) <= Len(collectors') /\ Len(collectors') \in Nat
      BY <3>1, <1>i, <1>n
    <3> QED
      BY <3>1, <3>2, <1>i, <1>p
  <2> QED
    BY <1>8, <2>1, <1>t DEF Saved, Forces, Batches, Lock, Tasks, Ghosts, Types, TypeOK, RequestType
<1>9. ASSUME NEW p \in Puts, Dropped(p) PROVE Types'
  <2>1. put' \in [Puts -> PutType] /\ \A q \in Puts : put'[q].built <= Len(collectors')
    <3>1. put' = [put EXCEPT ![p] = NoPut] /\ collectors' = collectors
      BY <1>9 DEF Dropped, Forces
    <3>2. NoPut.built <= Len(collectors') /\ Len(collectors) <= Len(collectors') /\ Len(collectors') \in Nat
      BY <3>1, <1>i, <1>n
    <3> QED
      BY <3>1, <3>2, <1>i, <1>p
  <2>2. waiting' \in Seq(Puts \cup Requests)
    BY <1>9, <1>n, LeaveQueueType DEF Dropped
  <2>3. flights' \subseteq Flight
    BY <1>9, <1>t, AbandonedType DEF Dropped
  <2>4. author' \in Puts \cup {"nobody", "torn"} /\ readers' \subseteq Puts
    BY <1>9, <1>t DEF Dropped, TypeOK
  <2> QED
    BY <1>9, <2>1, <2>2, <2>3, <2>4, <1>t DEF Dropped, Forces, Tasks, Types, TypeOK, RequestType
<1>10. ASSUME NEW r \in Requests, Dispatch(r) PROVE Types'
  <2>1. req' \in [Requests -> RequestType]
    BY <1>10, <1>n DEF Dispatch, RequestType
  <2> QED
    BY <1>10, <2>1, <1>t, <1>w DEF Dispatch, Forces, Batches, Tasks, Ghosts, Types, TypeOK, RequestType
<1>11. ASSUME NEW r \in Requests, CloneCollector(r) PROVE Types'
  <2>1. [pc |-> "proxying", collector |-> current] \in RequestType
    BY <1>n DEF RequestType
  <2>2. req' \in [Requests -> RequestType]
    BY <1>11, <1>n, <2>1 DEF CloneCollector
  <2> QED
    BY <1>11, <2>2, <1>t, <1>h DEF CloneCollector, Forces, Batches, Tasks, Ghosts, Types, TypeOK, RequestType
<1>12. ASSUME NEW r \in Requests, HangUp(r) PROVE Types'
  <2>1. req' \in [Requests -> RequestType]
    <3>1. CASE req' = [req EXCEPT ![r] = NoRequest]
      BY <3>1, <1>n, <1>i
    <3>2. CASE req' = [req EXCEPT ![r].pc = "detached"]
      BY <3>2, <1>n DEF RequestType
    <3> QED
      BY <1>12, <3>1, <3>2 DEF HangUp
  <2>2. waiting' \in Seq(Puts \cup Requests)
    BY <1>12, <1>n, LeaveQueueType DEF HangUp
  <2> QED
    BY <1>12, <2>1, <2>2, <1>t DEF HangUp, Forces, Batches, Tasks, Ghosts, Types, TypeOK, RequestType
<1>13. ASSUME NEW r \in Requests, Send(r) PROVE Types'
  <2>1. req' \in [Requests -> RequestType]
    BY <1>13, <1>n, <1>i DEF Send
  <2>2. /\ adding' \subseteq [event : 1..MaxEvents, collector : DOMAIN collectors, part : Parts]
        /\ events' \in 0..MaxEvents
    <3>1. CASE UNCHANGED Tasks
      BY <3>1, <1>t DEF Tasks, TypeOK
    <3>2. CASE /\ req[r].collector # 0 /\ events < MaxEvents /\ events' = events + 1
               /\ adding' = adding \cup
                    {[event |-> events', collector |-> req[r].collector, part |-> "trace"]}
      <4>1. events' \in 1..MaxEvents /\ events' \in 0..MaxEvents
        BY <3>2, <1>n, <1>t
      <4>2. req[r].collector \in DOMAIN collectors /\ "trace" \in Parts
        BY <3>2, <1>n DEF RequestType, Parts
      <4> QED
        BY <3>2, <4>1, <4>2, <1>t DEF TypeOK
    <3> QED
      BY <1>13, <3>1, <3>2 DEF Send
  <2> QED
    BY <1>13, <2>1, <2>2, <1>t DEF Send, Forces, Batches, Lock, Ghosts, Types, TypeOK, RequestType
\* The task of a part that was handed over, or refused.
<1>a. ASSUME NEW t \in adding
      PROVE  /\ t.event \in 1..MaxEvents /\ t.collector \in 1..MaxCollectors /\ <<t.event, t.part>> \in Part
             /\ NextPart(t) => /\ adding' \subseteq [event : 1..MaxEvents, collector : DOMAIN collectors, part : Parts]
                               /\ events' = events
  <2>1. t \in [event : 1..MaxEvents, collector : DOMAIN collectors, part : Parts]
    BY <1>t DEF TypeOK
  <2>2. [t EXCEPT !.part = "generation"] \in [event : 1..MaxEvents, collector : DOMAIN collectors, part : Parts]
    BY <2>1 DEF Parts
  <2>3. t.collector \in 1..MaxCollectors
    BY <2>1, <1>n, <1>t
  <2> QED
    BY <2>1, <2>2, <2>3, <1>t DEF NextPart, TypeOK, Part
<1>14. ASSUME NEW t \in adding, AddPart(t) PROVE Types'
  <2> DEFINE parts == buffer[t.collector] \cup {<<t.event, t.part>>}
  <2>1. /\ adding' \subseteq [event : 1..MaxEvents, collector : DOMAIN collectors, part : Parts]
        /\ events' = events /\ t.collector \in 1..MaxCollectors
    BY <1>14, <1>a DEF AddPart
  <2>2. parts \in SUBSET Part
    <3>1. buffer[t.collector] \subseteq Part /\ <<t.event, t.part>> \in Part
      BY <1>a, <1>n
    <3> QED
      BY <3>1
  <2>3. \/ Take(t.collector, parts, "nobody")
        \/ buffer' = [buffer EXCEPT ![t.collector] = parts] /\ UNCHANGED flights
    BY <1>14 DEF AddPart
  <2> HIDE DEF parts
  <2>4. buffer' \in [1..MaxCollectors -> SUBSET Part] /\ flights' \subseteq Flight
    <3>1. CASE Take(t.collector, parts, "nobody")
      BY <2>1, <2>2, <3>1, <1>t, TakeType
    <3>2. CASE buffer' = [buffer EXCEPT ![t.collector] = parts] /\ UNCHANGED flights
      BY <2>1, <2>2, <3>2, <1>t DEF TypeOK
    <3> QED
      BY <2>3, <3>1, <3>2
  <2> QED
    BY <1>14, <2>1, <2>4, <1>t DEF AddPart, Forces, Lock, Ghosts, Types, TypeOK, RequestType
<1>15. ASSUME NEW t \in adding, AddFails(t) PROVE Types'
  <2>1. /\ adding' \subseteq [event : 1..MaxEvents, collector : DOMAIN collectors, part : Parts]
        /\ events' = events /\ settled' \subseteq Part
    BY <1>15, <1>a, <1>t DEF AddFails, TypeOK
  <2> QED
    BY <1>15, <2>1, <1>t DEF AddFails, Forces, Lock, Ghosts, Types, TypeOK, RequestType
<1>16. ASSUME NEW c \in DOMAIN collectors, TimerFlush(c) PROVE Types'
  <2>1. c \in 1..MaxCollectors
    BY <1>n, <1>t
  <2>2. buffer' \in [1..MaxCollectors -> SUBSET Part] /\ flights' \subseteq Flight
    BY <1>16, <2>1, <1>t, <1>n, TakeType DEF TimerFlush
  <2> QED
    BY <1>16, <2>2, <1>t DEF TimerFlush, Forces, Lock, Tasks, Ghosts, Types, TypeOK, RequestType
<1>17. ASSUME NEW f \in flights, EndFlight(f) PROVE Types'
  <2>1. f.parts \subseteq Part
    BY <1>t DEF TypeOK, Flight
  <2> QED
    BY <1>17, <2>1, <1>t DEF EndFlight, Forces, Lock, Tasks, Ghosts, Types, TypeOK, RequestType
<1>18. ASSUME Drained PROVE Types'
  <2>1. owed' \subseteq Part
    <3>1. 1 \in 1..MaxCollectors
      BY <1>t
    <3> QED
      BY <1>18, <3>1, <1>n DEF Drained, AtStartup
  <2> QED
    BY <1>18, <2>1, <1>t DEF Drained, Forces, Batches, Lock, Tasks, Types, TypeOK, RequestType
<1>19. ASSUME ShutdownFlush PROVE Types'
  <2>1. buffer' \in [1..MaxCollectors -> SUBSET Part] /\ flights' \subseteq Flight
    <3>1. CASE Initial = Disabled
      BY <1>19, <3>1, <1>t DEF ShutdownFlush, TypeOK
    <3>2. CASE Initial # Disabled
      <4>1. 1 \in 1..MaxCollectors
        BY <1>t
      <4> QED
        BY <1>19, <3>2, <4>1, <1>t, <1>n, TakeType DEF ShutdownFlush
    <3> QED
      BY <3>1, <3>2
  <2> QED
    BY <1>19, <2>1, <1>t DEF ShutdownFlush, Forces, Lock, Tasks, Ghosts, Types, TypeOK, RequestType
<1>20. ASSUME Stop PROVE Types'
  BY <1>20, <1>t DEF Stop, Forces, Batches, Lock, Tasks, Ghosts, Types, TypeOK, RequestType
<1>21. CASE UNCHANGED vars
  BY <1>21, <1>t DEF vars, Types, TypeOK, RequestType
<1> QED
  BY <1>1, <1>2, <1>3, <1>4, <1>5, <1>6, <1>7, <1>8, <1>9, <1>10, <1>11, <1>12, <1>13, <1>14,
     <1>15, <1>16, <1>17, <1>18, <1>19, <1>20, <1>21 DEF Next, Put

LEMMA AlwaysTypes == Spec => []Types
BY TypesInit, TypesNext, PTL DEF Spec

\* Every variable has its type, for any calls, requests, settings and bounds: no
\* position that a call, a request or a spawned task keeps is beyond the
\* collectors that were built.
THEOREM TypesAreRight == Spec => []TypeOK
<1>1. Types => TypeOK
  BY DEF Types
<1> QED
  BY <1>1, AlwaysTypes, PTL
-----------------------------------------------------------------------------
(***************************************************************************)
(* Settings and collector.  What a call has built fits what it was asked   *)
(* for, and the author of the settings has its collector still to write:   *)
(* when it writes that one, both are its own.                              *)
(***************************************************************************)
Fits(config, built) ==
  IF config = Disabled THEN built = 0 ELSE built \in 1..Len(collectors) /\ collectors[built] = config

\* The same after a step, of a call as it was before.
FitsNext(config, built) ==
  IF config = Disabled THEN built = 0 ELSE built \in 1..Len(collectors') /\ collectors'[built] = config

BuiltRight ==
  \A p \in Puts :
    /\ put[p].pc \in {"reading", "awaiting", "building"} => put[p].built = 0
    /\ put[p].pc \in {"setting", "queueing", "writing"} => Fits(put[p].config, put[p].built)

Authored ==
  /\ author = "nobody" => Fits(settings, current)
  /\ author \in Puts => put[author].pc \in {"queueing", "writing"} /\ put[author].config = settings

InForce == BuiltRight /\ Authored

\* A step of one call leaves the rest as it is, whether or not a collector is added.
LEMMA FitsKept ==
  ASSUME Types, NEW config, NEW built, Fits(config, built),
         collectors' = collectors \/ \E c \in Enabled : collectors' = Append(collectors, c)
  PROVE  FitsNext(config, built)
<1>1. collectors \in Seq(Enabled) /\ Len(collectors) \in Nat
  BY DEF Types, TypeOK
<1> QED
  BY <1>1 DEF Fits, FitsNext

LEMMA BuiltRightKept ==
  ASSUME Types, BuiltRight, NEW p \in Puts, NEW record, put' = [put EXCEPT ![p] = record],
         collectors' = collectors \/ \E c \in Enabled : collectors' = Append(collectors, c),
         record.pc \in {"reading", "awaiting", "building"} => record.built = 0,
         record.pc \in {"setting", "queueing", "writing"} => FitsNext(record.config, record.built)
  PROVE  BuiltRight' /\ put'[p] = record /\ \A q \in Puts : q # p => put'[q] = put[q]
<1>1. put'[p] = record /\ \A q \in Puts : q # p => put'[q] = put[q]
  BY DEF Types, TypeOK
<1>2. ASSUME NEW q \in Puts
      PROVE  /\ put'[q].pc \in {"reading", "awaiting", "building"} => put'[q].built = 0
             /\ put'[q].pc \in {"setting", "queueing", "writing"} => FitsNext(put'[q].config, put'[q].built)
  <2>1. CASE q = p
    BY <1>1, <2>1
  <2>2. CASE q # p
    <3>1. put'[q] = put[q]
      BY <1>1, <2>2
    <3>2. put[q].pc \in {"setting", "queueing", "writing"} => FitsNext(put[q].config, put[q].built)
      BY FitsKept DEF BuiltRight
    <3> QED
      BY <3>1, <3>2 DEF BuiltRight
  <2> QED
    BY <2>1, <2>2
<1> QED
  BY <1>1, <1>2 DEF BuiltRight, Fits, FitsNext

\* A call that is not the author, or goes on waiting as the author, touches nothing
\* of what it is about.
LEMMA AuthoredKept ==
  ASSUME Types, Authored, NEW p \in Puts, \A q \in Puts : q # p => put'[q] = put[q],
         author = p => put'[p].pc \in {"queueing", "writing"} /\ put'[p].config = put[p].config,
         UNCHANGED <<settings, current, author>>,
         collectors' = collectors \/ \E c \in Enabled : collectors' = Append(collectors, c)
  PROVE  Authored'
<1>1. author = "nobody" => FitsNext(settings, current)
  BY FitsKept DEF Authored
<1>2. author \in Puts => put'[author].pc \in {"queueing", "writing"} /\ put'[author].config = settings
  BY DEF Authored
<1> QED
  BY <1>1, <1>2 DEF Authored, Fits, FitsNext

LEMMA InForceInit == Init => InForce
<1> SUFFICES ASSUME Init PROVE InForce
  OBVIOUS
<1>1. BuiltRight
  BY DEF Init, NoPut, BuiltRight
<1>2. Fits(settings, current)
  BY DEF Init, Fits
<1>3. author \notin Puts
  BY CallersAssumption DEF Init
<1> QED
  BY <1>1, <1>2, <1>3 DEF InForce, Authored

LEMMA InForceNext == Types /\ InForce /\ [Next]_vars => InForce'
<1> SUFFICES ASSUME Types, InForce, [Next]_vars PROVE InForce'
  OBVIOUS
<1>t. /\ put \in [Puts -> PutType] /\ collectors \in Seq(Enabled) /\ Len(collectors) \in Nat
      /\ BuiltRight /\ Authored
  BY DEF Types, TypeOK, InForce
\* A step that leaves the calls and the collectors alone.
<1>k. UNCHANGED <<Forces, put, author>> => InForce'
  <2> SUFFICES ASSUME UNCHANGED <<Forces, put, author>> PROVE InForce'
    OBVIOUS
  <2>1. UNCHANGED <<settings, current, collectors, put, author>>
    BY DEF Forces
  <2> QED
    BY <2>1, <1>t DEF InForce, BuiltRight, Authored, Fits
\* A step of a call that is not the author, or goes on waiting.
<1>p. ASSUME NEW p \in Puts, NEW pc, put' = [put EXCEPT ![p].pc = pc],
             pc \in {"setting", "queueing", "writing"} => put[p].pc \in {"setting", "queueing", "writing"},
             pc \in {"reading", "awaiting", "building"} => put[p].pc \in {"reading", "awaiting", "building"},
             put[p].pc \in {"queueing", "writing"} => pc \in {"queueing", "writing"},
             UNCHANGED <<Forces, author>>
      PROVE  InForce'
  <2> DEFINE record == [put[p] EXCEPT !.pc = pc]
  <2>0. UNCHANGED <<settings, current, collectors, author>>
    BY <1>p DEF Forces
  <2>1. /\ record.pc = pc /\ record.built = put[p].built /\ record.config = put[p].config
        /\ put' = [put EXCEPT ![p] = record]
    BY <1>p, <1>t DEF PutType
  <2> HIDE DEF record
  <2>2. record.pc \in {"reading", "awaiting", "building"} => record.built = 0
    BY <2>1, <1>p, <1>t DEF BuiltRight
  <2>3. record.pc \in {"setting", "queueing", "writing"} => FitsNext(record.config, record.built)
    BY <2>0, <2>1, <1>p, <1>t DEF BuiltRight, Fits, FitsNext
  <2>4. BuiltRight' /\ put'[p] = record /\ \A q \in Puts : q # p => put'[q] = put[q]
    BY <2>0, <2>1, <2>2, <2>3, <1>t, BuiltRightKept
  <2>5. author = p => put'[p].pc \in {"queueing", "writing"} /\ put'[p].config = put[p].config
    BY <2>1, <2>4, <1>p, <1>t DEF Authored
  <2>6. Authored'
    BY <2>0, <2>4, <2>5, <1>t, AuthoredKept
  <2> QED
    BY <2>4, <2>6 DEF InForce
<1>1. ASSUME NEW p \in Puts, NEW config \in {Disabled} \cup Settings, Begin(p, config)
      PROVE  InForce'
  <2> DEFINE record == [NoPut EXCEPT !.pc = "reading", !.config = config]
  <2>1. record.pc = "reading" /\ record.built = 0
    BY DEF NoPut
  <2>2. /\ put' = [put EXCEPT ![p] = record] /\ UNCHANGED <<settings, current, collectors, author>>
        /\ put[p].pc = "idle"
    BY <1>1 DEF Begin, Forces, Ghosts
  <2> HIDE DEF record
  <2>3. BuiltRight' /\ \A q \in Puts : q # p => put'[q] = put[q]
    BY <2>1, <2>2, <1>t, BuiltRightKept
  <2>4. Authored'
    BY <2>2, <2>3, <1>t, AuthoredKept DEF Authored
  <2> QED
    BY <2>3, <2>4 DEF InForce
<1>2. ASSUME NEW p \in Puts, TakeReadGuard(p) PROVE InForce'
  <2>1. /\ put[p].pc = "reading" /\ UNCHANGED <<Forces, author>>
        /\ put' = [put EXCEPT ![p].pc = "building"] \/ put' = [put EXCEPT ![p].pc = "awaiting"]
    BY <1>2 DEF TakeReadGuard, Ghosts
  <2> QED
    BY <2>1, <1>p
<1>3. ASSUME NEW p \in Puts, FlushOld(p) PROVE InForce'
  <2>1. put[p].pc = "awaiting" /\ UNCHANGED <<Forces, author>> /\ put' = [put EXCEPT ![p].pc = "building"]
    BY <1>3 DEF FlushOld, Ghosts
  <2> QED
    BY <2>1, <1>p
<1>4. ASSUME NEW p \in Puts, Build(p) PROVE InForce'
  <2>1. put[p].pc = "building" /\ put[p].built = 0 /\ UNCHANGED <<settings, current, author>>
    BY <1>4, <1>t DEF Build, Ghosts, BuiltRight
  <2>2. ASSUME NEW record, put' = [put EXCEPT ![p] = record], record.pc = "setting",
               record.config = put[p].config, FitsNext(record.config, record.built),
               collectors' = collectors \/ \E c \in Enabled : collectors' = Append(collectors, c)
        PROVE  InForce'
    <3>1. BuiltRight' /\ \A q \in Puts : q # p => put'[q] = put[q]
      BY <2>2, <1>t, BuiltRightKept
    <3>2. author # p
      BY <2>1, <1>t DEF Authored
    <3>3. Authored'
      BY <3>1, <3>2, <2>1, <2>2, <1>t, AuthoredKept
    <3> QED
      BY <3>1, <3>3 DEF InForce
  <2>3. CASE put[p].config = Disabled
    <3> DEFINE record == [put[p] EXCEPT !.pc = "setting"]
    <3>1. /\ record.pc = "setting" /\ record.built = 0 /\ record.config = put[p].config
          /\ put' = [put EXCEPT ![p] = record] /\ collectors' = collectors
      BY <1>4, <2>1, <2>3, <1>t DEF Build, PutType
    <3> HIDE DEF record
    <3>2. FitsNext(record.config, record.built)
      BY <3>1, <2>3 DEF FitsNext
    <3> QED
      BY <3>1, <3>2, <2>2
  <2>4. CASE put[p].config # Disabled
    <3> DEFINE record == [put[p] EXCEPT !.pc = "setting", !.built = Len(collectors) + 1]
    <3>1. /\ record.pc = "setting" /\ record.built = Len(collectors) + 1 /\ record.config = put[p].config
          /\ put' = [put EXCEPT ![p] = record] /\ collectors' = Append(collectors, put[p].config)
      BY <1>4, <2>1, <2>4, <1>t DEF Build, PutType
    <3> HIDE DEF record
    <3>2. put[p].config \in Enabled
      <4>1. put[p] \in PutType
        BY <1>t
      <4> QED
        BY <4>1, <2>4 DEF PutType, Enabled
    <3>3. Len(collectors) + 1 \in 1..Len(collectors') /\ collectors'[Len(collectors) + 1] = put[p].config
      BY <3>1, <3>2, <1>t
    <3>4. FitsNext(record.config, record.built)
      BY <3>1, <3>3, <2>4 DEF FitsNext
    <3> QED
      BY <3>1, <3>2, <3>4, <2>2
  <2> QED
    BY <2>3, <2>4
<1>5. ASSUME NEW p \in Puts, SetSettings(p) PROVE InForce'
  <2> DEFINE record == [put[p] EXCEPT !.pc = "queueing"]
  <2>1. /\ put[p].pc = "setting" /\ settings' = put[p].config /\ author' = p
        /\ UNCHANGED <<current, collectors>>
    BY <1>5 DEF SetSettings
  <2>2. /\ record.pc = "queueing" /\ record.built = put[p].built /\ record.config = put[p].config
        /\ put' = [put EXCEPT ![p] = record]
    BY <1>5, <1>t DEF SetSettings, PutType
  <2> HIDE DEF record
  <2>3. FitsNext(record.config, record.built)
    BY <2>1, <2>2, <1>t DEF BuiltRight, Fits, FitsNext
  <2>4. BuiltRight' /\ put'[p] = record
    BY <2>1, <2>2, <2>3, <1>t, BuiltRightKept
  <2>5. author' # "nobody"
    BY <2>1, CallersAssumption
  <2> QED
    BY <2>1, <2>2, <2>4, <2>5 DEF InForce, Authored
<1>6. ASSUME NEW p \in Puts, Queue(p) PROVE InForce'
  <2>1. put[p].pc = "queueing" /\ UNCHANGED <<Forces, author>> /\ put' = [put EXCEPT ![p].pc = "writing"]
    BY <1>6 DEF Queue, Ghosts
  <2> QED
    BY <2>1, <1>p
<1>7. ASSUME NEW p \in Puts, SetCollector(p) PROVE InForce'
  <2> DEFINE record == [NoPut EXCEPT !.pc = "saving"]
  <2>1. /\ put[p].pc = "writing" /\ current' = put[p].built /\ UNCHANGED <<settings, collectors>>
        /\ author' = IF author = p THEN "nobody" ELSE IF author \in Puts THEN author ELSE "torn"
        /\ put' = [put EXCEPT ![p] = record]
    BY <1>7 DEF SetCollector
  <2>2. record.pc = "saving"
    BY DEF NoPut
  <2> HIDE DEF record
  <2>3. BuiltRight' /\ \A q \in Puts : q # p => put'[q] = put[q]
    BY <2>1, <2>2, <1>t, BuiltRightKept
  <2>4. CASE author = p
    <3>1. Fits(settings, put[p].built)
      BY <2>1, <2>4, <1>t DEF Authored, BuiltRight
    <3>2. author' \notin Puts /\ Fits(settings, current)'
      BY <2>1, <2>4, <3>1, CallersAssumption DEF Fits
    <3> QED
      BY <2>3, <3>2 DEF InForce, Authored
  <2>5. CASE author # p /\ author \in Puts
    <3>1. author' = author /\ author' # "nobody"
      BY <2>1, <2>5, CallersAssumption
    <3> QED
      BY <2>1, <2>3, <2>5, <3>1, <1>t DEF InForce, Authored
  <2>6. CASE author # p /\ author \notin Puts
    <3>1. author' = "torn" /\ author' \notin Puts
      BY <2>1, <2>6, CallersAssumption
    <3> QED
      BY <2>3, <3>1 DEF InForce, Authored
  <2> QED
    BY <2>4, <2>5, <2>6
\* A call that ends, one way or the other.
<1>i. ASSUME NEW p \in Puts, put' = [put EXCEPT ![p] = NoPut], UNCHANGED <<settings, current, collectors>>,
             (author # p /\ author' = author) \/ author' = "torn"
      PROVE  InForce'
  <2>1. NoPut.pc = "idle"
    BY DEF NoPut
  <2>2. BuiltRight' /\ \A q \in Puts : q # p => put'[q] = put[q]
    BY <1>i, <2>1, <1>t, BuiltRightKept
  <2>3. CASE author # p /\ author' = author
    <3>1. Authored'
      BY <1>i, <2>2, <2>3, <1>t, AuthoredKept
    <3> QED
      BY <2>2, <3>1 DEF InForce
  <2>4. CASE author' = "torn"
    BY <2>2, <2>4, CallersAssumption DEF InForce, Authored
  <2> QED
    BY <1>i, <2>3, <2>4
<1>8. ASSUME NEW p \in Puts, Saved(p) PROVE InForce'
  <2>1. /\ put' = [put EXCEPT ![p] = NoPut] /\ UNCHANGED <<settings, current, collectors>>
        /\ author' = author /\ put[p].pc = "saving"
    BY <1>8 DEF Saved, Forces, Ghosts
  <2>2. author # p
    BY <2>1, <1>t DEF Authored
  <2> QED
    BY <2>1, <2>2, <1>i
<1>9. ASSUME NEW p \in Puts, Dropped(p) PROVE InForce'
  <2>1. /\ put' = [put EXCEPT ![p] = NoPut] /\ UNCHANGED <<settings, current, collectors>>
        /\ author' = IF author = p THEN "torn" ELSE author
    BY <1>9 DEF Dropped, Forces
  <2> QED
    BY <2>1, <1>i
<1>10. ASSUME NEW r \in Requests, Dispatch(r) \/ CloneCollector(r) \/ HangUp(r) \/ Send(r) PROVE InForce'
  <2>1. UNCHANGED <<Forces, put, author>>
    BY <1>10 DEF Dispatch, CloneCollector, HangUp, Send, Ghosts
  <2> QED
    BY <2>1, <1>k
<1>11. ASSUME NEW t \in adding, AddPart(t) \/ AddFails(t) PROVE InForce'
  <2>1. UNCHANGED <<Forces, put, author>>
    BY <1>11 DEF AddPart, AddFails, Ghosts
  <2> QED
    BY <2>1, <1>k
<1>12. ASSUME NEW c \in DOMAIN collectors, TimerFlush(c) PROVE InForce'
  <2>1. UNCHANGED <<Forces, put, author>>
    BY <1>12 DEF TimerFlush, Ghosts
  <2> QED
    BY <2>1, <1>k
<1>13. ASSUME NEW f \in flights, EndFlight(f) PROVE InForce'
  <2>1. UNCHANGED <<Forces, put, author>>
    BY <1>13 DEF EndFlight, Ghosts
  <2> QED
    BY <2>1, <1>k
<1>14. ASSUME Drained \/ ShutdownFlush \/ Stop PROVE InForce'
  <2>1. UNCHANGED <<Forces, put, author>>
    BY <1>14 DEF Drained, ShutdownFlush, Stop, Ghosts
  <2> QED
    BY <2>1, <1>k
<1>15. CASE UNCHANGED vars
  <2>1. UNCHANGED <<Forces, put, author>>
    BY <1>15 DEF vars, Forces
  <2> QED
    BY <2>1, <1>k
<1> QED
  BY <1>1, <1>2, <1>3, <1>4, <1>5, <1>6, <1>7, <1>8, <1>9, <1>10, <1>11, <1>12, <1>13, <1>14,
     <1>15 DEF Next, Put

\* For any calls, settings and bounds, the collector in force is one built from the
\* settings in force, or none where they are disabled, but while the author of the
\* settings has its collector to write, and after two calls wrote in opposite orders
\* or one was dropped between its two writes (put_langfuse).
THEOREM SettingsAreInForce == Spec => []SettingsInForce
<1>1. Types /\ InForce => SettingsInForce
  <2>1. Types /\ InForce /\ author = "nobody" => Fits(settings, current)
    BY DEF InForce, Authored
  <2> QED
    BY <2>1 DEF SettingsInForce, Fits
<1> QED
  BY <1>1, TypesInit, TypesNext, InForceInit, InForceNext, PTL DEF Spec
-----------------------------------------------------------------------------
(***************************************************************************)
(* The end of main.  What the collector of startup held when the servers   *)
(* had ended is still in it until main flushes it, and from then on in a   *)
(* flush or settled.  No admin call is left by then, so that of the        *)
(* flushes only main's own has somebody who waits.                         *)
(***************************************************************************)
CallsHaveEnded == phase # "serving" => \A p \in Puts : put[p].pc = "idle"

Awaited == \A f \in flights : f.waiter \in Puts => put[f.waiter].pc = "awaiting"

Owing ==
  /\ phase = "drained" => owed \subseteq settled \cup InFlight \cup AtStartup
  /\ phase = "flushing" => owed \subseteq settled \cup InFlight
  /\ StartupIsFlushed

AtTheEnd == CallsHaveEnded /\ Awaited /\ Owing

\* What a flush takes of one buffer is in flight from then on.
LEMMA TakeMoves ==
  ASSUME TypeOK, NEW c \in 1..MaxCollectors, NEW parts, buffer[c] \subseteq parts, NEW who, Take(c, parts, who)
  PROVE  /\ InFlight' = InFlight \cup parts
         /\ AtStartup \subseteq AtStartup' \cup InFlight'
         /\ \A f \in flights' : f \in flights \/ f.waiter = who
<1>1. InFlight' = InFlight \cup parts
  <2>1. CASE parts = {}
    BY <2>1 DEF Take, InFlight
  <2>2. CASE parts # {}
    <3>1. flights' = flights \cup {[waiter |-> who, parts |-> parts]}
      BY <2>2 DEF Take
    <3> DEFINE taken == [waiter |-> who, parts |-> parts]
    <3>2. taken.parts = parts
      OBVIOUS
    <3> HIDE DEF taken
    <3>3. flights' = flights \cup {taken}
      BY <3>1 DEF taken
    <3> QED
      BY <3>2, <3>3 DEF InFlight
  <2> QED
    BY <2>1, <2>2
<1>2. AtStartup \subseteq AtStartup' \cup InFlight'
  <2>1. \A x : x \in buffer[1] => x \in buffer'[1] \/ x \in parts
    <3>1. CASE c = 1
      BY <3>1
    <3>2. CASE c # 1
      BY <3>2 DEF Take, TypeOK
    <3> QED
      BY <3>1, <3>2
  <2> QED
    BY <1>1, <2>1 DEF AtStartup
<1>3. \A f \in flights' : f \in flights \/ f.waiter = who
  BY DEF Take
<1> QED
  BY <1>1, <1>2, <1>3

\* A step that takes nothing back, while main has not returned.
LEMMA OwingKept ==
  ASSUME Owing, phase # "stopped", UNCHANGED <<phase, owed>>,
         settled \cup InFlight \subseteq settled' \cup InFlight',
         AtStartup \subseteq settled' \cup InFlight' \cup AtStartup'
  PROVE  Owing'
BY DEF Owing, StartupIsFlushed

\* A step that has nothing to do with the flushes.
LEMMA OwingStays ==
  ASSUME Owing, UNCHANGED <<Batches, owed, phase>>
  PROVE  Owing'
BY DEF Owing, StartupIsFlushed, Batches, InFlight, AtStartup

LEMMA AbandonedParts ==
  ASSUME TypeOK, NEW x, flights' = Abandoned(x)
  PROVE  InFlight' = InFlight
<1>1. \A f \in flights : [f EXCEPT !.waiter = "nobody"].parts = f.parts
  BY DEF TypeOK, Flight
<1>2. \A f \in flights : \E g \in flights' : g.parts = f.parts
  BY <1>1 DEF Abandoned
<1>3. \A g \in flights' : \E f \in flights : g.parts = f.parts
  BY <1>1 DEF Abandoned
<1> QED
  BY <1>2, <1>3 DEF InFlight

LEMMA AtTheEndInit == Init => AtTheEnd
<1> SUFFICES ASSUME Init PROVE AtTheEnd
  OBVIOUS
<1> QED
  BY DEF Init, AtTheEnd, CallsHaveEnded, Awaited, Owing, StartupIsFlushed

LEMMA AtTheEndNext == Types /\ AtTheEnd /\ [Next]_vars => AtTheEnd'
<1> SUFFICES ASSUME Types, AtTheEnd, [Next]_vars PROVE AtTheEnd'
  OBVIOUS
<1>t. /\ TypeOK /\ CallsHaveEnded /\ Awaited /\ Owing /\ put \in [Puts -> PutType]
      /\ current \in 0..Len(collectors) /\ Len(collectors) \in Nat /\ Len(collectors) <= MaxCollectors
      /\ DOMAIN collectors = 1..Len(collectors) /\ MaxCollectors \in Nat
      /\ flights \subseteq Flight /\ 1 \in 1..MaxCollectors
  BY BoundsAssumption DEF Types, TypeOK, AtTheEnd
\* A step of a call takes the call out of nowhere and leaves the flights alone.
<1>p. ASSUME NEW p \in Puts, NEW record, put' = [put EXCEPT ![p] = record],
             put[p].pc # "idle" \/ phase = "serving", put[p].pc # "awaiting",
             UNCHANGED <<Batches, owed, phase>>
      PROVE  AtTheEnd'
  <2>1. CallsHaveEnded'
    BY <1>p, <1>t DEF CallsHaveEnded
  <2>2. \A q \in Puts : q # p => put'[q] = put[q]
    BY <1>p, <1>t
  <2>3. flights' = flights
    BY <1>p DEF Batches
  <2>4. Awaited'
    BY <1>p, <1>t, <2>2, <2>3 DEF Awaited
  <2> QED
    BY <1>p, <1>t, <2>1, <2>4, OwingStays DEF AtTheEnd
\* A flush that takes a buffer, of a call or of the collector's own.
<1>f. ASSUME NEW c \in 1..MaxCollectors, NEW parts, buffer[c] \subseteq parts, NEW who,
             Take(c, parts, who), UNCHANGED <<phase, owed, settled>>, phase # "stopped",
             CallsHaveEnded', who \in Puts => put'[who].pc = "awaiting",
             \A q \in Puts : q # who => put'[q] = put[q]
      PROVE  AtTheEnd'
  <2>1. /\ InFlight' = InFlight \cup parts /\ AtStartup \subseteq AtStartup' \cup InFlight'
        /\ \A f \in flights' : f \in flights \/ f.waiter = who
    BY <1>f, <1>t, TakeMoves
  <2>2. Awaited'
    BY <1>f, <1>t, <2>1 DEF Awaited
  <2>3. settled \cup InFlight \subseteq settled' \cup InFlight'
    BY <1>f, <2>1
  <2>4. Owing'
    BY <1>f, <1>t, <2>1, <2>3, OwingKept
  <2> QED
    BY <1>f, <2>2, <2>4 DEF AtTheEnd
\* A step of others than the calls and the flushes.
<1>k. ASSUME UNCHANGED <<Batches, put, owed, phase>> PROVE AtTheEnd'
  <2>1. CallsHaveEnded' /\ flights' = flights
    BY <1>k, <1>t DEF CallsHaveEnded, Batches
  <2>2. Awaited'
    BY <1>k, <1>t, <2>1 DEF Awaited
  <2> QED
    BY <1>k, <1>t, <2>1, <2>2, OwingStays DEF AtTheEnd
<1>1. ASSUME NEW p \in Puts, NEW config \in {Disabled} \cup Settings, Begin(p, config)
      PROVE  AtTheEnd'
  <2>1. /\ put[p].pc = "idle" /\ phase = "serving" /\ UNCHANGED <<Batches, owed, phase>>
        /\ put' = [put EXCEPT ![p] = [NoPut EXCEPT !.pc = "reading", !.config = config]]
    BY <1>1 DEF Begin, Ghosts
  <2> QED
    BY <2>1, <1>p
<1>2. ASSUME NEW p \in Puts, TakeReadGuard(p) PROVE AtTheEnd'
  <2>1. put[p].pc = "reading" /\ UNCHANGED <<settled, owed, phase>> /\ phase = "serving"
    BY <1>2, <1>t DEF TakeReadGuard, Ghosts, CallsHaveEnded
  <2>2. CASE current = 0
    <3>1. /\ put' = [put EXCEPT ![p] = [put[p] EXCEPT !.pc = "building"]]
          /\ UNCHANGED <<Batches, owed, phase>>
      BY <1>2, <2>1, <2>2 DEF TakeReadGuard, Batches
    <3>2. \E record : put' = [put EXCEPT ![p] = record]
      BY <3>1
    <3> QED
      BY <2>1, <3>1, <3>2, <1>p
  <2>3. CASE current # 0
    <3>1. /\ put' = [put EXCEPT ![p].pc = "awaiting"] /\ Take(current, buffer[current], p)
          /\ current \in 1..MaxCollectors
      BY <1>2, <1>t, <2>3 DEF TakeReadGuard
    <3>2. put'[p].pc = "awaiting" /\ \A q \in Puts : q # p => put'[q] = put[q]
      BY <3>1, <1>t DEF PutType
    <3>3. CallsHaveEnded'
      BY <2>1 DEF CallsHaveEnded
    <3> QED
      BY <2>1, <3>1, <3>2, <3>3, <1>f
  <2> QED
    BY <2>2, <2>3
<1>3. ASSUME NEW p \in Puts, FlushOld(p) PROVE AtTheEnd'
  <2>1. /\ put[p].pc = "awaiting" /\ (\A f \in flights : f.waiter # p) /\ UNCHANGED <<Batches, owed, phase>>
        /\ put' = [put EXCEPT ![p].pc = "building"]
    BY <1>3 DEF FlushOld, Ghosts
  <2>2. phase = "serving" /\ CallsHaveEnded' /\ flights' = flights
    BY <2>1, <1>t DEF CallsHaveEnded, Batches
  <2>3. \A q \in Puts : q # p => put'[q] = put[q]
    BY <2>1, <1>t
  <2>4. Awaited'
    BY <2>1, <2>2, <2>3, <1>t DEF Awaited
  <2> QED
    BY <2>1, <2>2, <2>4, <1>t, OwingStays DEF AtTheEnd
<1>4. ASSUME NEW p \in Puts, Build(p) PROVE AtTheEnd'
  <2>1. put[p].pc = "building" /\ UNCHANGED <<Batches, owed, phase>>
    BY <1>4 DEF Build, Ghosts
  <2>2. \/ put' = [put EXCEPT ![p] = [put[p] EXCEPT !.pc = "setting"]]
        \/ put' = [put EXCEPT ![p] = [put[p] EXCEPT !.pc = "setting", !.built = Len(collectors) + 1]]
    BY <1>4 DEF Build
  <2> QED
    BY <2>1, <2>2, <1>p
<1>5. ASSUME NEW p \in Puts, SetSettings(p) \/ Queue(p) \/ SetCollector(p) \/ Saved(p) PROVE AtTheEnd'
  <2>1. put[p].pc \in {"setting", "queueing", "writing", "saving"} /\ UNCHANGED <<Batches, owed, phase>>
    BY <1>5 DEF SetSettings, Queue, SetCollector, Saved, Ghosts
  <2>2. \E record : put' = [put EXCEPT ![p] = record]
    BY <1>5 DEF SetSettings, Queue, SetCollector, Saved
  <2> QED
    BY <2>1, <2>2, <1>p
<1>6. ASSUME NEW p \in Puts, Dropped(p) PROVE AtTheEnd'
  <2>1. /\ put[p].pc # "idle" /\ put' = [put EXCEPT ![p] = NoPut] /\ flights' = Abandoned(p)
        /\ UNCHANGED <<buffer, settled, owed, phase>>
    BY <1>6 DEF Dropped
  <2>2. phase = "serving" /\ CallsHaveEnded'
    BY <2>1, <1>t DEF CallsHaveEnded
  <2>3. \A q \in Puts : q # p => put'[q] = put[q]
    BY <2>1, <1>t
  <2>4. \A f \in flights' : (f \in flights /\ f.waiter # p) \/ f.waiter = "nobody"
    BY <2>1, <1>t DEF Abandoned, Flight
  <2>5. Awaited'
    BY <2>3, <2>4, <1>t, CallersAssumption DEF Awaited
  <2>6. InFlight' = InFlight /\ AtStartup' = AtStartup
    BY <2>1, <1>t, AbandonedParts DEF AtStartup
  <2>7. Owing'
    BY <2>1, <2>2, <2>6, <1>t, OwingKept
  <2> QED
    BY <2>2, <2>5, <2>7 DEF AtTheEnd
<1>7. ASSUME NEW r \in Requests, Dispatch(r) \/ CloneCollector(r) \/ HangUp(r) \/ Send(r) PROVE AtTheEnd'
  <2>1. UNCHANGED <<Batches, put, owed, phase>>
    BY <1>7 DEF Dispatch, CloneCollector, HangUp, Send, Ghosts
  <2> QED
    BY <2>1, <1>k
<1>8. ASSUME NEW t \in adding, AddPart(t) PROVE AtTheEnd'
  <2> DEFINE parts == buffer[t.collector] \cup {<<t.event, t.part>>}
  <2>1. UNCHANGED <<settled, put, owed, phase>> /\ phase # "stopped"
    BY <1>8 DEF AddPart, Ghosts
  <2>6. \/ Take(t.collector, parts, "nobody")
        \/ buffer' = [buffer EXCEPT ![t.collector] = parts] /\ UNCHANGED flights
    BY <1>8 DEF AddPart
  <2>2. t.collector \in 1..MaxCollectors /\ buffer[t.collector] \subseteq parts
    <3>1. t.collector \in DOMAIN collectors
      BY <1>t DEF TypeOK
    <3> QED
      BY <3>1, <1>t
  <2>3. CallsHaveEnded'
    BY <2>1, <1>t DEF CallsHaveEnded
  <2> HIDE DEF parts
  <2>4. CASE Take(t.collector, parts, "nobody")
    BY <2>1, <2>2, <2>3, <2>4, <1>f, CallersAssumption
  <2>5. CASE buffer' = [buffer EXCEPT ![t.collector] = parts] /\ UNCHANGED flights
    <3>1. Awaited' /\ InFlight' = InFlight
      BY <2>1, <2>5, <1>t DEF Awaited, InFlight
    <3>2. AtStartup \subseteq AtStartup'
      BY <2>2, <2>5, <1>t DEF AtStartup, TypeOK
    <3>3. Owing'
      BY <2>1, <3>1, <3>2, <1>t, OwingKept
    <3> QED
      BY <2>3, <3>1, <3>3 DEF AtTheEnd
  <2> QED
    BY <2>4, <2>5, <2>6
<1>9. ASSUME NEW t \in adding, AddFails(t) PROVE AtTheEnd'
  <2>1. UNCHANGED <<buffer, flights, put, owed, phase>> /\ phase # "stopped" /\ settled \subseteq settled'
    BY <1>9 DEF AddFails, Ghosts
  <2>2. CallsHaveEnded' /\ Awaited' /\ InFlight' = InFlight /\ AtStartup' = AtStartup
    BY <2>1, <1>t DEF CallsHaveEnded, Awaited, InFlight, AtStartup
  <2>3. Owing'
    BY <2>1, <2>2, <1>t, OwingKept
  <2> QED
    BY <2>2, <2>3 DEF AtTheEnd
<1>10. ASSUME NEW c \in DOMAIN collectors, TimerFlush(c) PROVE AtTheEnd'
  <2>1. /\ UNCHANGED <<settled, put, owed, phase>> /\ phase # "stopped" /\ Take(c, buffer[c], "nobody")
    BY <1>10 DEF TimerFlush, Ghosts
  <2>2. c \in 1..MaxCollectors
    BY <1>t
  <2>3. CallsHaveEnded'
    BY <2>1, <1>t DEF CallsHaveEnded
  <2> QED
    BY <2>1, <2>2, <2>3, <1>f, CallersAssumption
<1>11. ASSUME NEW f \in flights, EndFlight(f) PROVE AtTheEnd'
  <2>1. /\ UNCHANGED <<buffer, put, owed, phase>> /\ phase # "stopped"
        /\ flights' = flights \ {f} /\ settled' = settled \cup f.parts
    BY <1>11 DEF EndFlight, Ghosts
  <2>2. CallsHaveEnded' /\ Awaited' /\ AtStartup' = AtStartup
    BY <2>1, <1>t DEF CallsHaveEnded, Awaited, AtStartup
  <2>3. InFlight \subseteq settled' \cup InFlight'
    BY <2>1 DEF InFlight
  <2>4. Owing'
    BY <2>1, <2>2, <2>3, <1>t, OwingKept
  <2> QED
    BY <2>2, <2>4 DEF AtTheEnd
<1>12. ASSUME Drained PROVE AtTheEnd'
  <2>1. /\ phase' = "drained" /\ owed' = AtStartup /\ (\A p \in Puts : put[p].pc = "idle")
        /\ UNCHANGED <<buffer, flights, settled, put>>
    BY <1>12 DEF Drained, Batches
  <2>2. CallsHaveEnded' /\ Awaited' /\ AtStartup' = AtStartup
    BY <2>1, <1>t DEF CallsHaveEnded, Awaited, AtStartup
  <2>3. Owing'
    BY <2>1, <2>2 DEF Owing, StartupIsFlushed
  <2> QED
    BY <2>2, <2>3 DEF AtTheEnd
<1>13. ASSUME ShutdownFlush PROVE AtTheEnd'
  <2>1. phase = "drained" /\ phase' = "flushing" /\ UNCHANGED <<settled, put, owed>>
    BY <1>13 DEF ShutdownFlush, Ghosts
  <2>2. CallsHaveEnded'
    BY <2>1, <1>t DEF CallsHaveEnded
  <2>3. CASE Initial = Disabled
    <3>1. UNCHANGED <<buffer, flights>> /\ AtStartup = {}
      BY <1>13, <2>3 DEF ShutdownFlush, AtStartup
    <3>2. Awaited' /\ InFlight' = InFlight
      BY <2>1, <3>1, <1>t DEF Awaited, InFlight
    <3>3. Owing'
      BY <2>1, <3>1, <3>2, <1>t DEF Owing, StartupIsFlushed
    <3> QED
      BY <2>2, <3>2, <3>3 DEF AtTheEnd
  <2>4. CASE Initial # Disabled
    <3>1. Take(1, buffer[1], "main") /\ AtStartup = buffer[1]
      BY <1>13, <2>4 DEF ShutdownFlush, AtStartup
    <3>2. InFlight' = InFlight \cup buffer[1] /\ \A f \in flights' : f \in flights \/ f.waiter = "main"
      BY <3>1, <1>t, TakeMoves
    <3>3. Awaited'
      BY <2>1, <3>2, <1>t, CallersAssumption DEF Awaited
    <3>4. Owing'
      BY <2>1, <3>1, <3>2, <1>t DEF Owing, StartupIsFlushed
    <3> QED
      BY <2>2, <3>3, <3>4 DEF AtTheEnd
  <2> QED
    BY <2>3, <2>4
<1>14. ASSUME Stop PROVE AtTheEnd'
  <2>1. /\ phase = "flushing" /\ phase' = "stopped" /\ (\A f \in flights : f.waiter # "main")
        /\ UNCHANGED <<buffer, flights, settled, put, owed>>
    BY <1>14 DEF Stop, Batches, Ghosts
  <2>2. CallsHaveEnded' /\ Awaited'
    BY <2>1, <1>t DEF CallsHaveEnded, Awaited
  <2>3. \A f \in flights : f.waiter = "nobody"
    BY <2>1, <1>t DEF CallsHaveEnded, Awaited, Flight
  <2>4. InFlight = UNION {f.parts : f \in {g \in flights : g.waiter = "nobody"}}
    BY <2>3 DEF InFlight
  <2>5. Owing'
    BY <2>1, <2>4, <1>t DEF Owing, StartupIsFlushed
  <2> QED
    BY <2>2, <2>5 DEF AtTheEnd
<1>15. CASE UNCHANGED vars
  <2>1. UNCHANGED <<Batches, put, owed, phase>>
    BY <1>15 DEF vars, Batches
  <2> QED
    BY <2>1, <1>k
<1> QED
  BY <1>1, <1>2, <1>3, <1>4, <1>5, <1>6, <1>7, <1>8, <1>9, <1>10, <1>11, <1>12, <1>13, <1>14,
     <1>15 DEF Next, Put

\* Whatever relay tasks and tasks of send go on doing while main flushes, and
\* whichever flushes of others are under way: what the collector of startup held
\* when the servers had ended is not left in it, nor in main's own flush, when main
\* returns (main.rs:193).
THEOREM TheStartupCollectorIsFlushed == Spec => []StartupIsFlushed
<1>1. AtTheEnd => StartupIsFlushed
  BY DEF AtTheEnd, Owing
<1> QED
  BY <1>1, TypesInit, TypesNext, AtTheEndInit, AtTheEndNext, PTL DEF Spec
-----------------------------------------------------------------------------
(***************************************************************************)
(* Where the parts are.  A step moves parts from one place to the next:    *)
(* from a task to a buffer, from a buffer to a flush, and from there or    *)
(* from a task to those that are settled.                                  *)
(***************************************************************************)
BuffersApart == \A c, d \in 1..MaxCollectors : c # d => buffer[c] \cap buffer[d] = {}
FlightsApart == \A f, g \in flights : f # g => f.parts \cap g.parts = {}
TasksApart == \A t, u \in adding : t # u => ToAdd(t) \cap ToAdd(u) = {}

\* The places are apart, and between them they hold the parts of all events sent.
Partition ==
  /\ settled \cup InFlight \cup InBuffers \cup Pending = (1..events) \X Parts
  /\ InFlight \cap settled = {}
  /\ InBuffers \cap (InFlight \cup settled) = {}
  /\ Pending \cap (InBuffers \cup InFlight \cup settled) = {}

LEMMA SentOnceParts == SentOnce <=> Partition /\ BuffersApart /\ FlightsApart /\ TasksApart
BY DEF SentOnce, Partition, BuffersApart, FlightsApart, TasksApart

\* The contents of one buffer are replaced by others that no other buffer holds.
LEMMA RefillMoves ==
  ASSUME TypeOK, BuffersApart, NEW c \in 1..MaxCollectors, NEW parts,
         parts \cap (InBuffers \ buffer[c]) = {}, buffer' = [buffer EXCEPT ![c] = parts]
  PROVE  InBuffers' = (InBuffers \ buffer[c]) \cup parts /\ BuffersApart'
<1>1. buffer'[c] = parts /\ \A d \in 1..MaxCollectors : d # c => buffer'[d] = buffer[d]
  BY DEF TypeOK
<1>2. \A d \in 1..MaxCollectors : d # c => buffer[d] \subseteq InBuffers \ buffer[c]
  BY DEF BuffersApart, InBuffers
<1>3. InBuffers' = (InBuffers \ buffer[c]) \cup parts
  <2>1. InBuffers' \subseteq (InBuffers \ buffer[c]) \cup parts
    BY <1>1, <1>2 DEF InBuffers
  <2>2. (InBuffers \ buffer[c]) \cup parts \subseteq InBuffers'
    BY <1>1 DEF InBuffers
  <2> QED
    BY <2>1, <2>2
<1>4. BuffersApart'
  <2> SUFFICES ASSUME NEW d \in 1..MaxCollectors, NEW e \in 1..MaxCollectors, d # e
               PROVE  buffer'[d] \cap buffer'[e] = {}
    BY DEF BuffersApart
  <2>1. CASE d = c
    BY <1>1, <1>2, <2>1
  <2>2. CASE e = c
    BY <1>1, <1>2, <2>2
  <2>3. CASE d # c /\ e # c
    BY <1>1, <2>3 DEF BuffersApart
  <2> QED
    BY <2>1, <2>2, <2>3
<1> QED
  BY <1>3, <1>4

\* A flush takes what is in a buffer, with what was just put there.
LEMMA TakeAccounts ==
  ASSUME TypeOK, SentOnce, NEW c \in 1..MaxCollectors, NEW more,
         more \cap (InBuffers \cup InFlight) = {}, NEW who, Take(c, buffer[c] \cup more, who)
  PROVE  /\ InBuffers' = InBuffers \ buffer[c] /\ BuffersApart'
         /\ InFlight' = InFlight \cup buffer[c] \cup more /\ FlightsApart'
         /\ buffer[c] \subseteq InBuffers
<1> DEFINE parts == buffer[c] \cup more
           taken == [waiter |-> who, parts |-> parts]
<1>1. buffer' = [buffer EXCEPT ![c] = {}]
  BY DEF Take
<1>2. InBuffers' = InBuffers \ buffer[c] /\ BuffersApart'
  BY <1>1, RefillMoves, SentOnceParts
<1>3. InFlight' = InFlight \cup parts
  BY TakeMoves
<1>4. buffer[c] \subseteq InBuffers
  BY DEF InBuffers
<1>5. parts \cap InFlight = {}
  BY <1>4 DEF SentOnce
<1>6. FlightsApart'
  <2>1. taken.parts = parts
    OBVIOUS
  <2>2. flights' = flights \/ flights' = flights \cup {taken}
    BY DEF Take
  <2>3. \A f \in flights : f.parts \cap parts = {}
    BY <1>5 DEF InFlight
  <2> HIDE DEF taken, parts
  <2> QED
    BY <2>1, <2>2, <2>3 DEF FlightsApart, SentOnce
<1> QED
  BY <1>2, <1>3, <1>4, <1>6

\* The task of a part goes on: the part is no longer pending.
LEMMA TaskMoves ==
  ASSUME TypeOK, TasksApart, NEW t \in adding, NextPart(t)
  PROVE  /\ <<t.event, t.part>> \in Pending /\ Pending' = Pending \ {<<t.event, t.part>>}
         /\ TasksApart' /\ events' = events
<1> DEFINE x == <<t.event, t.part>>
           u == [t EXCEPT !.part = "generation"]
<1>1. t \in [event : 1..MaxEvents, collector : DOMAIN collectors, part : Parts]
  BY DEF TypeOK
<1>2. x \in ToAdd(t)
  BY <1>1 DEF ToAdd, Parts
<1>3. \A s \in adding : s # t => ToAdd(s) \cap ToAdd(t) = {}
  BY DEF TasksApart
<1>4. /\ x \in Pending
      /\ \A s \in adding : s # t => x \notin ToAdd(s)
  BY <1>2, <1>3 DEF Pending
<1>5. CASE t.part = "trace"
  <2>1. u.event = t.event /\ u.part = "generation"
    BY <1>1
  <2>2. adding' = (adding \ {t}) \cup {u} /\ events' = events
    BY <1>5 DEF NextPart
  <2>3. ToAdd(u) = ToAdd(t) \ {x}
    BY <1>1, <1>5, <2>1 DEF ToAdd, Parts
  <2> HIDE DEF x, u
  <2>4. Pending' = Pending \ {x}
    <3>1. Pending' \subseteq Pending \ {x}
      BY <1>4, <2>2, <2>3 DEF Pending
    <3>2. Pending \ {x} \subseteq Pending'
      BY <2>2, <2>3 DEF Pending
    <3> QED
      BY <3>1, <3>2
  <2>5. TasksApart'
    BY <1>3, <2>2, <2>3 DEF TasksApart
  <2> QED
    BY <1>4, <2>2, <2>4, <2>5 DEF x
<1>6. CASE t.part # "trace"
  <2>1. adding' = adding \ {t} /\ events' = events
    BY <1>6 DEF NextPart
  <2>2. ToAdd(t) = {x}
    BY <1>1, <1>6 DEF ToAdd, Parts
  <2> HIDE DEF x
  <2>3. Pending' = Pending \ {x}
    BY <1>4, <2>1, <2>2 DEF Pending
  <2>4. TasksApart'
    BY <2>1 DEF TasksApart
  <2> QED
    BY <1>4, <2>1, <2>3, <2>4 DEF x
<1> QED
  BY <1>5, <1>6
LEMMA SentOnceInit == Init => SentOnce
<1> SUFFICES ASSUME Init PROVE SentOnce
  OBVIOUS
<1>1. InFlight = {} /\ InBuffers = {} /\ Pending = {} /\ settled = {} /\ (1..events) \X Parts = {}
  BY DEF Init, InFlight, InBuffers, Pending
<1> QED
  BY <1>1 DEF Init, SentOnce

LEMMA SentOnceNext == Types /\ SentOnce /\ [Next]_vars => SentOnce'
<1> SUFFICES ASSUME Types, SentOnce, [Next]_vars PROVE SentOnce'
  OBVIOUS
<1>t. /\ TypeOK /\ Partition /\ BuffersApart /\ FlightsApart /\ TasksApart
      /\ \A c \in DOMAIN collectors : c \in 1..MaxCollectors
      /\ current \in 0..Len(collectors) /\ Len(collectors) <= MaxCollectors /\ Len(collectors) \in Nat
      /\ 1 \in 1..MaxCollectors /\ MaxCollectors \in Nat
  BY SentOnceParts, BoundsAssumption DEF Types, TypeOK
<1>q. SentOnce' <=> Partition' /\ BuffersApart' /\ FlightsApart' /\ TasksApart'
  BY DEF SentOnce, Partition, BuffersApart, FlightsApart, TasksApart
<1>k. UNCHANGED <<Batches, Tasks>> => SentOnce'
  BY DEF Batches, Tasks, SentOnce, Pending, InBuffers, InFlight
\* A flush of one buffer, and of nothing else.
<1>f. ASSUME NEW c \in 1..MaxCollectors, NEW who, Take(c, buffer[c], who), UNCHANGED <<settled, Tasks>>
      PROVE  SentOnce'
  <2>1. /\ InBuffers' = InBuffers \ buffer[c] /\ BuffersApart'
        /\ InFlight' = InFlight \cup buffer[c] /\ FlightsApart' /\ buffer[c] \subseteq InBuffers
    <3>1. buffer[c] \cup {} = buffer[c] /\ InFlight \cup buffer[c] \cup {} = InFlight \cup buffer[c]
      OBVIOUS
    <3>2. Take(c, buffer[c] \cup {}, who)
      BY <1>f, <3>1
    <3> QED
      BY <3>1, <3>2, <1>t, TakeAccounts
  <2>2. Pending' = Pending /\ TasksApart' /\ UNCHANGED <<settled, events>>
    BY <1>f, <1>t DEF Tasks, Pending, TasksApart
  <2>3. Partition'
    BY <2>1, <2>2, <1>t DEF Partition
  <2> QED
    BY <2>1, <2>2, <2>3, <1>q
<1>1. ASSUME NEW p \in Puts, NEW config \in {Disabled} \cup Settings, Begin(p, config)
      PROVE  SentOnce'
  BY <1>1, <1>k DEF Begin
<1>2. ASSUME NEW p \in Puts, TakeReadGuard(p) PROVE SentOnce'
  <2>1. UNCHANGED <<settled, Tasks>>
    BY <1>2 DEF TakeReadGuard
  <2>2. CASE current = 0
    <3>1. UNCHANGED <<Batches, Tasks>>
      BY <1>2, <2>2 DEF TakeReadGuard, Batches
    <3> QED
      BY <3>1, <1>k
  <2>3. CASE current # 0
    <3>1. current \in 1..MaxCollectors /\ Take(current, buffer[current], p)
      BY <1>2, <1>t, <2>3 DEF TakeReadGuard
    <3> QED
      BY <2>1, <3>1, <1>f
  <2> QED
    BY <2>2, <2>3
<1>3. ASSUME NEW p \in Puts,
             FlushOld(p) \/ Build(p) \/ SetSettings(p) \/ Queue(p) \/ SetCollector(p) \/ Saved(p)
      PROVE  SentOnce'
  <2>1. UNCHANGED <<Batches, Tasks>>
    BY <1>3 DEF FlushOld, Build, SetSettings, Queue, SetCollector, Saved
  <2> QED
    BY <2>1, <1>k
<1>4. ASSUME NEW p \in Puts, Dropped(p) PROVE SentOnce'
  <2>1. flights' = Abandoned(p) /\ UNCHANGED <<buffer, settled, Tasks>>
    BY <1>4 DEF Dropped
  <2>2. InFlight' = InFlight
    BY <2>1, <1>t, AbandonedParts
  <2>3. FlightsApart'
    <3>1. \A g \in flights' : g \in flights \/ \E f \in flights : g = [f EXCEPT !.waiter = "nobody"]
      BY <2>1 DEF Abandoned
    <3>2. \A f \in flights : [f EXCEPT !.waiter = "nobody"].parts = f.parts
      BY <1>t DEF TypeOK, Flight
    <3>3. \A g \in flights' : \E f \in flights : g.parts = f.parts /\ (g = f \/ g = [f EXCEPT !.waiter = "nobody"])
                              /\ (g # f => f.waiter = p) /\ (f.waiter = p => g = [f EXCEPT !.waiter = "nobody"])
      <4> SUFFICES ASSUME NEW g \in flights'
                   PROVE  \E f \in flights : g.parts = f.parts /\ (g = f \/ g = [f EXCEPT !.waiter = "nobody"])
                              /\ (g # f => f.waiter = p) /\ (f.waiter = p => g = [f EXCEPT !.waiter = "nobody"])
        OBVIOUS
      <4>1. CASE g \in flights /\ g.waiter # p
        BY <4>1
      <4>2. CASE \E f \in flights : f.waiter = p /\ g = [f EXCEPT !.waiter = "nobody"]
        <5>1. PICK f \in flights : f.waiter = p /\ g = [f EXCEPT !.waiter = "nobody"]
          BY <4>2
        <5>2. g.parts = f.parts
          BY <3>2, <5>1
        <5> QED
          BY <5>1, <5>2
      <4> QED
        BY <2>1, <4>1, <4>2 DEF Abandoned
    <3> SUFFICES ASSUME NEW g \in flights', NEW h \in flights', g # h
                 PROVE  g.parts \cap h.parts = {}
      BY DEF FlightsApart
    <3>4. PICK f \in flights : g.parts = f.parts /\ (g = f \/ g = [f EXCEPT !.waiter = "nobody"])
                              /\ (g # f => f.waiter = p) /\ (f.waiter = p => g = [f EXCEPT !.waiter = "nobody"])
      BY <3>3
    <3>5. PICK e \in flights : h.parts = e.parts /\ (h = e \/ h = [e EXCEPT !.waiter = "nobody"])
                              /\ (h # e => e.waiter = p) /\ (e.waiter = p => h = [e EXCEPT !.waiter = "nobody"])
      BY <3>3
    <3>6. f # e
      BY <3>4, <3>5
    <3> QED
      BY <3>4, <3>5, <3>6, <1>t DEF FlightsApart
  <2>4. InBuffers' = InBuffers /\ BuffersApart' /\ Pending' = Pending /\ TasksApart' /\ UNCHANGED <<settled, events>>
    BY <2>1, <1>t DEF InBuffers, BuffersApart, Tasks, Pending, TasksApart
  <2>5. Partition'
    BY <2>2, <2>4, <1>t DEF Partition
  <2> QED
    BY <2>3, <2>4, <2>5, <1>q
<1>5. ASSUME NEW r \in Requests, Dispatch(r) \/ CloneCollector(r) \/ HangUp(r) PROVE SentOnce'
  <2>1. UNCHANGED <<Batches, Tasks>>
    BY <1>5 DEF Dispatch, CloneCollector, HangUp
  <2> QED
    BY <2>1, <1>k
<1>6. ASSUME NEW r \in Requests, Send(r) PROVE SentOnce'
  <2>1. UNCHANGED Batches
    BY <1>6 DEF Send
  <2>2. CASE UNCHANGED Tasks
    BY <2>1, <2>2, <1>k
  <2>3. CASE /\ req[r].collector # 0 /\ events < MaxEvents /\ events' = events + 1
             /\ adding' = adding \cup
                  {[event |-> events', collector |-> req[r].collector, part |-> "trace"]}
    <3> DEFINE task == [event |-> events + 1, collector |-> req[r].collector, part |-> "trace"]
               new == {events + 1} \X Parts
    <3>1. UNCHANGED <<buffer, flights, settled>> /\ events \in Nat
      BY <2>1, <1>t, BoundsAssumption DEF Batches, TypeOK
    <3>2. ToAdd(task) = new /\ adding' = adding \cup {task}
      BY <2>3 DEF ToAdd, Parts
    <3>3. (1..events') \X Parts = ((1..events) \X Parts) \cup new /\ new \cap ((1..events) \X Parts) = {}
      <4>1. 1..events' = (1..events) \cup {events + 1} /\ events + 1 \notin 1..events
        BY <2>3, <3>1
      <4> QED
        BY <4>1
    <3> HIDE DEF task, new
    <3>4. Pending' = Pending \cup new
      BY <3>2 DEF Pending
    <3>5. \A t \in adding : ToAdd(t) \subseteq Pending
      BY DEF Pending
    <3>6. Pending \cap new = {}
      BY <3>3, <1>t DEF Partition
    <3>7. TasksApart'
      BY <3>2, <3>5, <3>6, <1>t DEF TasksApart
    <3>8. InBuffers' = InBuffers /\ InFlight' = InFlight /\ BuffersApart' /\ FlightsApart'
      BY <3>1, <1>t DEF InBuffers, InFlight, BuffersApart, FlightsApart
    <3>9. Partition'
      <4>1. new \cap (settled \cup InFlight \cup InBuffers \cup Pending) = {}
        BY <3>3, <1>t DEF Partition
      <4>2. settled \cup InFlight \cup InBuffers \cup (Pending \cup new) = (1..events') \X Parts
        BY <3>3, <1>t DEF Partition
      <4> QED
        BY <3>1, <3>4, <3>8, <4>1, <4>2, <1>t DEF Partition
    <3> QED
      BY <3>7, <3>8, <3>9, <1>q
  <2> QED
    BY <1>6, <2>2, <2>3 DEF Send
<1>7. ASSUME NEW t \in adding, AddPart(t) PROVE SentOnce'
  <2> DEFINE x == <<t.event, t.part>>
             c == t.collector
  <2>1. c \in 1..MaxCollectors /\ settled' = settled /\ NextPart(t)
    <3>1. c \in DOMAIN collectors
      BY <1>t DEF TypeOK
    <3> QED
      BY <3>1, <1>7, <1>t DEF AddPart
  <2>2. x \in Pending /\ Pending' = Pending \ {x} /\ TasksApart' /\ events' = events
    BY <2>1, <1>t, TaskMoves
  <2>3. \/ Take(c, buffer[c] \cup {x}, "nobody")
        \/ buffer' = [buffer EXCEPT ![c] = buffer[c] \cup {x}] /\ UNCHANGED flights
    BY <1>7 DEF AddPart
  <2> HIDE DEF x, c
  <2>4. x \notin InBuffers \cup InFlight \cup settled
    BY <2>2, <1>t DEF Partition
  <2>5. CASE Take(c, buffer[c] \cup {x}, "nobody")
    <3>1. /\ InBuffers' = InBuffers \ buffer[c] /\ BuffersApart'
          /\ InFlight' = InFlight \cup buffer[c] \cup {x} /\ FlightsApart' /\ buffer[c] \subseteq InBuffers
      <4>1. {x} \cap (InBuffers \cup InFlight) = {}
        BY <2>4
      <4> QED
        BY <2>1, <2>5, <4>1, <1>t, TakeAccounts
    <3>2. Partition'
      BY <2>1, <2>2, <3>1, <1>t DEF Partition
    <3> QED
      BY <2>2, <3>1, <3>2, <1>q
  <2>6. CASE buffer' = [buffer EXCEPT ![c] = buffer[c] \cup {x}] /\ UNCHANGED flights
    <3>1. (buffer[c] \cup {x}) \cap (InBuffers \ buffer[c]) = {} /\ buffer[c] \subseteq InBuffers
      BY <2>1, <2>4 DEF InBuffers
    <3>2. InBuffers' = (InBuffers \ buffer[c]) \cup (buffer[c] \cup {x}) /\ BuffersApart'
      BY <2>1, <2>6, <3>1, <1>t, RefillMoves
    <3>3. InBuffers' = InBuffers \cup {x}
      BY <3>1, <3>2
    <3>4. InFlight' = InFlight /\ FlightsApart'
      BY <2>6, <1>t DEF InFlight, FlightsApart
    <3>5. Partition'
      BY <2>1, <2>2, <2>4, <3>3, <3>4, <1>t DEF Partition
    <3> QED
      BY <2>2, <3>2, <3>4, <3>5, <1>q
  <2> QED
    BY <2>3, <2>5, <2>6
<1>8. ASSUME NEW t \in adding, AddFails(t) PROVE SentOnce'
  <2> DEFINE x == <<t.event, t.part>>
  <2>1. UNCHANGED <<buffer, flights>> /\ settled' = settled \cup {x} /\ NextPart(t)
    BY <1>8 DEF AddFails
  <2>2. x \in Pending /\ Pending' = Pending \ {x} /\ TasksApart' /\ events' = events
    BY <2>1, <1>t, TaskMoves
  <2> HIDE DEF x
  <2>3. InBuffers' = InBuffers /\ InFlight' = InFlight /\ BuffersApart' /\ FlightsApart'
    BY <2>1, <1>t DEF InBuffers, InFlight, BuffersApart, FlightsApart
  <2>4. Partition'
    BY <2>1, <2>2, <2>3, <1>t DEF Partition
  <2> QED
    BY <2>2, <2>3, <2>4, <1>q
<1>9. ASSUME NEW c \in DOMAIN collectors, TimerFlush(c) PROVE SentOnce'
  <2>1. Take(c, buffer[c], "nobody") /\ UNCHANGED <<settled, Tasks>> /\ c \in 1..MaxCollectors
    BY <1>9, <1>t DEF TimerFlush
  <2> QED
    BY <2>1, <1>f
<1>10. ASSUME NEW f \in flights, EndFlight(f) PROVE SentOnce'
  <2>1. flights' = flights \ {f} /\ settled' = settled \cup f.parts /\ UNCHANGED <<buffer, Tasks>>
    BY <1>10 DEF EndFlight
  <2>2. \A g \in flights : g # f => g.parts \cap f.parts = {}
    BY <1>t DEF FlightsApart
  <2>3. InFlight' = InFlight \ f.parts /\ f.parts \subseteq InFlight /\ FlightsApart'
    BY <2>1, <2>2, <1>t DEF InFlight, FlightsApart
  <2>4. InBuffers' = InBuffers /\ BuffersApart' /\ Pending' = Pending /\ TasksApart' /\ events' = events
    BY <2>1, <1>t DEF InBuffers, BuffersApart, Tasks, Pending, TasksApart
  <2>5. Partition'
    BY <2>1, <2>3, <2>4, <1>t DEF Partition
  <2> QED
    BY <2>3, <2>4, <2>5, <1>q
<1>11. ASSUME Drained \/ Stop PROVE SentOnce'
  <2>1. UNCHANGED <<Batches, Tasks>>
    BY <1>11 DEF Drained, Stop
  <2> QED
    BY <2>1, <1>k
<1>12. ASSUME ShutdownFlush PROVE SentOnce'
  <2>1. UNCHANGED <<settled, Tasks>>
    BY <1>12 DEF ShutdownFlush
  <2>2. CASE Initial = Disabled
    <3>1. UNCHANGED <<Batches, Tasks>>
      BY <1>12, <2>1, <2>2 DEF ShutdownFlush, Batches
    <3> QED
      BY <3>1, <1>k
  <2>3. CASE Initial # Disabled
    BY <1>12, <2>1, <2>3, <1>t, <1>f DEF ShutdownFlush
  <2> QED
    BY <2>2, <2>3
<1>13. CASE UNCHANGED vars
  <2>1. UNCHANGED <<Batches, Tasks>>
    BY <1>13 DEF vars, Batches, Tasks
  <2> QED
    BY <2>1, <1>k
<1> QED
  BY <1>1, <1>2, <1>3, <1>4, <1>5, <1>6, <1>7, <1>8, <1>9, <1>10, <1>11, <1>12, <1>13 DEF Next, Put

\* For any calls, requests and batch sizes, a part of an event that was sent is in
\* one place at a time, and always in one: with a task, in a buffer, in a flush, or
\* settled.  Flushes of one collector may overlap, tasks add while it is flushed, the
\* batcher may refuse a part, and a call may be dropped while it awaits its flush
\* (send, flush_loop and shutdown).
THEOREM PartsAreSentOnce == Spec => []SentOnce
BY TypesInit, TypesNext, SentOnceInit, SentOnceNext, PTL DEF Spec
-----------------------------------------------------------------------------
(***************************************************************************)
(* The safety half of NobodyStarves: the lock of the collector has a true  *)
(* queue, which moves.  A caller that was dropped is not left in it, and a *)
(* guard is held by a call that flushes and by no other.                   *)
(***************************************************************************)
Callers == Puts \cup Requests

Waits(x) ==
  \/ x \in Puts /\ put[x].pc \in {"reading", "writing"}
  \/ x \in Requests /\ req[x].pc = "dispatching"

In(x, w) == \E i \in DOMAIN w : w[i] = x
Once(w) == \A i, j \in DOMAIN w : w[i] = w[j] => i = j

\* Who is still in the queue is at the place it had or nearer to the front.
Forward(w, v) == \A i \in DOMAIN w : In(w[i], v) => \E j \in DOMAIN v : j <= i /\ v[j] = w[i]

LockIsTrue ==
  /\ readers = {p \in Puts : put[p].pc = "awaiting"}
  /\ \A x \in Callers : Waits(x) <=> In(x, waiting)
  /\ Once(waiting)

\* The first of the queue takes the lock at once, unless it is a writer and a call
\* flushes under the read guard.
HeadGoes ==
  waiting # <<>> =>
    LET x == Head(waiting) IN
    \/ x \in Requests /\ req[x].pc = "dispatching"
    \/ x \in Puts /\ put[x].pc = "reading"
    \/ x \in Puts /\ put[x].pc = "writing"
       /\ (readers = {} \/ \E p \in Puts : put[p].pc = "awaiting")

\* One that comes goes to the end.
LEMMA ComesLast ==
  ASSUME NEW S, NEW w \in Seq(S), NEW x \in S, ~In(x, w), Once(w)
  PROVE  /\ \A y \in S : In(y, Append(w, x)) <=> In(y, w) \/ y = x
         /\ Once(Append(w, x)) /\ Forward(w, Append(w, x))
<1> DEFINE v == Append(w, x)
<1>1. /\ DOMAIN v = 1..Len(w) + 1 /\ DOMAIN w = 1..Len(w) /\ Len(w) \in Nat
      /\ \A i \in 1..Len(w) : v[i] = w[i]
      /\ v[Len(w) + 1] = x
  OBVIOUS
<1> HIDE DEF v
<1>2. \A i \in DOMAIN v : i \in DOMAIN w \/ i = Len(w) + 1
  BY <1>1
<1>3. /\ \A i \in DOMAIN w : i \in DOMAIN v /\ v[i] = w[i] /\ w[i] # x /\ i <= i
      /\ Len(w) + 1 \in DOMAIN v
  BY <1>1 DEF In
<1>4. \A y \in S : In(y, v) <=> In(y, w) \/ y = x
  BY <1>1, <1>2, <1>3 DEF In
<1>5. Once(v)
  BY <1>1, <1>2, <1>3 DEF Once
<1>6. Forward(w, v)
  BY <1>3 DEF Forward
<1> QED
  BY <1>4, <1>5, <1>6 DEF v

\* One goes, from wherever it is, and those behind it move up.
LEMMA OneGoes ==
  ASSUME NEW S, NEW w \in Seq(S), NEW k \in 1..Len(w), Once(w), NEW v \in Seq(S),
         Len(v) = Len(w) - 1,
         \A j \in 1..Len(v) : v[j] = IF j < k THEN w[j] ELSE w[j + 1]
  PROVE  /\ \A y \in S : In(y, v) <=> In(y, w) /\ y # w[k]
         /\ Once(v) /\ Forward(w, v)
<1>1. /\ DOMAIN v = 1..Len(w) - 1 /\ DOMAIN w = 1..Len(w) /\ Len(w) \in Nat
      /\ \A j \in DOMAIN v : v[j] = IF j < k THEN w[j] ELSE w[j + 1]
  OBVIOUS
<1> DEFINE from(j) == IF j < k THEN j ELSE j + 1
           to(i) == IF i < k THEN i ELSE i - 1
<1>2. \A j \in DOMAIN v : from(j) \in DOMAIN w /\ from(j) # k /\ v[j] = w[from(j)]
  BY <1>1
<1>3. \A i \in DOMAIN w : i # k => to(i) \in DOMAIN v /\ to(i) <= i /\ from(to(i)) = i
  BY <1>1
<1>4. \A i, j \in DOMAIN v : from(i) = from(j) => i = j
  BY <1>1
<1>5. k \in DOMAIN w
  BY <1>1
<1> HIDE DEF from, to
<1>6. \A i \in DOMAIN w : i # k => to(i) \in DOMAIN v /\ to(i) <= i /\ v[to(i)] = w[i]
  BY <1>2, <1>3
<1>7. \A i \in DOMAIN w : w[i] = w[k] => i = k
  BY <1>5 DEF Once
<1>8. ASSUME NEW y \in S PROVE In(y, v) <=> In(y, w) /\ y # w[k]
  <2>1. In(y, v) => In(y, w) /\ y # w[k]
    BY <1>2, <1>7 DEF In
  <2>2. In(y, w) /\ y # w[k] => In(y, v)
    BY <1>6 DEF In
  <2> QED
    BY <2>1, <2>2
<1>9. Once(v)
  BY <1>2, <1>4 DEF Once
<1>10. Forward(w, v)
  <2>1. ~In(w[k], v)
    BY <1>2, <1>7 DEF In
  <2> QED
    BY <1>6, <2>1 DEF Forward
<1> QED
  BY <1>8, <1>9, <1>10

LEMMA FirstGoes ==
  ASSUME NEW S, NEW w \in Seq(S), w # <<>>, Once(w)
  PROVE  /\ \A y \in S : In(y, Tail(w)) <=> In(y, w) /\ y # Head(w)
         /\ Once(Tail(w)) /\ Forward(w, Tail(w))
<1> DEFINE v == Tail(w)
<1>1. /\ v \in Seq(S) /\ Len(v) = Len(w) - 1 /\ 1 \in 1..Len(w) /\ Head(w) = w[1]
      /\ Len(w) \in Nat /\ \A j \in 1..Len(w) - 1 : v[j] = w[j + 1]
  OBVIOUS
<1> HIDE DEF v
<1>2. \A j \in 1..Len(v) : v[j] = IF j < 1 THEN w[j] ELSE w[j + 1]
  BY <1>1
<1>3. /\ \A y \in S : In(y, v) <=> In(y, w) /\ y # w[1]
      /\ Once(v) /\ Forward(w, v)
  BY <1>1, <1>2, OneGoes
<1> QED
  BY <1>1, <1>3 DEF v

LEMMA OneLeaves ==
  ASSUME NEW S, NEW w \in Seq(S), NEW k \in DOMAIN w, Once(w)
  PROVE  LET v == SubSeq(w, 1, k - 1) \o SubSeq(w, k + 1, Len(w)) IN
         /\ \A y \in S : In(y, v) <=> In(y, w) /\ y # w[k]
         /\ Once(v) /\ Forward(w, v)
<1> DEFINE a == SubSeq(w, 1, k - 1)
           b == SubSeq(w, k + 1, Len(w))
           v == a \o b
<1>1. k \in 1..Len(w) /\ Len(w) \in Nat /\ \A i \in 1..Len(w) : w[i] \in S
  OBVIOUS
<1>2. /\ a \in Seq(S) /\ Len(a) = k - 1
      /\ \A i \in 1..k - 1 : a[i] = w[i]
  BY <1>1
<1>3. /\ b \in Seq(S) /\ Len(b) = Len(w) - k
      /\ \A i \in 1..Len(w) - k : b[i] = w[k + i]
  BY <1>1
<1> HIDE DEF a, b
<1>4. /\ v \in Seq(S) /\ Len(v) = Len(w) - 1
      /\ \A j \in 1..Len(v) : v[j] = IF j <= Len(a) THEN a[j] ELSE b[j - Len(a)]
  BY <1>1, <1>2, <1>3
<1> HIDE DEF v
<1>5. ASSUME NEW j \in 1..Len(v) PROVE v[j] = IF j < k THEN w[j] ELSE w[j + 1]
  <2>1. CASE j < k
    BY <1>1, <1>2, <1>4, <2>1
  <2>2. CASE ~(j < k)
    <3>1. j - Len(a) = j - (k - 1) /\ j - (k - 1) \in 1..Len(w) - k /\ k + (j - (k - 1)) = j + 1
          /\ ~(j <= Len(a))
      BY <1>1, <1>2, <1>4, <2>2
    <3>2. v[j] = b[j - (k - 1)]
      BY <1>4, <3>1
    <3> QED
      BY <1>3, <2>2, <3>1, <3>2
  <2> QED
    BY <2>1, <2>2
<1>6. /\ \A y \in S : In(y, v) <=> In(y, w) /\ y # w[k]
      /\ Once(v) /\ Forward(w, v)
  BY <1>1, <1>4, <1>5, OneGoes
<1> QED
  BY <1>6 DEF v, a, b

\* What a step does to the queue, the guards and those who wait, put together.
LEMMA QueueComes ==
  ASSUME waiting \in Seq(Callers), LockIsTrue, NEW x \in Callers, ~Waits(x),
         waiting' = Append(waiting, x),
         readers' = {p \in Puts : put'[p].pc = "awaiting"},
         \A y \in Callers : Waits(y)' <=> Waits(y) \/ y = x
  PROVE  LockIsTrue' /\ Forward(waiting, waiting')
<1>1. /\ \A y \in Callers : In(y, waiting') <=> In(y, waiting) \/ y = x
      /\ Once(waiting') /\ Forward(waiting, waiting')
  BY ComesLast DEF LockIsTrue
<1> QED
  BY <1>1 DEF LockIsTrue

LEMMA QueueGoes ==
  ASSUME waiting \in Seq(Callers), LockIsTrue, NEW x \in Callers,
         \/ waiting # <<>> /\ x = Head(waiting) /\ waiting' = Tail(waiting)
         \/ \E k \in DOMAIN waiting :
              waiting[k] = x /\ waiting' = SubSeq(waiting, 1, k - 1) \o SubSeq(waiting, k + 1, Len(waiting)),
         readers' = {p \in Puts : put'[p].pc = "awaiting"},
         \A y \in Callers : Waits(y)' <=> Waits(y) /\ y # x
  PROVE  LockIsTrue' /\ Forward(waiting, waiting')
<1>1. Once(waiting)
  BY DEF LockIsTrue
<1>2. /\ \A y \in Callers : In(y, waiting') <=> In(y, waiting) /\ y # x
      /\ Once(waiting') /\ Forward(waiting, waiting')
  <2>1. CASE waiting # <<>> /\ x = Head(waiting) /\ waiting' = Tail(waiting)
    BY <1>1, <2>1, FirstGoes
  <2>2. ASSUME NEW k \in DOMAIN waiting, waiting[k] = x,
               waiting' = SubSeq(waiting, 1, k - 1) \o SubSeq(waiting, k + 1, Len(waiting))
        PROVE  /\ \A y \in Callers : In(y, waiting') <=> In(y, waiting) /\ y # x
               /\ Once(waiting') /\ Forward(waiting, waiting')
    BY <1>1, <2>2, OneLeaves
  <2> QED
    BY <2>1, <2>2
<1> QED
  BY <1>2 DEF LockIsTrue

LEMMA QueueStays ==
  ASSUME waiting \in Seq(Callers), LockIsTrue, waiting' = waiting,
         readers' = {p \in Puts : put'[p].pc = "awaiting"},
         \A y \in Callers : Waits(y)' <=> Waits(y)
  PROVE  LockIsTrue' /\ Forward(waiting, waiting')
<1>1. Forward(waiting, waiting)
  <2>1. \A i \in DOMAIN waiting : i <= i
    OBVIOUS
  <2> QED
    BY <2>1 DEF Forward
<1> QED
  BY <1>1 DEF LockIsTrue

LEMMA QueueNext ==
  Types /\ LockIsTrue /\ [Next]_vars => LockIsTrue' /\ Forward(waiting, waiting')
<1> SUFFICES ASSUME Types, LockIsTrue, [Next]_vars
             PROVE  LockIsTrue' /\ Forward(waiting, waiting')
  OBVIOUS
<1> DEFINE Done == LockIsTrue' /\ Forward(waiting, waiting')
<1>t. /\ waiting \in Seq(Callers)
      /\ put \in [Puts -> PutType] /\ req \in [Requests -> RequestType]
      /\ readers = {p \in Puts : put[p].pc = "awaiting"}
      /\ Puts \cap Requests = {}
  BY CallersAssumption DEF Types, TypeOK, LockIsTrue, Callers
<1>k. UNCHANGED <<waiting, readers, put, req>> => Done
  BY <1>t, QueueStays DEF Waits
<1> HIDE DEF Done
\* A step of one admin call moves that call from one place to another.
<1>p. ASSUME NEW p \in Puts, NEW pc, req' = req,
             put' = [put EXCEPT ![p] = put'[p]], put'[p].pc = pc
      PROVE  /\ \A y \in Callers : y # p => (Waits(y)' <=> Waits(y))
             /\ Waits(p)' <=> pc \in {"reading", "writing"}
             /\ p \in Callers /\ p \notin Requests
             /\ pc # "awaiting" => {q \in Puts : put'[q].pc = "awaiting"} = readers \ {p}
             /\ pc = "awaiting" => {q \in Puts : put'[q].pc = "awaiting"} = readers \cup {p}
  <2>1. \A q \in Puts : q # p => put'[q] = put[q]
    BY <1>p, <1>t
  <2>2. p \in Callers /\ p \notin Requests
    BY <1>t DEF Callers
  <2>3. \A y \in Callers : y # p => (Waits(y)' <=> Waits(y))
    BY <1>p, <2>1 DEF Waits
  <2>4. Waits(p)' <=> pc \in {"reading", "writing"}
    BY <1>p, <2>2 DEF Waits
  <2> QED
    BY <1>p, <1>t, <2>1, <2>2, <2>3, <2>4
<1>1. ASSUME NEW p \in Puts, NEW config \in {Disabled} \cup Settings, Begin(p, config) PROVE Done
  <2>1. /\ put'[p].pc = "reading" /\ put' = [put EXCEPT ![p] = put'[p]] /\ put[p].pc = "idle"
        /\ UNCHANGED <<readers, req>> /\ waiting' = Append(waiting, p)
    BY <1>1, <1>t DEF Begin, NoPut
  <2>2. ~Waits(p) /\ p \notin readers
    BY <2>1, <1>t DEF Waits
  <2>3. /\ \A y \in Callers : Waits(y)' <=> Waits(y) \/ y = p
        /\ readers' = {q \in Puts : put'[q].pc = "awaiting"} /\ p \in Callers
    BY <2>1, <2>2, <1>p
  <2> QED
    BY <1>t, <2>1, <2>2, <2>3, QueueComes DEF Done
<1>2. ASSUME NEW p \in Puts, TakeReadGuard(p) PROVE Done
  <2>1. /\ put' = [put EXCEPT ![p] = put'[p]] /\ put[p].pc = "reading" /\ req' = req
        /\ waiting # <<>> /\ p = Head(waiting) /\ waiting' = Tail(waiting)
        /\ \/ put'[p].pc = "building" /\ readers' = readers
           \/ put'[p].pc = "awaiting" /\ readers' = readers \cup {p}
    <3>1. /\ put[p].pc = "reading" /\ req' = req
          /\ waiting # <<>> /\ p = Head(waiting) /\ waiting' = Tail(waiting)
      BY <1>2 DEF TakeReadGuard
    <3>2. \/ put' = [put EXCEPT ![p].pc = "building"] /\ readers' = readers
          \/ put' = [put EXCEPT ![p].pc = "awaiting"] /\ readers' = readers \cup {p}
      BY <1>2 DEF TakeReadGuard
    <3>3. ASSUME NEW pc, put' = [put EXCEPT ![p].pc = pc]
          PROVE  put'[p].pc = pc /\ put' = [put EXCEPT ![p] = put'[p]]
      BY <1>t, <3>3 DEF PutType
    <3> QED
      BY <3>1, <3>2, <3>3
  <2>2. p \notin readers
    BY <2>1, <1>t
  <2>3. /\ \A y \in Callers : Waits(y)' <=> Waits(y) /\ y # p
        /\ readers' = {q \in Puts : put'[q].pc = "awaiting"} /\ p \in Callers
    BY <2>1, <2>2, <1>p
  <2> QED
    BY <1>t, <2>1, <2>3, QueueGoes DEF Done
<1>3. ASSUME NEW p \in Puts, FlushOld(p) PROVE Done
  <2>1. /\ put' = [put EXCEPT ![p] = put'[p]] /\ put'[p].pc = "building" /\ req' = req
        /\ readers' = readers \ {p} /\ waiting' = waiting /\ put[p].pc = "awaiting"
    BY <1>3, <1>t DEF FlushOld
  <2>2. ~Waits(p)
    BY <2>1, <1>t DEF Waits
  <2>3. /\ \A y \in Callers : Waits(y)' <=> Waits(y)
        /\ readers' = {q \in Puts : put'[q].pc = "awaiting"}
    BY <2>1, <2>2, <1>p
  <2> QED
    BY <1>t, <2>1, <2>3, QueueStays DEF Done
<1>4. ASSUME NEW p \in Puts, Build(p) \/ SetSettings(p) \/ Saved(p) PROVE Done
  <2>1. put[p].pc \in {"building", "setting", "saving"} /\ UNCHANGED <<Lock, req>>
    BY <1>4 DEF Build, SetSettings, Saved
  <2>2. \/ put' = [put EXCEPT ![p].pc = "setting"]
        \/ put' = [put EXCEPT ![p].pc = "setting", ![p].built = Len(collectors) + 1]
        \/ put' = [put EXCEPT ![p].pc = "queueing"]
        \/ put' = [put EXCEPT ![p] = NoPut]
    BY <1>4 DEF Build, SetSettings, Saved
  <2>3. put' = [put EXCEPT ![p] = put'[p]] /\ put'[p].pc \in {"setting", "queueing", "idle"}
    BY <2>2, <1>t DEF PutType, NoPut
  <2>4. readers' = readers /\ waiting' = waiting /\ req' = req
    BY <2>1 DEF Lock
  <2>5. ~Waits(p) /\ p \notin readers
    BY <2>1, <1>t DEF Waits
  <2>6. /\ \A y \in Callers : Waits(y)' <=> Waits(y)
        /\ readers' = {q \in Puts : put'[q].pc = "awaiting"}
    BY <2>3, <2>4, <2>5, <1>p
  <2> QED
    BY <1>t, <2>4, <2>6, QueueStays DEF Done
<1>5. ASSUME NEW p \in Puts, Queue(p) PROVE Done
  <2>1. /\ put'[p].pc = "writing" /\ put' = [put EXCEPT ![p] = put'[p]] /\ put[p].pc = "queueing"
        /\ UNCHANGED <<readers, req>> /\ waiting' = Append(waiting, p)
    BY <1>5, <1>t DEF Queue
  <2>2. ~Waits(p) /\ p \notin readers
    BY <2>1, <1>t DEF Waits
  <2>3. /\ \A y \in Callers : Waits(y)' <=> Waits(y) \/ y = p
        /\ readers' = {q \in Puts : put'[q].pc = "awaiting"} /\ p \in Callers
    BY <2>1, <2>2, <1>p
  <2> QED
    BY <1>t, <2>1, <2>2, <2>3, QueueComes DEF Done
<1>6. ASSUME NEW p \in Puts, SetCollector(p) PROVE Done
  <2>1. /\ put' = [put EXCEPT ![p] = put'[p]] /\ put[p].pc = "writing" /\ put'[p].pc = "saving"
        /\ req' = req /\ waiting # <<>> /\ p = Head(waiting) /\ waiting' = Tail(waiting)
        /\ readers' = readers
    BY <1>6, <1>t DEF SetCollector, NoPut
  <2>2. p \notin readers
    BY <2>1, <1>t
  <2>3. /\ \A y \in Callers : Waits(y)' <=> Waits(y) /\ y # p
        /\ readers' = {q \in Puts : put'[q].pc = "awaiting"} /\ p \in Callers
    BY <2>1, <2>2, <1>p
  <2> QED
    BY <1>t, <2>1, <2>3, QueueGoes DEF Done
<1>7. ASSUME NEW p \in Puts, Dropped(p) PROVE Done
  <2>1. /\ put' = [put EXCEPT ![p] = put'[p]] /\ put'[p].pc = "idle" /\ req' = req
        /\ readers' = readers \ {p}
    BY <1>7, <1>t DEF Dropped, NoPut
  <2>2. /\ \A y \in Callers : Waits(y)' <=> Waits(y) /\ y # p
        /\ readers' = {q \in Puts : put'[q].pc = "awaiting"} /\ p \in Callers
    BY <2>1, <1>p
  <2>3. CASE (\A k \in DOMAIN waiting : waiting[k] # p) /\ waiting' = waiting
    <3>1. ~Waits(p)
      BY <2>2, <2>3 DEF LockIsTrue, In
    <3>2. \A y \in Callers : Waits(y)' <=> Waits(y)
      BY <2>2, <3>1
    <3> QED
      BY <1>t, <2>2, <2>3, <3>2, QueueStays DEF Done
  <2>4. CASE \E k \in DOMAIN waiting :
               waiting[k] = p /\ waiting' = SubSeq(waiting, 1, k - 1) \o SubSeq(waiting, k + 1, Len(waiting))
    BY <1>t, <2>2, <2>4, QueueGoes DEF Done
  <2> QED
    BY <1>7, <2>3, <2>4 DEF Dropped, LeaveQueue
\* A step of one request, likewise.
<1>r. ASSUME NEW r \in Requests, put' = put, req' = [req EXCEPT ![r] = req'[r]]
      PROVE  /\ \A y \in Callers : y # r => (Waits(y)' <=> Waits(y))
             /\ Waits(r)' <=> req'[r].pc = "dispatching"
             /\ Waits(r) <=> req[r].pc = "dispatching"
             /\ r \in Callers
             /\ {q \in Puts : put'[q].pc = "awaiting"} = readers
  <2>1. \A q \in Requests : q # r => req'[q] = req[q]
    BY <1>r, <1>t
  <2>2. r \in Callers /\ r \notin Puts
    BY <1>t DEF Callers
  <2> QED
    BY <1>r, <1>t, <2>1, <2>2 DEF Waits
<1>8. ASSUME NEW r \in Requests, Dispatch(r) PROVE Done
  <2>1. /\ req' = [req EXCEPT ![r] = req'[r]] /\ req'[r].pc = "dispatching" /\ put' = put
        /\ req[r].pc = "idle" /\ readers' = readers /\ waiting' = Append(waiting, r)
    BY <1>8, <1>t DEF Dispatch, RequestType
  <2>2. ~Waits(r) /\ r \in Callers
    BY <2>1, <1>r
  <2>3. /\ \A y \in Callers : Waits(y)' <=> Waits(y) \/ y = r
        /\ readers' = {q \in Puts : put'[q].pc = "awaiting"}
    BY <2>1, <2>2, <1>r
  <2> QED
    BY <1>t, <2>1, <2>2, <2>3, QueueComes DEF Done
<1>9. ASSUME NEW r \in Requests, CloneCollector(r) PROVE Done
  <2>1. /\ req' = [req EXCEPT ![r] = req'[r]] /\ req'[r].pc = "proxying" /\ put' = put
        /\ readers' = readers /\ waiting # <<>> /\ r = Head(waiting) /\ waiting' = Tail(waiting)
    BY <1>9, <1>t DEF CloneCollector
  <2>2. /\ \A y \in Callers : Waits(y)' <=> Waits(y) /\ y # r
        /\ readers' = {q \in Puts : put'[q].pc = "awaiting"} /\ r \in Callers
    BY <2>1, <1>r
  <2> QED
    BY <1>t, <2>1, <2>2, QueueGoes DEF Done
<1>10. ASSUME NEW r \in Requests, Send(r) PROVE Done
  <2>1. /\ req' = [req EXCEPT ![r] = req'[r]] /\ req'[r].pc = "idle" /\ put' = put
        /\ req[r].pc # "dispatching" /\ readers' = readers /\ waiting' = waiting
    BY <1>10, <1>t DEF Send, Lock, NoRequest
  <2>2. /\ \A y \in Callers : Waits(y)' <=> Waits(y)
        /\ readers' = {q \in Puts : put'[q].pc = "awaiting"}
    BY <2>1, <1>r
  <2> QED
    BY <1>t, <2>1, <2>2, QueueStays DEF Done
<1>11. ASSUME NEW r \in Requests, HangUp(r) PROVE Done
  <2>1. /\ req' = [req EXCEPT ![r] = req'[r]] /\ req'[r].pc # "dispatching" /\ put' = put
        /\ readers' = readers
    <3>1. req' = [req EXCEPT ![r] = NoRequest] \/ req' = [req EXCEPT ![r].pc = "detached"]
      BY <1>11 DEF HangUp
    <3>2. req' = [req EXCEPT ![r] = req'[r]] /\ req'[r].pc # "dispatching"
      BY <3>1, <1>t DEF NoRequest, RequestType
    <3> QED
      BY <1>11, <3>2 DEF HangUp
  <2>2. /\ \A y \in Callers : Waits(y)' <=> Waits(y) /\ y # r
        /\ readers' = {q \in Puts : put'[q].pc = "awaiting"} /\ r \in Callers
    BY <2>1, <1>r
  <2>3. CASE (\A k \in DOMAIN waiting : waiting[k] # r) /\ waiting' = waiting
    <3>1. ~Waits(r)
      BY <2>2, <2>3 DEF LockIsTrue, In
    <3>2. \A y \in Callers : Waits(y)' <=> Waits(y)
      BY <2>2, <3>1
    <3> QED
      BY <1>t, <2>2, <2>3, <3>2, QueueStays DEF Done
  <2>4. CASE \E k \in DOMAIN waiting :
               waiting[k] = r /\ waiting' = SubSeq(waiting, 1, k - 1) \o SubSeq(waiting, k + 1, Len(waiting))
    BY <1>t, <2>2, <2>4, QueueGoes DEF Done
  <2> QED
    BY <1>11, <2>3, <2>4 DEF HangUp, LeaveQueue
<1>12. ASSUME NEW t \in adding, AddPart(t) \/ AddFails(t) PROVE Done
  <2>1. UNCHANGED <<Lock, put, req>>
    BY <1>12 DEF AddPart, AddFails
  <2> QED
    BY <2>1, <1>k DEF Lock
<1>13. ASSUME NEW c \in DOMAIN collectors, TimerFlush(c) PROVE Done
  <2>1. UNCHANGED <<Lock, put, req>>
    BY <1>13 DEF TimerFlush
  <2> QED
    BY <2>1, <1>k DEF Lock
<1>14. ASSUME NEW f \in flights, EndFlight(f) PROVE Done
  <2>1. UNCHANGED <<Lock, put, req>>
    BY <1>14 DEF EndFlight
  <2> QED
    BY <2>1, <1>k DEF Lock
<1>15. ASSUME Drained \/ ShutdownFlush \/ Stop PROVE Done
  <2>1. UNCHANGED <<Lock, put, req>>
    BY <1>15 DEF Drained, ShutdownFlush, Stop
  <2> QED
    BY <2>1, <1>k DEF Lock
<1>16. ASSUME UNCHANGED vars PROVE Done
  BY <1>16, <1>k DEF vars
<1>17. Done
  BY <1>1, <1>2, <1>3, <1>4, <1>5, <1>6, <1>7, <1>8, <1>9, <1>10, <1>11, <1>12, <1>13, <1>14,
     <1>15, <1>16 DEF Next, Put
<1> QED
  BY <1>17 DEF Done

LEMMA QueueInit == Init => LockIsTrue
<1> SUFFICES ASSUME Init PROVE LockIsTrue
  OBVIOUS
<1>1. waiting = <<>> /\ readers = {} /\ (\A p \in Puts : put[p].pc = "idle")
      /\ \A r \in Requests : req[r].pc = "idle"
  BY DEF Init, NoPut, NoRequest
<1> QED
  BY <1>1 DEF LockIsTrue, Waits, In, Once

\* Nobody is left waiting for the lock of the collector by the order of things: who
\* waits is in the queue and nobody else is, a caller that hung up included, the
\* first can go or waits for a flush that is under way, and nobody is ever further
\* from the front than before, whoever else comes (put_langfuse and dispatch).
THEOREM QueueMoves ==
  Spec => /\ [](LockIsTrue /\ HeadGoes)
          /\ [][Forward(waiting, waiting')]_vars
<1>1. Types /\ LockIsTrue => HeadGoes
  <2> SUFFICES ASSUME Types, LockIsTrue, waiting # <<>>
               PROVE  LET x == Head(waiting) IN
                      \/ x \in Requests /\ req[x].pc = "dispatching"
                      \/ x \in Puts /\ put[x].pc = "reading"
                      \/ x \in Puts /\ put[x].pc = "writing"
                         /\ (readers = {} \/ \E p \in Puts : put[p].pc = "awaiting")
    BY DEF HeadGoes
  <2>1. 1 \in DOMAIN waiting /\ Head(waiting) = waiting[1] /\ Head(waiting) \in Callers
    BY DEF Types, TypeOK, Callers
  <2>2. Waits(Head(waiting))
    BY <2>1 DEF LockIsTrue, In
  <2>3. readers = {} \/ \E p \in Puts : put[p].pc = "awaiting"
    BY DEF LockIsTrue
  <2> QED
    BY <2>2, <2>3 DEF Waits
<1>2. Types /\ LockIsTrue /\ [Next]_vars => [Forward(waiting, waiting')]_vars
  BY QueueNext
<1> QED
  BY <1>1, <1>2, TypesInit, TypesNext, QueueInit, QueueNext, PTL
     DEF Spec
=============================================================================
