-------------------------- MODULE LangfuseCollectors --------------------------
(***************************************************************************)
(* The Langfuse collectors of the gateway: the one in force, the ones it   *)
(* has replaced, the requests that send to them, the admin calls that      *)
(* replace them, and the end of main.                                      *)
(*                                                                         *)
(* put_langfuse flushes the collector in force under the read guard of its *)
(* RwLock, builds a new one, and then writes the settings and the          *)
(* collector under two locks, one after the other. A request clones the    *)
(* collector at dispatch and sends its event much later; send spawns a     *)
(* task that adds the two parts of the event to the batcher. Every         *)
(* collector has a flush loop, which nothing ever stops.                   *)
(*                                                                         *)
(* A flush takes what is in the buffer and awaits the network: what it     *)
(* took is in flight, while tasks go on adding and others flush. A handler *)
(* can be dropped at that await; what becomes of its flight is then        *)
(* anybody's guess. The batcher is a crate: of it the model has what the   *)
(* code relies on, a buffer that add fills or refuses to, and that flush,  *)
(* or an add that fills it up, empties.                                    *)
(*                                                                         *)
(* tokio's RwLock is a fair queue: a reader that comes after a waiting     *)
(* writer waits for it.  The write guards are held for one assignment.     *)
(***************************************************************************)
EXTENDS Naturals, Sequences, FiniteSets

CONSTANTS
  Puts,           \* calls of PUT /api/langfuse that may run at a time
  Requests,       \* traced requests that may run at a time
  Settings,       \* the settings with enabled = true that a call may bring
  Disabled,       \* the settings with enabled = false
  Initial,        \* the settings of the configuration file
  BatchSize,      \* batch_size: the batcher flushes by itself at this many
  MaxCollectors,  \* bound: collectors ever built
  MaxEvents       \* bound: events ever sent

ASSUME BoundsAssumption ==
  BatchSize \in Nat \ {0} /\ MaxCollectors \in Nat \ {0} /\ MaxEvents \in Nat
ASSUME SettingsAssumption == Disabled \notin Settings
ASSUME CallersAssumption == Puts \cap (Requests \cup {"main", "nobody", "torn"}) = {}

VARIABLES
  settings,    \* state.langfuse_config
  current,     \* state.langfuse_collector: a position in collectors, or 0 for None
  collectors,  \* the settings of every collector ever built
  buffer,      \* what each collector's batcher holds
  flights,     \* the flushes under way: the parts taken, and who awaits the answer
  readers,     \* the calls that hold the read guard over an await
  waiting,     \* who waits for the lock of langfuse_collector, in order
  put,         \* the admin calls
  req,         \* the requests
  adding,      \* the spawned tasks of send: event, collector, the part to add next
  events,      \* events sent so far
  settled,     \* the parts that a flush has had its answer for, or the batcher refused
  author,      \* ghost: the call whose settings are in force, until it writes its
               \* collector: then "nobody", and "torn" when it will not, or did not last
  owed,        \* ghost: what the collector of startup held when the servers had ended
  phase        \* "serving", "drained", "flushing", "stopped": where main is

vars == <<settings, current, collectors, buffer, flights, readers, waiting, put, req, adding,
          events, settled, author, owed, phase>>

Enabled == (Settings \cup {Initial}) \ {Disabled}
Parts == {"trace", "generation"}
Part == (1..MaxEvents) \X Parts
NoPut == [pc |-> "idle", config |-> Disabled, built |-> 0]
NoRequest == [pc |-> "idle", collector |-> 0]

Forces == <<settings, current, collectors>>
Batches == <<buffer, flights, settled>>
Lock == <<readers, waiting>>
Ghosts == <<author, owed>>
Tasks == <<adding, events>>

Init ==
  /\ settings = Initial
  /\ collectors = IF Initial = Disabled THEN <<>> ELSE <<Initial>>
  /\ current = Len(collectors)
  /\ buffer = [c \in 1..MaxCollectors |-> {}] /\ flights = {}
  /\ readers = {} /\ waiting = <<>>
  /\ put = [p \in Puts |-> NoPut]
  /\ req = [r \in Requests |-> NoRequest]
  /\ adding = {} /\ events = 0
  /\ settled = {}
  /\ author = "nobody" /\ owed = {}
  /\ phase = "serving"

-----------------------------------------------------------------------------
(***************************************************************************)
(* A flush.                                                                *)
(***************************************************************************)
\* batcher.flush takes the parts of collector c; of none there is nothing to await.
Take(c, parts, who) ==
  /\ buffer' = [buffer EXCEPT ![c] = {}]
  /\ flights' = flights \cup (IF parts = {} THEN {} ELSE {[waiter |-> who, parts |-> parts]})

\* The answer, or the end of the retries: the parts were accepted, some of them,
\* or none, which is logged and forgotten.
EndFlight(f) ==
  /\ phase # "stopped" /\ f \in flights
  /\ flights' = flights \ {f}
  /\ settled' = settled \cup f.parts
  /\ UNCHANGED <<Forces, buffer, Lock, put, req, Tasks, Ghosts, phase>>

\* Mutant: the flush loop of a collector ends when it is replaced.
TimerFlush_CurrentOnly(c) ==
  /\ phase # "stopped" /\ c = current /\ buffer[c] # {}
  /\ Take(c, buffer[c], "nobody")
  /\ UNCHANGED <<Forces, Lock, put, req, Tasks, settled, Ghosts, phase>>

\* flush_loop, of every collector ever built.
TimerFlush(c) ==
  /\ phase # "stopped" /\ buffer[c] # {}
  /\ Take(c, buffer[c], "nobody")
  /\ UNCHANGED <<Forces, Lock, put, req, Tasks, settled, Ghosts, phase>>

\* A caller that is dropped leaves the queue of the lock.
LeaveQueue(x) ==
  \/ (\A k \in DOMAIN waiting : waiting[k] # x) /\ UNCHANGED waiting
  \/ \E k \in DOMAIN waiting :
       waiting[k] = x /\ waiting' = SubSeq(waiting, 1, k - 1) \o SubSeq(waiting, k + 1, Len(waiting))

-----------------------------------------------------------------------------
(***************************************************************************)
(* put_langfuse.                                                           *)
(***************************************************************************)
Begin(p, config) ==
  /\ phase = "serving" /\ put[p].pc = "idle"
  /\ put' = [put EXCEPT ![p] = [NoPut EXCEPT !.pc = "reading", !.config = config]]
  /\ waiting' = Append(waiting, p)
  /\ UNCHANGED <<Forces, Batches, readers, req, Tasks, Ghosts, phase>>

\* The read guard is granted.  With a collector there the guard is kept while the
\* call awaits its shutdown(), which takes what is in the buffer first.
TakeReadGuard(p) ==
  /\ waiting # <<>> /\ Head(waiting) = p /\ put[p].pc = "reading"
  /\ waiting' = Tail(waiting)
  /\ IF current = 0
     THEN put' = [put EXCEPT ![p].pc = "building"] /\ UNCHANGED <<readers, buffer, flights>>
     ELSE /\ put' = [put EXCEPT ![p].pc = "awaiting"] /\ readers' = readers \cup {p}
          /\ Take(current, buffer[current], p)
  /\ UNCHANGED <<Forces, settled, req, Tasks, Ghosts, phase>>

\* Mutant: the guard lives to the end of the handler.
FlushOld_KeepsGuard(p) ==
  /\ put[p].pc = "awaiting" /\ \A f \in flights : f.waiter # p
  /\ put' = [put EXCEPT ![p].pc = "building"]
  /\ UNCHANGED <<Forces, Batches, Lock, req, Tasks, Ghosts, phase>>

\* The answer is there, and the guard is dropped.
FlushOld(p) ==
  /\ put[p].pc = "awaiting" /\ \A f \in flights : f.waiter # p
  /\ put' = [put EXCEPT ![p].pc = "building"]
  /\ readers' = readers \ {p}
  /\ UNCHANGED <<Forces, Batches, waiting, req, Tasks, Ghosts, phase>>

\* Mutant: settings that are disabled leave the collector in force.
Build_KeepsCurrent(p) ==
  /\ put[p].pc = "building"
  /\ IF put[p].config = Disabled
     THEN put' = [put EXCEPT ![p].pc = "setting", ![p].built = current] /\ UNCHANGED collectors
     ELSE /\ Len(collectors) < MaxCollectors
          /\ collectors' = Append(collectors, put[p].config)
          /\ put' = [put EXCEPT ![p].pc = "setting", ![p].built = Len(collectors) + 1]
  /\ UNCHANGED <<settings, current, Batches, Lock, req, Tasks, Ghosts, phase>>

Build(p) ==
  /\ put[p].pc = "building"
  /\ IF put[p].config = Disabled
     THEN put' = [put EXCEPT ![p].pc = "setting"] /\ UNCHANGED collectors
     ELSE /\ Len(collectors) < MaxCollectors
          /\ collectors' = Append(collectors, put[p].config)
          /\ put' = [put EXCEPT ![p].pc = "setting", ![p].built = Len(collectors) + 1]
  /\ UNCHANGED <<settings, current, Batches, Lock, req, Tasks, Ghosts, phase>>

SetSettings(p) ==
  /\ put[p].pc = "setting"
  /\ settings' = put[p].config
  /\ put' = [put EXCEPT ![p].pc = "queueing"]
  /\ author' = p
  /\ UNCHANGED <<current, collectors, Batches, Lock, req, Tasks, owed, phase>>

\* langfuse_collector.write(): another thread may have come first.
Queue(p) ==
  /\ put[p].pc = "queueing"
  /\ put' = [put EXCEPT ![p].pc = "writing"]
  /\ waiting' = Append(waiting, p)
  /\ UNCHANGED <<Forces, Batches, readers, req, Tasks, Ghosts, phase>>

SetCollector(p) ==
  /\ waiting # <<>> /\ Head(waiting) = p /\ put[p].pc = "writing"
  /\ readers = {}
  /\ waiting' = Tail(waiting)
  /\ current' = put[p].built
  /\ put' = [put EXCEPT ![p] = [NoPut EXCEPT !.pc = "saving"]]
  /\ author' = (IF author = p THEN "nobody" ELSE IF author \in Puts THEN author ELSE "torn")
  /\ UNCHANGED <<settings, collectors, Batches, readers, req, Tasks, owed, phase>>

\* The configuration is saved (ConfigPersistence), and the call answered.
Saved(p) ==
  /\ put[p].pc = "saving"
  /\ put' = [put EXCEPT ![p] = NoPut]
  /\ UNCHANGED <<Forces, Batches, Lock, req, Tasks, Ghosts, phase>>

\* The flight that x was waiting for has nobody who does.
Abandoned(x) ==
  {f \in flights : f.waiter # x} \cup {[f EXCEPT !.waiter = "nobody"] : f \in {g \in flights : g.waiter = x}}

\* The caller hangs up, and the handler is dropped at the await it is at.
Dropped(p) ==
  /\ put[p].pc \in {"reading", "awaiting", "building", "setting", "writing"}
  /\ put' = [put EXCEPT ![p] = NoPut]
  /\ readers' = readers \ {p}
  /\ LeaveQueue(p)
  /\ flights' = Abandoned(p)
  /\ author' = (IF author = p THEN "torn" ELSE author)
  /\ UNCHANGED <<Forces, buffer, settled, req, Tasks, owed, phase>>

-----------------------------------------------------------------------------
(***************************************************************************)
(* Requests: dispatch clones the collector, the answer's end sends the     *)
(* event to it, whatever has become of it by then.                         *)
(***************************************************************************)
Dispatch(r) ==
  /\ phase = "serving" /\ req[r].pc = "idle"
  /\ req' = [req EXCEPT ![r].pc = "dispatching"]
  /\ waiting' = Append(waiting, r)
  /\ UNCHANGED <<Forces, Batches, readers, put, Tasks, Ghosts, phase>>

CloneCollector(r) ==
  /\ waiting # <<>> /\ Head(waiting) = r
  /\ waiting' = Tail(waiting)
  /\ req' = [req EXCEPT ![r] = [pc |-> "proxying", collector |-> current]]
  /\ UNCHANGED <<Forces, Batches, readers, put, Tasks, Ghosts, phase>>

\* The client leaves, or the answer breaks off: the handler is dropped, and of a
\* streamed answer the relay task remains, which no server waits for.
HangUp(r) ==
  /\ LeaveQueue(r)
  /\ \/ req[r].pc \in {"dispatching", "proxying"} /\ req' = [req EXCEPT ![r] = NoRequest]
     \/ req[r].pc = "proxying" /\ req' = [req EXCEPT ![r].pc = "detached"]
  /\ UNCHANGED <<Forces, Batches, readers, put, Tasks, Ghosts, phase>>

\* Mutant: an event is sent without looking whether there is a collector.
Send_Unchecked(r) ==
  /\ phase # "stopped" /\ req[r].pc \in {"proxying", "detached"}
  /\ req' = [req EXCEPT ![r] = NoRequest]
  /\ events < MaxEvents /\ events' = events + 1
  /\ adding' = adding \cup {[event |-> events', collector |-> req[r].collector, part |-> "trace"]}
  /\ UNCHANGED <<Forces, Batches, Lock, put, Ghosts, phase>>

\* LangfuseCollector::send spawns the task; without a collector, or an event to
\* build, nothing is sent.
Send(r) ==
  /\ phase # "stopped" /\ req[r].pc \in {"proxying", "detached"}
  /\ req' = [req EXCEPT ![r] = NoRequest]
  /\ \/ UNCHANGED Tasks
     \/ /\ req[r].collector # 0 /\ events < MaxEvents
        /\ events' = events + 1
        /\ adding' = adding \cup {[event |-> events', collector |-> req[r].collector, part |-> "trace"]}
  /\ UNCHANGED <<Forces, Batches, Lock, put, Ghosts, phase>>

-----------------------------------------------------------------------------
(***************************************************************************)
(* The task of send.                                                       *)
(***************************************************************************)
\* The loop goes on to the generation after the trace, and then ends.
NextPart(t) ==
  /\ adding' = (adding \ {t}) \cup (IF t.part = "trace" THEN {[t EXCEPT !.part = "generation"]} ELSE {})
  /\ UNCHANGED events

\* batcher.add: the part is buffered, and the buffer flushed when it is full.
AddPart(t) ==
  /\ phase # "stopped" /\ t \in adding
  /\ LET parts == buffer[t.collector] \cup {<<t.event, t.part>>} IN
     IF Cardinality(parts) >= BatchSize THEN Take(t.collector, parts, "nobody")
     ELSE buffer' = [buffer EXCEPT ![t.collector] = parts] /\ UNCHANGED flights
  /\ NextPart(t)
  /\ UNCHANGED <<Forces, Lock, put, req, settled, Ghosts, phase>>

\* Mutant: the first error ends the loop.
AddFails_EndsTask(t) ==
  /\ phase # "stopped" /\ t \in adding
  /\ settled' = settled \cup {<<t.event, t.part>>}
  /\ adding' = adding \ {t} /\ UNCHANGED events
  /\ UNCHANGED <<Forces, buffer, flights, Lock, put, req, Ghosts, phase>>

\* The batcher answers Err: a warning, and on to the next part.
AddFails(t) ==
  /\ phase # "stopped" /\ t \in adding
  /\ settled' = settled \cup {<<t.event, t.part>>}
  /\ NextPart(t)
  /\ UNCHANGED <<Forces, buffer, flights, Lock, put, req, Ghosts, phase>>

-----------------------------------------------------------------------------
(***************************************************************************)
(* The end of main.                                                        *)
(***************************************************************************)
\* The collector built at startup, and what is in it.
AtStartup == IF Initial = Disabled THEN {} ELSE buffer[1]

\* Both servers have ended: no connection has a call or a request left.  The relay
\* tasks of clients that left and the tasks of send may still be there.
Drained ==
  /\ phase = "serving" /\ phase' = "drained"
  /\ \A p \in Puts : put[p].pc = "idle"
  /\ \A r \in Requests : req[r].pc \in {"idle", "detached"}
  /\ owed' = AtStartup
  /\ UNCHANGED <<Forces, Batches, Lock, put, req, Tasks, author>>

\* main flushes the collector it built at startup, whatever is in force by now.
ShutdownFlush ==
  /\ phase = "drained" /\ phase' = "flushing"
  /\ IF Initial = Disabled THEN UNCHANGED <<buffer, flights>> ELSE Take(1, buffer[1], "main")
  /\ UNCHANGED <<Forces, Lock, put, req, Tasks, settled, Ghosts>>

\* Mutant: the flush is not awaited.
Stop_AtOnce ==
  /\ phase = "flushing" /\ phase' = "stopped"
  /\ UNCHANGED <<Forces, Batches, Lock, put, req, Tasks, Ghosts>>

\* The flush is answered and main returns: every task ends where it is.
Stop ==
  /\ phase = "flushing" /\ phase' = "stopped"
  /\ \A f \in flights : f.waiter # "main"
  /\ UNCHANGED <<Forces, Batches, Lock, put, req, Tasks, Ghosts>>

-----------------------------------------------------------------------------
Put(p) ==
  \/ TakeReadGuard(p) \/ FlushOld(p) \/ Build(p)
  \/ SetSettings(p) \/ Queue(p) \/ SetCollector(p) \/ Saved(p)

Next ==
  \/ \E p \in Puts : (\E config \in {Disabled} \cup Settings : Begin(p, config))
                     \/ Put(p) \/ Dropped(p)
  \/ \E r \in Requests : Dispatch(r) \/ CloneCollector(r) \/ HangUp(r) \/ Send(r)
  \/ \E t \in adding : AddPart(t) \/ AddFails(t)
  \/ \E c \in DOMAIN collectors : TimerFlush(c)
  \/ \E f \in flights : EndFlight(f)
  \/ Drained
  \/ ShutdownFlush
  \/ Stop

Spec == Init /\ [][Next]_vars

(***************************************************************************)
(* Ready tasks are polled, every flush ends one way or another (the client *)
(* has a limit of retries), and every flush loop's timer fires.            *)
(***************************************************************************)
FairSpec ==
  /\ Spec
  /\ \A p \in Puts : WF_vars(Put(p))
  /\ \A r \in Requests : WF_vars(CloneCollector(r))
  /\ WF_vars(\E c \in DOMAIN collectors : TimerFlush(c))
  /\ WF_vars(\E f \in flights : EndFlight(f))

-----------------------------------------------------------------------------
PutType == [pc : {"idle", "reading", "awaiting", "building", "setting", "queueing",
                  "writing", "saving"},
            config : {Disabled} \cup Settings, built : 0..MaxCollectors]
RequestType == [pc : {"idle", "dispatching", "proxying", "detached"}, collector : 0..Len(collectors)]
Flight == [waiter : Puts \cup {"main", "nobody"}, parts : (SUBSET Part) \ {{}}]

\* Every variable has its type; a request's collector is one that was built.
TypeOK ==
  /\ settings \in {Disabled} \cup Enabled
  /\ collectors \in Seq(Enabled)
  /\ Len(collectors) <= MaxCollectors /\ current \in 0..Len(collectors)
  /\ buffer \in [1..MaxCollectors -> SUBSET Part] /\ flights \subseteq Flight
  /\ readers \subseteq Puts /\ waiting \in Seq(Puts \cup Requests)
  /\ put \in [Puts -> PutType]
  /\ req \in [Requests -> RequestType]
  /\ adding \subseteq [event : 1..MaxEvents, collector : DOMAIN collectors, part : Parts]
  /\ events \in 0..MaxEvents
  /\ settled \subseteq Part
  /\ author \in Puts \cup {"nobody", "torn"} /\ owed \subseteq Part
  /\ phase \in {"serving", "drained", "flushing", "stopped"}

\* Settings and collector fit each other, none when disabled and one built from
\* just those settings otherwise, but while the call that wrote the settings has
\* its collector still to write, and after two calls have written in opposite
\* orders, or one was dropped between its two writes.  Only these two leave
\* them torn, no other overlap, failure or hang-up, and only until the next call
\* that writes both in turn (put_langfuse has a lock for each write and none
\* around both).
SettingsInForce ==
  author = "nobody" =>
    IF settings = Disabled THEN current = 0
    ELSE current # 0 /\ collectors[current] = settings

\* The parts that the task t of send has yet to add.
ToAdd(t) == {<<t.event, q>> : q \in IF t.part = "trace" THEN Parts ELSE {"generation"}}
Pending == UNION {ToAdd(t) : t \in adding}
InBuffers == UNION {buffer[c] : c \in 1..MaxCollectors}
InFlight == UNION {f.parts : f \in flights}

\* Nothing is handed over twice, and nothing sent is forgotten: a part of an event
\* is still to be added, in one buffer, in one flush, or settled, and only one of
\* these, whatever flushes of whoever overlap, whatever the batcher refuses, and
\* whoever leaves a flush it waits for.
SentOnce ==
  /\ settled \cup InFlight \cup InBuffers \cup Pending = (1..events) \X Parts
  /\ InFlight \cap settled = {}
  /\ InBuffers \cap (InFlight \cup settled) = {}
  /\ Pending \cap (InBuffers \cup InFlight \cup settled) = {}
  /\ \A c, d \in 1..MaxCollectors : c # d => buffer[c] \cap buffer[d] = {}
  /\ \A f, g \in flights : f # g => f.parts \cap g.parts = {}
  /\ \A t, u \in adding : t # u => ToAdd(t) \cap ToAdd(u) = {}

\* No call waits for the lock for good, neither the admin calls nor the requests
\* behind them: a flush under the read guard delays them, and that is all.
NobodyStarves ==
  /\ \A p \in Puts : put[p].pc # "idle" ~>
       put[p].pc = "idle" \/ (put[p].pc = "building" /\ Len(collectors) = MaxCollectors)
  /\ \A r \in Requests : req[r].pc = "dispatching" ~> req[r].pc # "dispatching"

\* An event that reaches a collector after it was replaced is flushed all the
\* same, by the loop that the replacement did not stop.
LateEventsAreFlushed ==
  \A x \in Part : x \in InBuffers ~> phase = "stopped" \/ x \in settled

\* "Flush Langfuse on shutdown" (main.rs:193), what remains true of it: what the
\* collector of startup held when the servers had ended is in no buffer when main
\* has returned, and in no flush that main began: it is settled, or another flush
\* took it first, which nobody waits for.  Of collectors built later, and of what
\* tasks add during the flush, nothing is promised.
StartupIsFlushed ==
  phase = "stopped" =>
    owed \subseteq settled \cup UNION {f.parts : f \in {g \in flights : g.waiter = "nobody"}}
=============================================================================
