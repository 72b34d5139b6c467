---------------------------- MODULE ModelRegistry ----------------------------
(***************************************************************************)
(* The routing table of the gateway and the three kinds of tasks that meet *)
(* on it: the refresh loop of main.rs (one task), the backend handlers of  *)
(* admin.rs (one task per call) and the proxied requests of proxy.rs.      *)
(*                                                                         *)
(* They share the list of backends (an RwLock), the published table (an    *)
(* Arc behind an RwLock, so that a request keeps the table it cloned) and  *)
(* the Notify whose single permit wakes the loop.  A refresh is slow: the  *)
(* loop clones the list, asks every backend, and publishes when the last   *)
(* answer is in, while the list goes on changing.                          *)
(***************************************************************************)
EXTENDS Routing

CONSTANTS
  Admins,           \* calls of the admin API that may run at a time
  Requests,         \* proxied requests that may run at a time
  Models,           \* model names
  Bodies,           \* bodies of POST and PUT /api/backends
  InitialBackends,  \* the backends of the configuration file
  InitialServers,   \* what each URL answers at first
  ServerStates,     \* what a URL may come to answer: a set of models, Down, Silent
  Down,             \* connection refused, an error status, an unreadable answer
  Silent,           \* accepts the request and never answers
  MaxBackends,      \* bound: length of the list of backends
  MaxEdits,         \* bound: admin calls that change the list
  MaxFlips          \* bound: changes of what a URL answers

VARIABLES
  backends,   \* state.backends
  registry,   \* state.model_registry; "source" is a ghost: the list it was made from
  permit,     \* the stored permit of registry_refresh_notify
  loop,       \* the refresh: where it is, the list it cloned, who has not answered, the answers
  serving,    \* the listeners are bound: the first refresh is over
  server,     \* environment: what each URL answers
  admin,      \* the calls of the admin API
  req,        \* the proxied requests
  unsaved,    \* ghost: a change whose save failed came after the last clone
  edits, flips

vars == <<backends, registry, permit, loop, serving, server, admin, req, unsaved, edits, flips>>

Urls == DOMAIN InitialServers
Types == {"ollama", "llamacpp"}
Paths == {"/api/chat", "/v1/chat/completions", "other"}
Names == {b.name : b \in Bodies} \cup
         {InitialBackends[i].name : i \in DOMAIN InitialBackends}
Config == [name : Names, url : Urls, type : Types, priority : Int]
Answer == [config : Config, models : SUBSET Models, healthy : BOOLEAN]

ASSUME BoundsAssumption ==
  MaxBackends \in Nat /\ MaxEdits \in Nat /\ MaxFlips \in Nat

ASSUME InitialAssumption ==
  /\ InitialBackends \in Seq(Config)
  /\ InitialServers \in [Urls -> ServerStates]
  /\ ServerStates \subseteq {Down, Silent} \cup SUBSET Models

ASSUME BodiesAssumption ==
  /\ Bodies \subseteq [name : Names, url : Urls, type : Types, priority : Int \cup {None}]
  /\ None \notin Int /\ None \notin Models /\ None \notin Config

NoRequest == [pc |-> "idle", model |-> None, path |-> "other",
              table |-> <<>>, target |-> None]

Fetching(configs) ==
  [pc |-> "fetching", configs |-> configs, pending |-> DOMAIN configs, answers |-> <<>>]
Waiting == [pc |-> "waiting", configs |-> <<>>, pending |-> {}, answers |-> <<>>]

\* main starts a refresh of the configured list and serves when it is over.
Init ==
  /\ backends = InitialBackends
  /\ registry = [source |-> <<>>, table |-> <<>>]
  /\ permit = FALSE
  /\ loop = Fetching(InitialBackends)
  /\ serving = FALSE
  /\ server = InitialServers
  /\ admin = [a \in Admins |-> "idle"]
  /\ req = [r \in Requests |-> NoRequest]
  /\ unsaved = FALSE
  /\ edits = 0 /\ flips = 0

-----------------------------------------------------------------------------
(***************************************************************************)
(* The backend handlers.  Each changes the list under the write lock, then *)
(* saves the configuration (ConfigPersistence models the save) and only    *)
(* when that has succeeded leaves a permit for the loop.  A call that is   *)
(* refused (409 when the name is taken, 404 when it is not there) changes  *)
(* nothing.                                                                *)
(***************************************************************************)
\* Mutant: the priority of a new backend is not defaulted.
FromBody_NoDefault(b, oldPriority) ==
  [name |-> b.name, url |-> b.url, type |-> b.type, priority |-> b.priority]

FromBody(b, oldPriority) ==
  [name |-> b.name, url |-> b.url, type |-> b.type,
   priority |-> IF b.priority = None THEN oldPriority ELSE b.priority]

Edit(a, list) ==
  /\ serving /\ admin[a] = "idle"
  /\ edits < MaxEdits /\ edits' = edits + 1
  /\ backends' = list
  /\ admin' = [admin EXCEPT ![a] = "saving"]
  /\ UNCHANGED <<registry, permit, loop, serving, server, req, unsaved, flips>>

NameTaken(n) == \E i \in DOMAIN backends : backends[i].name = n

AddBackend(a, b) ==
  /\ ~NameTaken(b.name) /\ Len(backends) < MaxBackends
  /\ Edit(a, Append(backends, FromBody(b, 0)))

\* The first backend of that name takes the body, a new name included.
UpdateBackend(a, n, b) ==
  \E i \in DOMAIN backends :
    /\ backends[i].name = n /\ \A j \in 1..(i - 1) : backends[j].name # n
    /\ Edit(a, [backends EXCEPT ![i] = FromBody(b, backends[i].priority)])

\* Every backend of that name goes.
DeleteBackend(a, n) ==
  /\ NameTaken(n)
  /\ Edit(a, Keep(backends, {i \in DOMAIN backends : backends[i].name # n}))

\* Mutant: a handler forgets to wake the loop.
SaveOk_NoNotify(a) ==
  /\ admin[a] = "saving"
  /\ admin' = [admin EXCEPT ![a] = "idle"]
  /\ UNCHANGED <<backends, registry, permit, loop, serving, server, req, unsaved, edits, flips>>

SaveOk(a) ==
  /\ admin[a] = "saving"
  /\ admin' = [admin EXCEPT ![a] = "idle"]
  /\ permit' = TRUE
  /\ UNCHANGED <<backends, registry, loop, serving, server, req, unsaved, edits, flips>>

\* The save fails (500), or the caller hangs up and the server drops the
\* handler at one of the save's awaits: the list stays changed, nobody is woken.
NotSaved(a) ==
  /\ admin[a] = "saving"
  /\ admin' = [admin EXCEPT ![a] = "idle"]
  /\ unsaved' = TRUE
  /\ UNCHANGED <<backends, registry, permit, loop, serving, server, req, edits, flips>>

RefreshBackends ==
  /\ serving
  /\ permit' = TRUE
  /\ UNCHANGED <<backends, registry, loop, serving, server, admin, req, unsaved, edits, flips>>

-----------------------------------------------------------------------------
(***************************************************************************)
(* The refresh loop.  select! takes the timer or the permit, whichever is  *)
(* ready, at random when both are; a permit it did not take stays stored.  *)
(***************************************************************************)
WakeTimer ==
  /\ serving /\ loop.pc = "waiting"
  /\ loop' = [loop EXCEPT !.pc = "woken"]
  /\ UNCHANGED <<backends, registry, permit, serving, server, admin, req, unsaved, edits, flips>>

WakeNotified ==
  /\ serving /\ loop.pc = "waiting" /\ permit
  /\ permit' = FALSE
  /\ loop' = [loop EXCEPT !.pc = "woken"]
  /\ UNCHANGED <<backends, registry, serving, server, admin, req, unsaved, edits, flips>>

\* Mutant: the loop refreshes the list it knew instead of cloning the current one.
CloneBackends_Stale ==
  /\ loop.pc = "woken"
  /\ loop' = Fetching(registry.source)
  /\ unsaved' = FALSE
  /\ UNCHANGED <<backends, registry, permit, serving, server, admin, req, edits, flips>>

CloneBackends ==
  /\ loop.pc = "woken"
  /\ loop' = Fetching(backends)
  /\ unsaved' = FALSE
  /\ UNCHANGED <<backends, registry, permit, serving, server, admin, req, edits, flips>>

\* fetch_models: the models a backend lists, or an error of any kind, which
\* refresh keeps as an unhealthy entry.
Fetched(config) ==
  LET up == server[config.url] # Down
  IN  Entry(config, IF up THEN server[config.url] ELSE {}, up)

\* The next backend to answer; one that does not is waited for without a limit.
FetchDone(i) ==
  /\ i \in loop.pending
  /\ server[loop.configs[i].url] # Silent
  /\ loop' = [loop EXCEPT !.pending = @ \ {i},
                          !.answers = Append(@, Fetched(loop.configs[i]))]
  /\ UNCHANGED <<backends, registry, permit, serving, server, admin, req, unsaved, edits, flips>>

\* Mutant: the loop drains the permit once the refresh is over.
Publish_DrainsPermit ==
  /\ loop.pc = "fetching" /\ loop.pending = {}
  /\ registry' = [source |-> loop.configs, table |-> RegistryOf(loop.answers)]
  /\ loop' = Waiting
  /\ serving' = TRUE
  /\ permit' = FALSE
  /\ UNCHANGED <<backends, server, admin, req, unsaved, edits, flips>>

\* The first publication is main's own, and the listeners follow it.
Publish ==
  /\ loop.pc = "fetching" /\ loop.pending = {}
  /\ registry' = [source |-> loop.configs, table |-> RegistryOf(loop.answers)]
  /\ loop' = Waiting
  /\ serving' = TRUE
  /\ UNCHANGED <<backends, permit, server, admin, req, unsaved, edits, flips>>

ServerChange(u, state) ==
  /\ flips < MaxFlips /\ flips' = flips + 1
  /\ server[u] # state
  /\ server' = [server EXCEPT ![u] = state]
  /\ UNCHANGED <<backends, registry, permit, loop, serving, admin, req, unsaved, edits>>

-----------------------------------------------------------------------------
(***************************************************************************)
(* Requests.  dispatch clones the table first and then waits for the body, *)
(* so the table it picks from may be an older one by then.                 *)
(***************************************************************************)
SetRequest(r, record) ==
  /\ req' = [req EXCEPT ![r] = record]
  /\ UNCHANGED <<backends, registry, permit, loop, serving, server, admin, unsaved, edits, flips>>

\* A path that names a model in its body, on the proxy port.
ClientRequest(r, m) ==
  /\ serving /\ req[r].pc = "idle"
  /\ SetRequest(r, [NoRequest EXCEPT !.pc = "body", !.model = m, !.table = registry.table])

\* Any other path: no body is read, the default backend serves it.
Passthrough(r) ==
  /\ serving /\ req[r].pc = "idle" /\ DefaultBackend(registry.table) # None
  /\ SetRequest(r, [NoRequest EXCEPT !.pc = "sent", !.table = registry.table,
                                     !.target = DefaultBackend(registry.table)])

\* The admin UI's chat picks the path from one table, drops it, and calls
\* proxy_handler, whose dispatch clones the table again.
AdminChat(r, m) ==
  /\ serving /\ req[r].pc = "idle"
  /\ LET b == Pick(registry.table, m) IN
     SetRequest(r, [NoRequest EXCEPT
       !.pc = "chat", !.model = m,
       !.path = IF b # None /\ b.type = "llamacpp" THEN "/v1/chat/completions" ELSE "/api/chat"])

AdminChatDispatch(r) ==
  /\ req[r].pc = "chat"
  /\ SetRequest(r, [req[r] EXCEPT !.pc = "body", !.table = registry.table])

\* Mutant: dispatch drops the model's own backend for the default one.
Resolve_DefaultOnly(r) ==
  /\ req[r].pc = "body"
  /\ LET b == DefaultBackend(req[r].table) IN
     SetRequest(r, IF b = None THEN NoRequest
                   ELSE [req[r] EXCEPT !.pc = "sent", !.target = b])

\* 502 when there is no healthy backend.
Resolve(r) ==
  /\ req[r].pc = "body"
  /\ LET b == Pick(req[r].table, req[r].model) IN
     SetRequest(r, IF b = None THEN NoRequest
                   ELSE [req[r] EXCEPT !.pc = "sent", !.target = b])

Answered(r) ==
  /\ req[r].pc = "sent"
  /\ SetRequest(r, NoRequest)

-----------------------------------------------------------------------------
AdminStep(a) ==
  \/ \E b \in Bodies : AddBackend(a, b)
  \/ \E n \in Names, b \in Bodies : UpdateBackend(a, n, b)
  \/ \E n \in Names : DeleteBackend(a, n)
  \/ SaveOk(a)
  \/ NotSaved(a)

LoopStep ==
  \/ WakeTimer
  \/ WakeNotified
  \/ CloneBackends
  \/ \E i \in loop.pending : FetchDone(i)
  \/ Publish

RequestStep(r) ==
  \/ \E m \in Models \cup {None} : ClientRequest(r, m)
  \/ Passthrough(r)
  \/ \E m \in Models \cup {None} : AdminChat(r, m)
  \/ AdminChatDispatch(r)
  \/ Resolve(r)
  \/ Answered(r)

Next ==
  \/ \E a \in Admins : AdminStep(a)
  \/ RefreshBackends
  \/ LoopStep
  \/ \E u \in Urls, state \in ServerStates : ServerChange(u, state)
  \/ \E r \in Requests : RequestStep(r)

Spec == Init /\ [][Next]_vars

(***************************************************************************)
(* The runtime polls every ready task: a save ends one way or another, the *)
(* loop goes on once woken, a backend that answers is heard.  Nothing is   *)
(* assumed of when backends change, nor that a silent one ever answers.    *)
(***************************************************************************)
TaskFairness ==
  /\ \A a \in Admins : WF_vars(SaveOk(a) \/ NotSaved(a))
  /\ WF_vars(WakeNotified)
  /\ WF_vars(CloneBackends)
  /\ \A i \in 1..MaxBackends : WF_vars(FetchDone(i))
  /\ WF_vars(Publish)

\* The timer of the loop never fires: notifications alone drive it.
NotifiedSpec == Spec /\ TaskFairness

\* model_refresh_interval_secs passes.
FairSpec == Spec /\ TaskFairness /\ WF_vars(WakeTimer)

-----------------------------------------------------------------------------
(***************************************************************************)
(* Properties.                                                             *)
(***************************************************************************)
EntriesOf(table) == {table[i] : i \in DOMAIN table}

LoopType == [pc : {"waiting", "woken", "fetching"}, configs : Seq(Config),
             pending : SUBSET Nat, answers : Seq(Answer)]

RequestType == [pc : {"idle", "chat", "body", "sent"}, model : {None} \cup Models,
                path : Paths, table : Seq(Answer), target : {None} \cup Config]

\* Every variable has its type; what a refresh has not asked yet is in its list.
TypeOK ==
  /\ backends \in Seq(Config)
  /\ registry \in [source : Seq(Config), table : Seq(Answer)]
  /\ permit \in BOOLEAN /\ serving \in BOOLEAN /\ unsaved \in BOOLEAN
  /\ loop \in LoopType /\ loop.pending \subseteq DOMAIN loop.configs
  /\ server \in [Urls -> ServerStates]
  /\ admin \in [Admins -> {"idle", "saving"}]
  /\ req \in [Requests -> RequestType]
  /\ edits \in 0..MaxEdits /\ flips \in 0..MaxFlips

\* Somebody is still bound to wake the loop, or gave up doing so.
Pending == permit \/ unsaved \/ \E a \in Admins : admin[a] = "saving"

\* A change of the list is never forgotten: while the published table was made
\* from another list, a refresh is owed (a permit, a handler still saving),
\* about to clone, or under way on the current list.  Notify keeps one permit
\* only and the loop does not listen while it fetches; this says that one is
\* enough.  The one excuse is a change whose save failed: its handler returns
\* before notify_one, and the change waits for the timer.
RefreshOwed ==
  registry.source # backends =>
    \/ Pending
    \/ loop.pc = "woken"
    \/ loop.pc = "fetching" /\ loop.configs = backends

\* A request goes to a healthy backend of the lowest priority number among the
\* ones that list its model, or among all when none does: the sort, the index
\* and min_by_key together compute that choice from the table it cloned.
RoutesToPreferred ==
  \A r \in Requests :
    req[r].pc = "sent" =>
      req[r].target \in AllowedTargets(EntriesOf(req[r].table), req[r].model)

\* The table has the backends of the list, the ones that fail included, and says
\* of each what it answers now.
InSync ==
  /\ registry.source = backends
  /\ {e.config : e \in EntriesOf(registry.table)} = {backends[i] : i \in DOMAIN backends}
  /\ \A e \in EntriesOf(registry.table) :
       /\ e.healthy <=> server[e.config.url] # Down
       /\ e.healthy => e.models = server[e.config.url]

AllAnswer == \A u \in Urls : server[u] # Silent

\* Once no backend hangs any more and the changes are over, the timer (when it
\* does fire) brings the table in line with the list and with the backends, the
\* changes whose save failed included.
Convergence == WF_vars(WakeTimer) /\ <>[]AllAnswer => <>[]InSync

\* Notifications alone bring the table in line with the list, but for the
\* changes whose save failed.
ConvergesWithoutTimer ==
  <>[]AllAnswer => <>[](registry.source = backends \/ unsaved)

=============================================================================
