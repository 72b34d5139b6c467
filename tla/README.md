# A formal model of ollama_gateway

`ollama_gateway` is a Rust program (axum on tokio) that stands between clients
and several inference backends (Ollama and llama.cpp). It routes each request
to a backend, relays the answer, streamed or whole, writes metrics and Langfuse
traces, and is configured at run time through an admin API.

This directory holds TLA+ modules that model it, TLC configurations that check
them, and TLAPS proofs. Paths below are those of the repository (`src/` is its
root, so the code is in `src/src/`). `PROJECT.json` lists every run, every
definition with the lines it models, the hazards, the findings and the theorems.

## 1. The system

| Component | State | Operations | Where |
|---|---|---|---|
| Model registry | the routing table (an `Arc` behind an `RwLock`): entries `(config, models, healthy)` and an index model -> entries | refresh, resolve, default backend | `registry.rs` |
| Refresh loop | a `Notify` with one permit, a timer | wake, clone the list, ask all backends, publish | `main.rs` |
| Backend administration | the list of backends (an `RwLock`) | add, update (also renames), delete, refresh | `admin.rs` |
| Configuration persistence | six `RwLock`s, `config_write_lock`, `config.toml` | eleven handlers that change one field and save all | `admin.rs`, `config.rs` |
| Request dispatch | per request: the privacy mode of its arrival, the table, the rules and the collector it cloned | classify the path, pick a backend, pre- and postprocess, collect or pass on the answer, trace, record | `proxy.rs`, `admin.rs` |
| Streaming relay | a task per answer, a bounded channel (64), the accumulated text | read, postprocess, send, trace, record | `proxy.rs` |
| Model aggregation | per listing: the table it cloned, a `JoinSet` of tasks | `/api/tags`, `/v1/models`, `/api/ps` and the admin page's lists, asked of all healthy backends and merged | `proxy.rs`, `admin.rs` |
| Metrics pipeline | a bounded channel (10 000), a writer thread, `metrics.db` | record, batch insert, prune, queries | `metrics.rs` |
| Langfuse collectors | the settings, the collector in force, a batcher and a flush loop for every collector ever built | replace, send, flush, shutdown | `langfuse/`, `admin.rs`, `main.rs` |
| Admin sessions | a set of session tokens, the password hash, the browsers' cookies | login, logout, change the password, the session middleware | `admin_auth.rs`, `admin.rs` |
| Processor rules and processors | a list of rules | edits by index, match by glob, the repair of leaked Gemma tokens | `processors/`, `config.rs` |
| Bearer tokens, connection ids, API types, admin page | - | lookup, plumbing | `auth.rs`, `connection_id.rs`, `ollama.rs`, `error.rs` |

How they interact:

* `main` refreshes the registry once, binds the two listeners, and spawns the
  refresh loop. Handlers of the admin API change a field of `AppState` under its
  own lock, save the whole configuration, and, when backends changed, call
  `notify_one`. The loop wakes by timer or permit, clones the list, asks every
  backend, and swaps the table.
* A request clones the table (and, when it is traced, the collector) at dispatch
  and uses that clone until it ends. A streamed answer is handed to a spawned
  task that outlives the handler.
* At its end an answer goes to the metrics channel (`try_send`, never waits) and
  to the collector the request had cloned (`send`, which spawns a task).
* `put_langfuse` flushes the collector under the read guard of its lock, then
  replaces settings and collector under two locks.
* Shutdown lets both servers drain, flushes one collector, and returns; the
  spawned tasks and the writer thread are not waited for.

What is hard in it: clones that are stale when they are used; several locks
taken one after the other; handlers dropped halfway when the caller hangs up
(axum drops the future at its current await); one permit for many
notifications; an unbounded wait for a backend; a file overwritten in place; a
channel between two parties that may each vanish; a writer that fails a batch
at a time. These are the `hazards` of `PROJECT.json`.

What makes each component correct:

* registry: no change forgotten; table and list agree in the end; every request
  goes to a preferred healthy backend of one published table;
* persistence: an answered change is in the file, and nothing is lost silently;
* relay: chunks in order, an error never taken for the end, bounded readahead,
  complete answers on record, no task left behind by a client that left;
* metrics: records conserved, rows in order, pruning exact and in time;
* collectors: settings and collector agree, nothing sent twice, nobody starves
  behind a flush, buffered events are flushed in the end;
* aggregation: one list, whichever path reads it; a failing backend costs its own
  models and no others;
* sessions: a changed password ends the sessions of the old one; nobody is locked
  out by their own change;
* rules and requests: an index names the rule that the page shows; one list of
  rules for a request and its answer; each answer recorded once and traced as
  delivered, in the privacy mode of its arrival;
* repair: arguments come out as the model meant them, and the repair ends.

## 2. The modules

### Routing and ModelRegistry

`Routing` holds the pure operators of `registry.rs` and `dispatch`: the stable
sort by priority (`SortByPriority`), the index (`ModelIndex`), the first
healthy entry of the model (`ResolveBackend`), `min_by_key` over the healthy
ones (`DefaultBackend`), and their composition `Pick`. `AllowedTargets` is the
reference definition: over a set of entries, without order or index.

`ModelRegistry` composes three kinds of tasks.

| Code | Model |
|---|---|
| `state.backends`, `state.model_registry` | `backends`, `registry.table` (`registry.source` is a ghost: the list it was made from) |
| `registry_refresh_notify` | `permit` |
| `registry_refresh_loop`, `ModelRegistry::refresh` | `loop` with `WakeTimer`, `WakeNotified`, `CloneBackends`, `FetchDone`, `Publish` |
| `add_backend`, `update_backend`, `delete_backend` | `AddBackend`, `UpdateBackend`, `DeleteBackend`, then `SaveOk` (wakes the loop) or `NotSaved` (does not) |
| `refresh_backends` | `RefreshBackends` |
| `dispatch`, passthrough, `admin_chat` | `ClientRequest` and `Resolve`; `Passthrough`; `AdminChat`, `AdminChatDispatch`, `Resolve` |
| the backends | `server`, changed by `ServerChange` |

The answers of one refresh arrive in any order (`\E i \in loop.pending`), each
with what the backend says at that moment. A `Silent` backend accepts and never
answers: `fetch_models` has no timeout, so neither has the model. The requests'
handlers run between the loop's steps, with the table they cloned.

Left out: the `JoinError` arm of `refresh` (only a panic in `fetch_models` leads
there and nothing in it panics), the connection pool, the text of a model list
(two formats read into the same set of names).

### ConfigPersistence

One module for the eleven handlers that save. A field is its version: the
number of changes made to it. `Change` is the handler's assignment,
`ReadField` clones the next of the six fields, `Lock` takes
`config_write_lock`, `Truncate` and `Write` are `fs::write`. `Dropped`,
`OpenFails`, `WriteFails` and `Crash` are what goes wrong; `Restart` loads the
file by the rules of `serde`: a torn line or a missing `[langfuse]` or
`[server]` fails the load, any other missing section is silently its default.
The in-place migration of an old `[ollama]` section is not modelled.

### ChunkDelivery and StreamRelay

`ChunkDelivery` is the abstract promise of a streamed answer, over six variables:
the backend's chunks and end, the client's, the record, and whether the process
runs. A client gets the chunks in order; its answer ends well only when all were
received and the answer is on record, and breaks off only after all that came
before the break, unless the process stops. `StreamRelay` is `handle_streaming_response`: the task's loop
(`ReadFrame`, `ReadTrailers`, `ReadError`, `ReadEnd`), its sends
(`SendItem`, `SendRefused`), and the books after the loop (`Trace`, `Record`,
`DropSender`). A frame is a sequence of pieces of lines, so that
postprocessing line by line within one frame (`Processed`) and parsing of the
whole text (`Parsed`) are what the code does: a line cut by a frame border is
passed on as it came, yet is counted for the trace. `Delivery` is the
refinement mapping.

The client's connection is hyper's: `Receive`, `ReceiveEnd`, `Leave` are
external, modelled from how the receiver is used. A streamed answer is taken to
have no `content-length` (Ollama and llama.cpp stream in chunks), so that its end
is the end of the channel. `Exit` ends the process at
any moment.

### RecordLog and MetricsPipeline

`RecordLog` is the abstract promise of the metrics store: one line of records,
whose front becomes rows or is lost, a chunk at a time and in order; a record is
refused only when the line is long or nobody writes; a prune deletes what is
past retention, all of it and nothing else. `MetricsPipeline` implements it
(`KeepsLog`): the line is the writer's batch followed by the channel, and the
steps that move records from the one to the other are not seen from outside.

`Record` is `try_send` with its two silent failures; the writer's loop is
`Recv`, `TryRecv`, `BatchDone`, `InsertBatch` or `InsertFails`, `Prune` or
`PruneFails`. A record is its number and the day its request started; a row is a
record with its `AUTOINCREMENT` key, which gives the order of insertion. The SQL
of the queries is not modelled.

### LangfuseCollectors

| Code | Model |
|---|---|
| `langfuse_config`, `langfuse_collector` | `settings`, `current` (a position in `collectors`, the list of all ever built) |
| the `RwLock` of the collector: guards and tokio's fair queue | `readers`, `waiting` |
| a batcher's buffer; a flush on its way, with who awaits it | `buffer`, `flights` |
| `put_langfuse` | `Begin`, `TakeReadGuard` (also takes the buffer), `FlushOld` (the answer is there), `Build`, `SetSettings`, `Queue`, `SetCollector`, `Saved`; `Dropped` at any await |
| `dispatch`, the end of an answer | `Dispatch`, `CloneCollector`, `Send`; `HangUp` |
| the task that `send` spawns, two parts an event | `AddPart`, or `AddFails` when the batcher refuses the part |
| `flush_loop`, of every collector ever built | `TimerFlush` |
| the end of `main` | `Drained`, `ShutdownFlush`, `Stop` |

A flush has two steps. It takes the buffer (`Take`), and what it took is in
flight until `EndFlight`, when it is `settled`: accepted, in part accepted, or
given up after the retries, which the code logs and forgets. In between tasks add
to the same buffer, timers, calls and full buffers start flushes of their own, and
the handler that awaits one may be dropped (`admin.rs:260`): its flight is then
awaited by nobody and may end either way.

`Drained` waits for what `main.rs:191` waits for, the connections. A relay task
whose client left (`HangUp` to `"detached"`) and the tasks of `send` may still be
there; they may add while `main` awaits its own flush, and `Stop` ends them where
they are.

The batcher is an external crate, modelled from its use: `add` buffers a part or
answers an error, a full buffer is flushed, and a flush takes all there is.

### AdminSessions

| Code | Model |
|---|---|
| `admin_password_hash`, `SessionStore`, `config.toml` | `hash`, `sessions`, `disk` |
| `login` | `Login` (clones the hash), `Verify` (on another thread, against the clone), `Create`, `Answer` |
| `logout` | `Logout`, `Answer` |
| `session_auth_middleware` | `Guard`, `CheckSession` |
| `put_admin_password` | `Change`, the middleware, `SetHash`, `DropSessions`, `CloneHash`, `WriteConfig`, `Create`, `Answer` |
| a failed save, a dropped handler, a stop and start | `SaveFails`, `HangUp`, `Restart` |

Tabs of one browser share its cookie, each with one call at a time. A hash is
the password it was made from; `version` and `born` tell under which hash a
session was made. A token nobody holds any more may be given out again, which
stands for a new UUID.

### ModelAggregation

A listing clones the table and spawns a task for each backend it asks
(`ListModels`, `ListRunning`); `TaskEnds` in any order with what the backend says
at that moment; `MergeNext` takes what `join_next` yields; `Answer` when all
have ended, `Abandon` when the client leaves, which drops the tasks too. A
backend may change, fail or hang at any moment, and `Refresh` may replace the
table under a listing. The merge is `Merged`: first seen wins for models, append
for running ones. The admin page's model list is read from the table alone
(`TableNames`), without asking anyone.

### ProcessorRules and RequestLifecycle

`ProcessorRules` is the list of rules with its edits by index, and `GlobMatch`,
the table of `glob_match` as a recursive function, with `Matches` as its
reference definition. Every rule carries the number it was added under, a ghost
by which `PageStillRight` tells one rule from another.

`RequestLifecycle` extends it with the way of a request through `proxy.rs`:
`Arrive` (reads the privacy mode), `Body` (the body is in or broke off; the
backend is chosen), or `Direct` for a path that is passed through, `TakeRules`,
`TakeCollector`, `UpstreamFails` or `Headers`, and then one of the three ways of
an answer: `BodyIn` (collected, postprocessed, traced, recorded), `Through`
(handed on frame by frame, recorded when its head came), `Relayed` (the task of
`StreamRelay`, of which this module keeps `Settle`, the one record that
`ChunkDelivery` promises). Edits of rules and of the privacy mode run in
between, and the client may hang up at every await. A body is one of seven
kinds: clean, with leaked tokens, repaired, broken by tokens, broken anyway, text,
empty.

Here a request gets any backend or none: which one is `Routing` and
`ModelRegistry`. `GemmaRepair` is what the one registered processor does.

### GemmaRepair

`gemma4-tool-call-fix` on texts of symbols: the dozen replacements in the code's
order (`Replacements`), one step each; the loop over doubled quotes, one round a
step (`CollapseThree`, `CollapseTwo`, `KeepEmpty`, `NoDoubles`); the braces put
back (`Wrap`); and for an answer that is no JSON the raw repair (`RepairRaw`,
`Parse`). `IsJson` reads the JSON of strings, arrays and objects that occurs
here, in place of `serde_json`. `Init` starts from what the model meant and
from one of the forms in which its delimiters have been seen to leak, taken from
the comments and the logged answers among the code's tests.

## 3. The runs

| Run | Distinct states | Checks |
|---|---|---|
| `registry` | 0.92 M | `TypeOK`, `RefreshOwed`, `RoutesToPreferred`, `Convergence`, `ConvergesWithoutTimer` |
| `saves` | 62 k | `LostOnlyIfBehind`, `AnsweredMeansWritten`, `SavesAreCurrent` |
| `restart` | violation | `AnsweredSurvivesRestart` |
| `delivery` | 163 k | `TypeOK`, `BoundedReadahead`, `CompleteMeansRecorded`, `AccountsForDelivered`, `KeepsPromise`, `AbandonedStreamEnds`, `EndedStreamIsRecorded` |
| `books` | 101 k | `TypeOK`, `Conserved`, `KeepsLog`, `EveryRecordSettles` |
| `replace` | 173 k | `TypeOK`, `SettingsInForce`, `SentOnce`, `StartupIsFlushed`, `NobodyStarves`, `LateEventsAreFlushed` |
| `sessions` | 840 k | `TypeOK`, `OldSessionsStraddle`, `CallerStaysIn`, `RightPasswordGetsIn` |
| `listings` | 136 k | `ListingsAgree`, `FailureIsContained`, `InOrderMeansRouted` |
| `requests` | 547 k | `TypeOK`, `PageStillRight`, `RecordedOnce`, `TracedIsDelivered`, `OneSnapshot`, `GlobIsMatches` |
| `framing` | violation | `FramedAsDelivered` |
| `gemma` | 17 k | `CleanedIsMeant`, `RepairEnds` |
| `corrupt` | violation | `AlreadyValidUnchanged` |

Each property is stated in words above its definition. Every property of a
passing run has a mutant beside the definition it changes (comment
"Mutant: ..."), a plausible bug that the run's own configuration refutes.

### Bounds, and why they are enough

* `registry`: two backends at two URLs with equal or different priorities and
  types, two edits (of the three kinds, by one admin at a time: the next call may
  come while the loop still works on the last), one request, one change of a
  backend's answer among a model list, an empty list, down and silent. Two edits
  are enough to change the list both before and after a clone of one refresh; two
  backends for every order of answers, a tie, and an empty list.
* `saves`: two overlapping calls over all six fields, one fault of any kind.
  Overtaking and a fault within an overlap need no more.
* `delivery`: four frames over five shapes (whole line, line and head, tail,
  broken line, not UTF-8) and a channel of one. The channel fills with two
  frames unread, so the task waits for room, holds an item and has more to read.
* `books`: five records, channel and batch of two, a prune every second batch,
  retention of one day over two: every limit is reached and overrun.
* `replace`: two calls and a request; the settings of startup, others, and
  disabled; two collectors ever built; one event with its two parts, and a batcher
  that flushes at two. So a buffer of one part waits for a timer, a call or `main`,
  and the second part fills it or comes after a flush. A call that would build a
  third collector waits, which `NobodyStarves` names.
* `sessions`: two browsers with a tab each, two passwords and none, two changes,
  one logout and one fault (a hang-up, a failed save or a restart). A session can
  survive a change only if a login or another change overlaps it, and two calls
  overlap in every way here. Two tabs of one browser are left to the theorems of
  section 5, which have any number of both. A logout is bounded because nothing of it grows.
* `listings`: three backends of two types and three priorities with models in
  common, one of which names a model twice; one listing; two changes of backends
  during it. Three answers come in every order, and a backend can fail and return.
* `requests`: one request of any kind (nine combinations of path, body, model and
  stream flag) to one of two backends, rules for both phases, two edits, one
  switch of the privacy mode. Requests share nothing but rules and mode, so that
  a second one would add nothing to what the edits do. `GlobMatch` is compared on
  all patterns of up to three characters over a capital, a letter and both
  wildcards, and all texts of up to three.
* `gemma`: up to three strings of four kinds (empty, plain, ending in and
  beginning with an escaped quote), as members of an object or items of an array,
  with and without a space after separators, in eight forms of leak and under
  three roles.

### Deadlock

Deadlock is checked in `saves`, `sessions`, `listings`, `requests` and `gemma`
(in `sessions` and `gemma` a `Rest` step names the states in which nothing is to
be done). It is off where the system may really stop: in `registry` when a
silent backend is asked at startup, so that the gateway never serves; in the relay, the metrics and the
collectors because the process exits or the answer ends. There the liveness
properties find what is stuck.

### Fairness

* tokio polls every ready task: weak fairness of the steps of the loop, of the
  relay task, of the handlers of `put_langfuse`, of login and password change,
  and of the clone of the collector at dispatch. Where a fault can end a step it
  is either in the same disjunction or left free: fairness never forces a fault,
  nor forbids one.
* The operating system runs the metrics thread: weak fairness of `Writer`.
* A flush ends one way or another, for the client's retries are limited, and the
  timers of the flush loops fire. It is enough that some flush ends as long as there
  are any, and that some loop fires as long as one has something to flush: events
  are bounded, so each comes to its turn.
* Nothing is assumed of backends, of clients, or of when an admin calls. Where a
  property needs the timer of the refresh loop (`Convergence`), a client that
  takes its chunks or leaves (`EndedStreamIsRecorded`), or somebody who keeps
  trying the right password (`RightPasswordGetsIn`), that is a premise within the
  property. `Convergence` also has the premise that backends stop hanging: no
  timeout in the code ends the wait for one that accepts and never answers.
* `saves`, `listings` and `requests` state safety only, and no fairness.

## 4. What the violations say

* `restart` (`config.rs:161`): `fs::write` truncates in place. A stop within it
  leaves a file that does not load, or one that loads without its last sections.
* `framing` (`proxy.rs:595`): an answer that a postprocessor has rewritten goes out
  under the backend's own head. Where that has a `Content-Length`, it is the length
  of the old body.
* `corrupt` (`gemma4.rs:245`): `""` is collapsed whatever stands before it, so that
  a string that ends in an escaped quote loses its end. The arguments were valid
  and held no marker; they are no JSON afterwards.

Behaviours that the models have, that no property denies, and that a maintainer
should know of:

* Saves: the six fields are cloned before the write lock is taken
  (`admin.rs:755`), so the older of two snapshots may be written last. Both calls
  answered ok; one change is not in the file until the next save
  (`LostOnlyIfBehind` names it, `SavesAreCurrent` says that the next save has it).
* Backends: PUT takes a new name without the check that POST makes
  (`admin.rs:459`); DELETE then removes both, PUT reaches the first. Processor
  rules keep the name a backend had before.
* The admin chat reads the table twice (`admin.rs:577`): the path may fit the type
  of one backend and the request go to another.
* No timeout anywhere on a backend's answer: one that hangs holds up the refresh
  loop and every change behind it (`registry.rs:119`), startup before the listeners
  open, a listing that asks it (`proxy.rs:349`), a request (`proxy.rs:464`).
* Shutdown flushes the collector built at startup, not the one in force
  (`main.rs:194`), and awaits that flush only: flushes that timers, full buffers or
  dropped calls began are cut off with the process, and so is what relay tasks and
  tasks of `send` add during the await. `StartupIsFlushed` is what remains true.
* Settings and collector are written under two locks (`admin.rs:274`, `admin.rs:278`):
  two calls that cross there, or a handler dropped between them, leave the collector
  of one call beside the settings of another until the next change
  (`SettingsInForce` says that nothing else can).
* A change of the password trims what it is given (`admin.rs:164`), a login does not:
  with blanks around it, the password that was just set is refused.
* Sessions: a login that was verified against the old password may create its
  session after the change has dropped all (`admin.rs:132`;
  `OldSessionsStraddle` says that nothing else can). `README.md:126` has sessions
  "only clear on logout or gateway restart"; a change of the password clears them
  too. The comment at `admin.rs:77` leaves out `/api/logout`, which needs no session.
* Listings: answers are merged in the order they come, not in that of priorities
  (`proxy.rs:362`), so of a model of two backends either one's entry may be shown;
  without any healthy backend the answer is an error object under status 200.
* Rules: PUT of a rule accepts the empty pattern, which POST refuses; the calls name
  a rule by its index alone, and behind a deleted one they hit another
  (`admin.rs:684`; `PageStillRight` is what remains true).
* Requests: a body that breaks off in a buffered answer is an empty one under the
  backend's status (`proxy.rs:496`). Metrics know a model by the key "model" only,
  though routing also reads "name".
* Repair: an empty string ends the loop over doubled quotes, so that later ones
  stay; the raw repair rewrites `"|` and `|"` anywhere in the body; a streamed delta
  without a role is not cleaned, though the comment says "Streaming chunks: clean
  deltas".
* Langfuse: token counts are `u64` and sent as `i32` (`langfuse/models.rs:55`); a
  flush interval of 0 panics in the spawned flush loop (`langfuse/collector.rs:69`).

## 5. What is proved

Each theorem holds for every value of the constants that satisfies the named
assumptions of its module, which TLC evaluates in the runs above.

Facts about sequences of any length are proved by a least counterexample: `Least`,
from the well-foundedness of `<` on the numbers, gives the smallest number with a
property. For a definition that is a recursive function this gives first that
exactly one function solves its equation, then what that function computes.

`ModelRegistryProofs` begins with the operators of `Routing`: `InOrder` enumerates
a finite set of positions once each, by key, and so `SortByPriority` is a sorted
permutation, and an index lists entries from the most preferred on.

* `PickIsAllowed`: for every sequence of answers, the backend that `Pick` takes
  from the table made of it is one that `AllowedTargets` allows;
* `TypeCorrect`: `Spec => []TypeOK`;
* `NoLostRefresh`: `Spec => []RefreshOwed`. `RefreshOwed` is not inductive: it
  says nothing of a refresh in flight on an older list. `RefreshInvariant` adds
  that such a refresh is itself followed by a wake-up: when the list being
  fetched is not the current one, a permit, a handler still saving or an unsaved
  change is there. Then `Publish` may install the old list and a refresh is still
  owed;
* `RoutingCorrect`: `Spec => []RoutesToPreferred`, from `RoutingInvariant` (every
  table, published or cloned, is sorted) and `PickIsAllowed`;
* `TableHasItsBackends`: `Spec => []TableOfSource`: a published table has one entry for
  each backend of the list that was asked (`OneEach`, by a bijection of places),
  and a failed one lists nothing. From `TableInvariant`, which says the same of the
  answers that have come in while others are pending;
* `StillBackendsAreInSync`: in every behaviour in which the backends stay as they are,
  a table made of the current list has exactly its backends and says what they
  answer. This and `NoLostRefresh` are the safety half of `Convergence`: what the loop
  publishes is right, and it is always owed; that the loop gets there is liveness.

`ConfigPersistenceProofs`:

* `TypeCorrect`: `Spec => []TypeOK`, from `TypeInvariant`, which adds that no
  version, in memory, file or snapshot, exceeds the number of changes (`Counted`).
  The run leaves it out: its own bound would be what it checks;
* `LossesAreKnown`: `Spec => []LostOnlyIfBehind`, and `AnsweredAfterWrite`:
  `Spec => AnsweredMeansWritten`, both from `SaveInvariant`, which adds for every
  call under way that it clones in order (`ClonesInOrder`): it locks and writes
  only with all six fields cloned, no clone is ahead of memory, and its clone of
  the field it changed has at least its own version. The theorems do not need
  the mutual exclusion of the lock;
* `LaterSavesHeal`: `Spec => SavesAreCurrent`, from `AllCaught`: while a call is on its
  way memory does not fall behind what it held after the call's change, and so no
  clone made since is older (`Caught`).

`StreamRelayProofs`:

* `TypeCorrect`: `Spec => []TypeOK`, and `CompleteIsRecorded`:
  `Spec => []CompleteMeansRecorded`, both from `Books`: record and event are made
  exactly when the task is at the step that follows them, the channel is closed
  only at the last one, and a client has a complete answer only after that;
* `ReadaheadIsBounded`: `Spec => []BoundedReadahead`, and `RelayKeepsPromise`:
  `Spec => KeepsPromise`, the refinement of `ChunkDelivery`. Both rest on `Flow`:
  while the client reads, what it got, the channel and the item the task holds
  are together the frames the task has read, each where it belongs (`AllThere`),
  or the task has broken off and the last item of the channel is the error
  (`BrokenOff`, with nothing behind it: `ErrorIsLast`). A connection that breaks while
  the process runs is one whose backend failed (`Broken`), and the task comes to its
  record only after the backend's end or the client's leaving (`RecordSettles`). So the head of the channel is the client's next chunk
  (`NextChunkDelivered`), and a channel that is closed and empty has delivered a
  whole answer (`CleanEndIsWhole`). The modelled capacity, alphabet of frames and
  length of the answer are arbitrary here;
* `BooksAccountForDelivered`: `Spec => []AccountsForDelivered`. The accumulated text
  does not say where a frame ends in it, so the invariant `InOrder` says that there
  are offsets at which the frames read end (`Ends`), each piece between two of
  them being the frame as the client gets it. `ReadFrame` adds one, `Receive` none,
  and the join of what the client got is the text up to its own offset
  (`PrefixesJoin`, over the recursion of the property);
* `TaskRunsOut`: the safety half of `AbandonedStreamEnds` and `EndedStreamIsRecorded`.
  `StepsLeft`, two for every frame not yet read and a few for the step the task is at,
  is a natural number that each step of the task lowers and, once the backend has
  ended, nobody raises, whatever the client does. What is left to fairness is
  that the task's steps are taken.

`AdminSessionsProofs`, for any tabs, browsers, passwords and tokens:

* `TypeCorrect`: `Spec => []TypeOK`;
* `OldSessionsAreKnown`: `Spec => []OldSessionsStraddle`, which is inductive given
  the types: only `SetHash` moves the version and leaves a drop due, only `Create`
  adds a session, and it notes the version its call began under;
* `CallerIsLetIn`: `Spec => []CallerStaysIn`, from `TokensApart`: a token on its
  way to a caller is no browser's cookie and no other call's, so that no logout
  can take it away, and a call has seen no more drops than there were.

`RequestLifecycleProofs`, for any requests, rules, edits and kinds of call:

* `PagesStayRight`: `Spec => []PageStillRight`: inductive given the types of the
  rules. Below the lowest index deleted, an update keeps a rule's number, an
  addition goes behind, a deletion moves nothing;
* `TypeCorrect`, `AnswersAreRecorded` and `TracesAreTrue`: `Spec => []TypeOK`,
  `[]RecordedOnce` and `[]TracedIsDelivered`, from `BooksInvariant`, which says for
  every request how often it is recorded at each step of its way (`RecordRight`:
  once from its head on when it goes the plain way, not before its end
  otherwise, never under a 502) and what its event may be (`TraceRight`);
* `SnapshotsAreOne`: `Spec => []OneSnapshot`, from `SnapshotInvariant`: of the lists of
  rules that were in force since a request came, one and the same explains whether
  its body was fixed and which postprocessors it carries (`Treated`), and later what
  the client is given (`Given`); before it took its rules, the list in force is
  among them. An edit only adds lists;
* `GlobMatchIsRight`: `Spec => []GlobIsMatches`, for patterns and names of any length.
  The table that `GlobTable` fills is the only one that solves its equation
  (`GlobUnique`), and so does the one that holds, at row i and column j, whether
  the first j characters can be cut into i pieces that fit the first i characters
  of the pattern (`MatchSolves`, from `StarMatches` and `OneMatches`).

`LangfuseCollectorsProofs`, for any calls, requests, settings and buffers:

* `TypesAreRight`: `Spec => []TypeOK`, from `Types`, which adds that the collector a
  call has built is one of those there are;
* `SettingsAreInForce`: `Spec => []SettingsInForce`, from `InForce`: a call that is
  past its build has a collector of its own settings, or none where they are disabled
  (`BuiltRight`), and the author of the settings in force, while it has its
  collector still to write, has just those settings (`Authored`). So when the author
  writes its collector the two fit, and they fit until somebody writes again;
* `PartsAreSentOnce`: `Spec => []SentOnce`, for which each kind of place is told from
  the others: buffers (`BuffersApart`), flights (`FlightsApart`), tasks (`TasksApart`)
  and the four kinds together (`Partition`). A flush moves a buffer to a flight that
  no other holds a part of, whoever else is flushing; a task moves one part, to a
  buffer, to a flight with the full buffer, or to the refused;
* `TheStartupCollectorIsFlushed`: `Spec => []StartupIsFlushed`, from `AtTheEnd`: once the
  servers have ended no call runs (`CallsHaveEnded`), so that whatever is in flight
  is awaited by `main` or by nobody (`Awaited`), and what the startup collector held is
  in it until `main` flushes it, or was taken by somebody else, and then in a flight
  or settled (`Owing`). That tasks still add to it in the meantime changes none
  of this;
* `QueueMoves`: the safety half of `NobodyStarves`. Who waits is in the queue, once, and
  nobody else is, a caller that hung up included (`LockIsTrue`); the first of the
  queue can go, or is a writer and some call flushes under the guard (`HeadGoes`);
  and no step takes anybody further from the front (`Forward`).

`ModelAggregationProofs`, for any backends, answers, listings and changes. It repeats
what it needs of `Routing` (`ModelRegistryProofs` has a state and a specification of
its own, so that neither can extend the other), and adds what `Keep` and `AddNew` do
to a list (`KeepChooses`, `AddNewAdds`).

* `ListingsDoAgree`, `FailuresAreContained`, `OrderedListingsAreRouted`:
  `Spec => []ListingsAgree`, `[]FailureIsContained` and `[]InOrderMeansRouted`. The
  three speak of complete listings only. What leads there is `Good`, which holds of
  every listing at every step, whatever the backends are at that moment: each
  backend asked is at one place, running, ended or heard (`EachOnce`); an answer that
  waits to be merged, from a backend that did not change since it was asked, is what
  that backend says now (`DoneTold`), and so is what was merged of it (`ItemsTold`);
  nothing of it is missing (`ModelsTold`, `RunningTold`); of two that name a model
  the one heard first is shown (`FirstTold`); and an unchanged backend's entry in
  the table is what it says (`TableTold`). A change of a backend, in the middle of
  a listing, only narrows what these say (`MovedIsGood`).

`MetricsPipelineProofs`, for any channel, batch, retention and number of records:

* `TypeCorrect`: `Spec => []TypeOK`, from `Types`, which adds that a writer that does
  not fill or insert holds no batch;
* `RecordsConserved`: `Spec => []Conserved`, from `Books`, which adds `Keyed`: a key is
  that of one row, so that a pruned record has no second row that stays, and every
  row comes before the records in work, so that an insert keeps the order of keys;
* `LogIsKept`: `Spec => KeepsLog`, the refinement of `RecordLog`. A call of `record`
  extends the line at its end (`AppendExtendsLine`), taking a record into the batch
  leaves the line as it is (`TakeKeepsLine`), an insert or its failure takes the batch
  off the front (`BatchLeavesLine`); `Laden`, that a batch being filled or inserted is
  not empty, is what makes these steps of `RecordLog` and not steps of nothing;
* `PrunesAreExact`: `Spec => PruneIsExact`, what `LogIsKept` says of a prune for a reader
  who wants no mapping: a step that takes a row away takes all that have expired
  and no others. It needs no invariant;
* `WaitsRunOut`: the safety half of `EveryRecordSettles`. `Wait(n)`, at worst a whole
  batch and a prune for each record of the channel up to n, is a natural number
  that every step of the writer lowers until n is settled, failed steps included, and
  nobody raises: no later record overtakes an earlier one.

Only model-checked: every liveness property. Fairness and `ENABLED` are beyond the
prover. For the relay, the metrics, the collectors and the registry the theorems above
say what a step does for progress; that there always is such a step, and that it is
taken, stays with TLC, as do `RightPasswordGetsIn` and `RepairEnds` as a whole. And of the safety properties `CleanedIsMeant` of `GemmaRepair`: a dozen
replacements, a loop and a reader of JSON one after the other, each a recursion over
the text, of which one would have to know what it makes of every text the one before
leaves. Everything else that the passing runs check is a theorem.

## 6. What is not modelled

* SQL of the metrics queries: they read the rows, behind a mutex of their own, and
  change nothing.
* The text taken out of a body for a trace (`extract_input`, `extract_output`,
  `parse_stream_accumulated` beyond what `StreamRelay` has of it), and the fields of
  an event and of a record: formatting.
* Bearer tokens: one lookup under a read lock. Connection ids, API types, the admin
  page: no state that interleaves.
* The migration of an old `[ollama]` section: runs once, sequentially, at load.
* In front of the admin handlers, the session middleware is modelled for
  `put_admin_password` only, the call that interacts with it; any other admin call
  in the models is one that got through.
* Blanks around a password (section 4), and in `GemmaRepair` objects with an empty
  string for a key, of which `gemma4.rs:232` says that they are kept.
* A panic in a task or thread, and what tokio makes of it.

## 7. Plan

Done, in this order: what loses or misroutes (registry, persistence, relay,
metrics, collectors), then what merges and edits (sessions, aggregation, rules,
requests, repair), and the proofs of section 5. What is left is
`CleanedIsMeant` as a theorem: the replacements of `GemmaRepair` as maps on the
pieces that a leaked text is made of, for any number of strings.
