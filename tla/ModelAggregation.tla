-------------------------- MODULE ModelAggregation --------------------------
(***************************************************************************)
(* The listings: /api/tags and /v1/models ask every healthy backend for    *)
(* its models and merge the answers by name, /api/ps and the admin page's  *)
(* running models ask every healthy Ollama backend and append, and the     *)
(* admin page's model list reads the routing table alone.                  *)
(*                                                                         *)
(* A listing spawns one task for each backend of the table it cloned       *)
(* (a JoinSet), merges what the tasks return in the order they end, and    *)
(* waits for all of them: there is no timeout.  The backends may change,   *)
(* fail or hang meanwhile, and the table may be replaced.                  *)
(*                                                                         *)
(* An answer is the sequence of the names in it; one that is not a list,   *)
(* is not JSON or breaks off is like none.                                 *)
(***************************************************************************)
EXTENDS Routing

S == INSTANCE SequencesExt

CONSTANTS
  Names, Urls,    \* names and URLs of backends
  Models,         \* model names
  Configs,        \* the backends, as configured
  Answers,        \* the lists a backend may answer with
  Down, Silent,   \* it refuses or fails; it accepts and never answers
  InitialServers, \* what each URL answers at first
  Listings,       \* listings that may run at a time
  MaxFlips        \* bound: changes of the backends

ServerStates == Answers \cup {Down, Silent}
Config == [name : Names, url : Urls, type : {"ollama", "llamacpp"}, priority : Int]

ASSUME ConfigsAssumption == Configs \in Seq(Config) /\ None \notin Config
ASSUME ServersAssumption ==
  /\ Answers \subseteq Seq(Models) /\ Down \notin Answers /\ Silent \notin Answers \cup {Down}
  /\ InitialServers \in [Urls -> ServerStates \ {Silent}]
ASSUME FlipsAssumption == MaxFlips \in Nat

VARIABLES
  server,   \* what each URL answers
  table,    \* AppState.model_registry
  listing,  \* the listing requests
  moved,    \* ghost: the URLs that changed since the table was made
  flips

vars == <<server, table, listing, moved, flips>>

\* A finished refresh (ModelRegistry has its steps): who fails has no models.
Refreshed ==
  RegistryOf([i \in DOMAIN Configs |->
    LET answer == server[Configs[i].url] IN
    Entry(Configs[i], IF answer = Down THEN {} ELSE S!ToSet(answer), answer # Down)])

Idle == [kind |-> "none", table |-> <<>>, running |-> {}, done |-> <<>>,
         merged |-> <<>>, order |-> <<>>, stale |-> FALSE, moved |-> {}]

Init ==
  /\ server = InitialServers
  /\ table = Refreshed
  /\ listing = [r \in Listings |-> Idle]
  /\ moved = {} /\ flips = 0

ServerChange(u) ==
  /\ flips < MaxFlips /\ flips' = flips + 1
  /\ \E answer \in {Down, Silent} \cup Answers :
       answer # server[u] /\ server' = [server EXCEPT ![u] = answer]
  /\ moved' = moved \cup {u}
  /\ listing' = [r \in Listings |->
       IF listing[r].kind = "none" THEN Idle ELSE [listing[r] EXCEPT !.moved = @ \cup {u}]]
  /\ UNCHANGED table

Refresh ==
  /\ moved # {} /\ \A u \in Urls : server[u] # Silent
  /\ table' = Refreshed /\ moved' = {}
  /\ UNCHANGED <<server, listing, flips>>

-----------------------------------------------------------------------------
HealthyOllama(entries) == {i \in Healthy(entries) : entries[i].config.type = "ollama"}

\* The table is cloned and one task spawned for each backend asked.
Spawn(r, kind, asked) ==
  /\ listing[r].kind = "none"
  /\ listing' = [listing EXCEPT ![r] =
       [Idle EXCEPT !.kind = kind, !.table = table, !.running = asked, !.stale = moved # {}]]
  /\ UNCHANGED <<server, table, moved, flips>>

\* GET /api/tags, /v1/models.
ListModels(r) == Spawn(r, "models", Healthy(table))

\* GET /api/ps, and the admin page's running models.
ListRunning(r) == Spawn(r, "running", HealthyOllama(table))

\* A task ends, with the list or with None.
TaskEnds(r, i) ==
  LET answer == server[listing[r].table[i].config.url] IN
  /\ i \in listing[r].running
  /\ answer # Silent
  /\ listing' = [listing EXCEPT ![r].running = @ \ {i},
                                ![r].done = Append(@, [from |-> i, answer |-> answer])]
  /\ UNCHANGED <<server, table, moved, flips>>

From(i, names) == [k \in DOMAIN names |-> [name |-> names[k], from |-> i]]

Listed(list) == {list[k].name : k \in DOMAIN list}

\* Each name of an answer that is not in the list yet, once.
AddNew(merged, i, names) ==
  merged \o Keep(From(i, names),
                 {k \in DOMAIN names : /\ names[k] \notin Listed(merged)
                                       /\ \A j \in 1..(k - 1) : names[j] # names[k]})

\* Mutant: a name is looked up in what was there before this answer.
Merged_OldOnly(kind, merged, i, names) ==
  IF kind = "models"
  THEN merged \o Keep(From(i, names), {k \in DOMAIN names : names[k] \notin Listed(merged)})
  ELSE merged \o From(i, names)

\* Mutant: the last answer wins.
Merged_LastWins(kind, merged, i, names) ==
  IF kind = "models"
  THEN Keep(merged, {k \in DOMAIN merged : merged[k].name \notin S!ToSet(names)})
       \o AddNew(<<>>, i, names)
  ELSE merged \o From(i, names)

Merged(kind, merged, i, names) ==
  IF kind = "models" THEN AddNew(merged, i, names) ELSE merged \o From(i, names)

\* Mutant: an answer that failed ends the merge.
MergeNext_StopsAtFailure(r) ==
  /\ listing[r].done # <<>>
  /\ LET next == Head(listing[r].done) IN
     listing' = IF next.answer = Down
       THEN [listing EXCEPT ![r].done = <<>>, ![r].running = {}]
       ELSE [listing EXCEPT ![r].done = Tail(@), ![r].order = Append(@, next.from),
              ![r].merged = Merged(listing[r].kind, @, next.from, next.answer)]
  /\ UNCHANGED <<server, table, moved, flips>>

\* join_next yields the tasks in the order they ended.
MergeNext(r) ==
  /\ listing[r].done # <<>>
  /\ LET next == Head(listing[r].done) IN
     listing' = [listing EXCEPT ![r].done = Tail(@), ![r].order = Append(@, next.from),
       ![r].merged = IF next.answer = Down THEN @
                     ELSE Merged(listing[r].kind, @, next.from, next.answer)]
  /\ UNCHANGED <<server, table, moved, flips>>

Complete(r) == listing[r].kind # "none" /\ listing[r].running = {} /\ listing[r].done = <<>>

\* join_next returns None: the list is answered.
Answer(r) ==
  /\ Complete(r)
  /\ listing' = [listing EXCEPT ![r] = Idle]
  /\ UNCHANGED <<server, table, moved, flips>>

\* The client leaves: the handler is dropped, and the JoinSet with its tasks.
Abandon(r) ==
  /\ listing[r].kind # "none" /\ ~Complete(r)
  /\ listing' = [listing EXCEPT ![r] = Idle]
  /\ UNCHANGED <<server, table, moved, flips>>

-----------------------------------------------------------------------------
ListingStep(r) == (\E i \in listing[r].running : TaskEnds(r, i)) \/ MergeNext(r) \/ Answer(r)

Next ==
  \/ \E u \in Urls : ServerChange(u)
  \/ Refresh
  \/ \E r \in Listings : ListModels(r) \/ ListRunning(r) \/ ListingStep(r) \/ Abandon(r)

Spec == Init /\ [][Next]_vars

-----------------------------------------------------------------------------
\* get_models: the admin page's list, from the table alone.
TableNames(entries) == UNION {entries[i].models : i \in Healthy(entries)}

\* Nothing changed since the table of the listing was made, so nothing failed.
Quiet(r) == ~listing[r].stale /\ listing[r].moved = {}

\* Three paths read the backends' lists, each in its own way, and agree: while
\* nothing changes, the list a client gets, the admin page's list, and the
\* models that routing finds a backend for are the same; and no model twice.
ListingsAgree ==
  \A r \in Listings :
    Complete(r) /\ listing[r].kind = "models" /\ Quiet(r) =>
      LET l == listing[r] IN
      /\ Listed(l.merged) = TableNames(l.table)
      /\ Listed(l.merged) = {m \in Listed(l.merged) \cup TableNames(l.table) :
                              ResolveBackend(l.table, m) # None}
      /\ \A j, k \in DOMAIN l.merged : l.merged[j].name = l.merged[k].name => j = k

AsAnswered(merged, i, names) ==
  \E start \in 0..Len(merged) :
    /\ {k \in DOMAIN merged : merged[k].from = i} = (start + 1)..(start + Len(names))
    /\ \A j \in DOMAIN names : merged[start + j].name = names[j]

\* A backend that fails takes nothing with it: a model of any backend that was
\* asked, answers, and did not change meanwhile is in the list; and what is running
\* on such a backend is listed as it says, in one piece and once.
FailureIsContained ==
  \A r \in Listings :
    LET l == listing[r]
        asked == IF l.kind = "models" THEN Healthy(l.table) ELSE HealthyOllama(l.table)
    IN  Complete(r) =>
          \A i \in asked :
            LET url == l.table[i].config.url IN
            url \notin l.moved /\ server[url] \in Answers =>
              IF l.kind = "models" THEN S!ToSet(server[url]) \subseteq Listed(l.merged)
              ELSE AsAnswered(l.merged, i, server[url])

\* What the comment on the merge assumes of the order ("backends are
\* priority-sorted") holds of the table and not of the answers.  When these do
\* come in the table's order, what is listed of a model is what the backend says
\* that a request for it goes to.
InOrderMeansRouted ==
  \A r \in Listings :
    LET l == listing[r] IN
    /\ Complete(r) /\ l.kind = "models" /\ Quiet(r)
    /\ \A j, k \in DOMAIN l.order : j <= k => l.order[j] <= l.order[k]
    => \A k \in DOMAIN l.merged :
         l.table[l.merged[k].from].config = ResolveBackend(l.table, l.merged[k].name)

=============================================================================
