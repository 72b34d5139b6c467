--------------------------- MODULE RequestLifecycle ---------------------------
(***************************************************************************)
(* One proxied request from its arrival to its answer: dispatch, the       *)
(* buffered and the plain way through proxy.rs, and what happens to the    *)
(* body on both, while rules and privacy mode are edited, the backend      *)
(* fails or breaks off and the client may leave at any await.              *)
(*                                                                         *)
(* A body is what tells it apart here: whether it is JSON, and whether     *)
(* special tokens of the model have leaked into it.  Which backend a       *)
(* request gets is Routing and ModelRegistry, the list endpoints are       *)
(* ModelAggregation, what becomes of a streamed answer and what its task   *)
(* records is StreamRelay, what gemma4-tool-call-fix does to a text is     *)
(* GemmaRepair.                                                            *)
(***************************************************************************)
EXTENDS ProcessorRules

CONSTANTS
  Requests,
  Calls,           \* what a client may send: [path, json, model, stream]
  NoModel,         \* no "model" or "name" in the request
  Backends,
  NoBackend,
  InitialPrivacy,  \* what config.toml may say of the privacy mode
  Lengths,         \* "right" for an answer with a Content-Length, "none" for one without
  FixId,           \* "gemma4-tool-call-fix", the only registered processor
  SomePatterns, SomeTexts,  \* what glob matching is compared on
  MaxToggles       \* bound: changes of the privacy mode

ASSUME RequestsAssumption ==
  /\ Calls # {}
  /\ \A call \in Calls :
       call.json \in BOOLEAN /\ (call.model # NoModel => call.model \in Seq(Chars))
  /\ SomePatterns \subseteq Seq(Chars) /\ SomeTexts \subseteq Seq(Chars)
  /\ InitialPrivacy \subseteq BOOLEAN /\ Lengths \subseteq {"none", "right"}
  /\ MaxToggles \in Nat

VARIABLES
  request,   \* of each request: where it is and what its handler has in hand
  privacy,   \* privacy_mode
  wanted,    \* ghost: what the rules said of the request at any time since it
             \*   had its backend: [pre, post]
  records,   \* ghost: MetricsRecords of the request
  traced,    \* ghost: the body in its trace event, and whether in the clear
  toggles

vars == <<ruleVars, request, privacy, wanted, records, traced, toggles>>

(***************************************************************************)
(* Paths: "native" and "v1" stand for the traced ones, "show" for the      *)
(* untraced ones with a model, "other" for the rest.                       *)
(***************************************************************************)
OnTracedPath(call) == call.path \in {"native", "v1"}

\* A body that is no JSON says nothing of streams; native paths stream by default.
Streaming(call, json) ==
  IF json /\ call.stream # "unset" THEN call.stream = "yes" ELSE call.path # "v1"

\* The model that routing and rules go by; "" without one.
ModelOf(call, json) == IF json /\ call.model # NoModel THEN call.model ELSE <<>>

(***************************************************************************)
(* Bodies of answers: "clean", "marked" (JSON with leaked tokens in its    *)
(* tool calls), "fixed" (the same without), "broken" (no JSON because of   *)
(* tokens), "wreck" (no JSON even without them), "text", and "empty".      *)
(***************************************************************************)
JsonBodies == {"clean", "marked", "fixed"}
BackendBodies == {"clean", "marked", "broken", "wreck", "text"}
AllBodies == JsonBodies \cup BackendBodies \cup {"empty"}

\* try_repair_raw: only a text with tokens is changed.
RepairRaw(body) == CASE body = "broken" -> "marked" [] body = "wreck" -> "text" [] OTHER -> body

\* apply_postprocessors; unknown ids are skipped.
ApplyPost(ids, body) == IF FixId \in ids /\ body = "marked" THEN "fixed" ELSE body

\* JSON as it is, else repaired if that makes it JSON, else left alone.
Postprocessed(ids, body) ==
  LET repaired == IF FixId \in ids THEN RepairRaw(body) ELSE body
  IN  IF body \in JsonBodies THEN ApplyPost(ids, body)
      ELSE IF repaired \in JsonBodies THEN ApplyPost(ids, repaired) ELSE body

-----------------------------------------------------------------------------
NoAnswer == [status |-> "none", body |-> "empty", whole |-> FALSE, length |-> "none"]

New == [pc |-> "new", call |-> CHOOSE call \in Calls : TRUE, private |-> FALSE, json |-> FALSE,
        backend |-> NoBackend, post |-> {}, fixed |-> FALSE, usage |-> FALSE,
        collector |-> FALSE, got |-> "empty", length |-> "none", answer |-> NoAnswer]

NoTrace == [body |-> "none", clear |-> FALSE]

Init ==
  /\ RulesInit
  /\ request = [r \in Requests |-> New]
  /\ privacy \in InitialPrivacy
  /\ wanted = [r \in Requests |-> {}]
  /\ records = [r \in Requests |-> 0]
  /\ traced = [r \in Requests |-> NoTrace]
  /\ toggles = 0

Set(r, new) == request' = [request EXCEPT ![r] = new]
UnchangedAround == UNCHANGED <<ruleVars, privacy, toggles>>

Answered(req, status, body, whole, length) ==
  [req EXCEPT !.pc = "answered", !.post = {}, !.collector = FALSE,
              !.answer = [status |-> status, body |-> body, whole |-> whole, length |-> length]]

BadGateway == Answered(New, "502", "empty", TRUE, "right")

\* Reference definition: what a list of rules asks for, of a model and a backend.
Wants(list, model, backend) ==
  LET asks(k) == list[k].body.backend \in {AnyBackend, backend}
                 /\ Matches(list[k].body.pattern, model)
  IN  [pre  |-> \E k \in DOMAIN list : asks(k) /\ FixId \in list[k].body.pre,
       post |-> \E k \in DOMAIN list : asks(k) /\ FixId \in list[k].body.post]

-----------------------------------------------------------------------------
\* proxy_handler reads the privacy mode; dispatch takes the registry and waits
\* for the body, unless the path is passed through unread.
Arrive(r, call) ==
  /\ request[r].pc = "new"
  /\ Set(r, [New EXCEPT !.pc = IF call.path = "other" THEN "direct" ELSE "body",
                        !.call = call, !.private = privacy])
  /\ UNCHANGED <<wanted, records, traced>> /\ UnchangedAround

\* The body is in, or has broken off and counts as empty; a streamed /v1 request
\* gets stream_options; the model picks the backend.
Body(r, whole, backend) ==
  /\ request[r].pc = "body"
  /\ LET req  == request[r]
         json == whole /\ req.call.json
         new  == [req EXCEPT !.json = json, !.backend = backend, !.pc = "rules",
                             !.usage = json /\ req.call.path = "v1" /\ req.call.stream = "yes"]
     IN  IF backend = NoBackend
         THEN Set(r, BadGateway) /\ UNCHANGED wanted
         ELSE /\ Set(r, new)
              /\ wanted' = [wanted EXCEPT ![r] = {Wants(rules, ModelOf(req.call, json), backend)}]
  /\ UNCHANGED <<records, traced>> /\ UnchangedAround

\* The default backend, for a request that is passed through.
Direct(r, backend) ==
  /\ request[r].pc = "direct"
  /\ Set(r, IF backend = NoBackend THEN BadGateway
            ELSE [request[r] EXCEPT !.backend = backend, !.pc = "upstream"])
  /\ UNCHANGED <<wanted, records, traced>> /\ UnchangedAround

\* Rules are cloned under their lock and resolved; preprocessors run on JSON.
TakeRules(r) ==
  /\ request[r].pc = "rules"
  /\ LET req == request[r]
         ids == ResolveProcessors(rules, ModelOf(req.call, req.json), req.backend)
     IN  Set(r, [req EXCEPT !.pc = "collector", !.post = ids.post,
                            !.fixed = req.json /\ FixId \in ids.pre])
  /\ UNCHANGED <<wanted, records, traced>> /\ UnchangedAround

\* langfuse_collector is cloned under its lock; there may be none.
TakeCollector(r, some) ==
  /\ request[r].pc = "collector"
  /\ Set(r, [request[r] EXCEPT !.pc = "upstream", !.collector = some])
  /\ UNCHANGED <<wanted, records, traced>> /\ UnchangedAround

-----------------------------------------------------------------------------
\* No connection, or a URL that does not parse: 502, and no record.
UpstreamFails(r) ==
  /\ request[r].pc = "upstream"
  /\ Set(r, BadGateway)
  /\ wanted' = [wanted EXCEPT ![r] = {}]
  /\ UNCHANGED <<records, traced>> /\ UnchangedAround

\* Mutant: every answer is recorded here, as those of the plain way are.
Headers_RecordsAll(r, body, length) ==
  /\ request[r].pc = "upstream"
  /\ LET req == request[r] IN
     Set(r, [req EXCEPT !.got = body, !.length = length,
               !.pc = IF OnTracedPath(req.call)
                      THEN IF Streaming(req.call, req.json) THEN "relay" ELSE "collect"
                      ELSE IF req.post # {} THEN "collect" ELSE "through"])
  /\ records' = [records EXCEPT ![r] = @ + 1]
  /\ UNCHANGED <<wanted, traced>> /\ UnchangedAround

\* The head of the answer is in.  A traced stream is handed to its task; other
\* traced answers are collected; the plain way records now and collects the body
\* only for postprocessors.
Headers(r, body, length) ==
  /\ request[r].pc = "upstream"
  /\ LET req == request[r] IN
     /\ Set(r, [req EXCEPT !.got = body, !.length = length,
                  !.pc = IF OnTracedPath(req.call)
                         THEN IF Streaming(req.call, req.json) THEN "relay" ELSE "collect"
                         ELSE IF req.post # {} THEN "collect" ELSE "through"])
     /\ records' = [records EXCEPT ![r] = @ + (IF OnTracedPath(req.call) THEN 0 ELSE 1)]
  /\ UNCHANGED <<wanted, traced>> /\ UnchangedAround

\* A body that breaks off is taken for an empty one.
Collected(req, whole) == IF whole THEN req.got ELSE "empty"

\* The head goes out as it came in, its Content-Length included.
LengthOf(req, body) == IF req.length = "right" /\ body # req.got THEN "stale" ELSE req.length

\* build_trace_event needs JSON on both sides.
TraceOf(req, body) ==
  IF req.collector /\ req.json /\ body \in JsonBodies
  THEN [body |-> body, clear |-> ~ req.private] ELSE NoTrace

\* Mutant: the event is built from what the backend sent, and the mode in force.
BodyIn_TracesFirst(r, whole) ==
  /\ request[r].pc = "collect"
  /\ LET req  == request[r]
         body == IF req.post = {} THEN Collected(req, whole)
                 ELSE Postprocessed(req.post, Collected(req, whole))
     IN  /\ Set(r, Answered(req, "backend", body, TRUE, LengthOf(req, body)))
         /\ IF OnTracedPath(req.call)
            THEN /\ traced' = [traced EXCEPT ![r] = TraceOf([req EXCEPT !.private = privacy], Collected(req, whole))]
                 /\ records' = [records EXCEPT ![r] = @ + 1]
            ELSE UNCHANGED <<traced, records>>
  /\ UNCHANGED wanted /\ UnchangedAround

\* Mutant: the rules are looked up when the body is in.
BodyIn_ResolvesLate(r, whole) ==
  /\ request[r].pc = "collect"
  /\ LET req  == request[r]
         ids  == ResolveProcessors(rules, ModelOf(req.call, req.json), req.backend).post
         body == Postprocessed(ids, Collected(req, whole))
     IN  /\ Set(r, Answered(req, "backend", body, TRUE, LengthOf(req, body)))
         /\ IF OnTracedPath(req.call)
            THEN /\ traced' = [traced EXCEPT ![r] = TraceOf(req, body)]
                 /\ records' = [records EXCEPT ![r] = @ + 1]
            ELSE UNCHANGED <<traced, records>>
  /\ UNCHANGED wanted /\ UnchangedAround

\* The body is in: postprocess, trace, record, answer, with no await in between.
BodyIn(r, whole) ==
  /\ request[r].pc = "collect"
  /\ LET req  == request[r]
         body == IF req.post = {} THEN Collected(req, whole)
                 ELSE Postprocessed(req.post, Collected(req, whole))
     IN  /\ Set(r, Answered(req, "backend", body, TRUE, LengthOf(req, body)))
         /\ IF OnTracedPath(req.call)
            THEN /\ traced' = [traced EXCEPT ![r] = TraceOf(req, body)]
                 /\ records' = [records EXCEPT ![r] = @ + 1]
            ELSE UNCHANGED <<traced, records>>
  /\ UNCHANGED wanted /\ UnchangedAround

\* convert_response hands on each frame, and an error as an error.
Through(r, whole) ==
  /\ request[r].pc = "through"
  /\ Set(r, Answered(request[r], "backend", request[r].got, whole, request[r].length))
  /\ UNCHANGED <<wanted, records, traced>> /\ UnchangedAround

\* The task of a streamed answer records once, whatever becomes of its client: of a
\* stream this module keeps the Settle of ChunkDelivery, which StreamRelay implements.
Relayed(r, whole) ==
  /\ request[r].pc = "relay"
  /\ Set(r, Answered(request[r], "backend", request[r].got, whole, request[r].length))
  /\ records' = [records EXCEPT ![r] = @ + 1]
  /\ UNCHANGED <<wanted, traced>> /\ UnchangedAround

\* The client leaves: its handler is dropped at the await it is in.
HangUp(r) ==
  /\ request[r].pc \in {"body", "direct", "rules", "collector", "upstream", "collect", "through"}
  /\ Set(r, [New EXCEPT !.pc = "gone"])
  /\ wanted' = [wanted EXCEPT ![r] = {}]
  /\ UNCHANGED <<records, traced>> /\ UnchangedAround

-----------------------------------------------------------------------------
\* put_config turns the privacy mode on or off.
SetPrivacy ==
  /\ toggles < MaxToggles /\ toggles' = toggles + 1
  /\ privacy' = ~ privacy
  /\ UNCHANGED <<ruleVars, request, wanted, records, traced>>

\* A rule is edited while requests are under way.
RuleStep ==
  /\ EditRules
  /\ wanted' = [r \in Requests |->
       IF request[r].pc \in {"rules", "collector", "upstream", "collect", "relay"}
       THEN wanted[r] \cup {Wants(rules', ModelOf(request[r].call, request[r].json), request[r].backend)}
       ELSE wanted[r]]
  /\ UNCHANGED <<request, privacy, records, traced, toggles>>

PageStep ==
  /\ \E p \in Pages : LoadPage(p)
  /\ UNCHANGED <<request, privacy, wanted, records, traced, toggles>>

\* What the gateway does by itself, the client and the backend.
Gateway(r) ==
  \/ \E backend \in Backends \cup {NoBackend} : Direct(r, backend)
  \/ TakeRules(r)
  \/ \E some \in BOOLEAN : TakeCollector(r, some)

BodyArrives(r) ==
  \E whole \in BOOLEAN, backend \in Backends \cup {NoBackend} : Body(r, whole, backend)

Backend(r) ==
  \/ UpstreamFails(r)
  \/ \E body \in BackendBodies, length \in Lengths : Headers(r, body, length)
  \/ \E whole \in BOOLEAN : BodyIn(r, whole) \/ Through(r, whole) \/ Relayed(r, whole)

Next ==
  \/ \E r \in Requests, call \in Calls : Arrive(r, call)
  \/ \E r \in Requests : Gateway(r) \/ BodyArrives(r) \/ Backend(r) \/ HangUp(r)
  \/ SetPrivacy
  \/ RuleStep
  \/ PageStep

Spec == Init /\ [][Next]_vars

-----------------------------------------------------------------------------
RequestType ==
  [pc : {"new", "body", "direct", "rules", "collector", "upstream", "collect", "through",
         "relay", "answered", "gone"},
   call : Calls, private : BOOLEAN, json : BOOLEAN, backend : Backends \cup {NoBackend},
   post : SUBSET UNION {body.post : body \in Bodies}, fixed : BOOLEAN, usage : BOOLEAN,
   collector : BOOLEAN, got : AllBodies, length : {"none", "right"},
   answer : [status : {"none", "backend", "502"}, body : AllBodies, whole : BOOLEAN,
             length : {"none", "right", "stale"}]]

\* Every variable has its type; no request is recorded twice.
TypeOK ==
  /\ RulesTypeOK
  /\ request \in [Requests -> RequestType]
  /\ privacy \in BOOLEAN
  /\ wanted \in [Requests -> SUBSET [pre : BOOLEAN, post : BOOLEAN]]
  /\ records \in [Requests -> 0..1]
  /\ traced \in [Requests -> [body : JsonBodies \cup {"none"}, clear : BOOLEAN]]
  /\ toggles \in 0..MaxToggles

FromBackend(r) == request[r].answer.status = "backend"

\* Every answer of a backend that a client gets is in the metrics, exactly once,
\* on each of the three ways it can take; a 502 of the gateway itself never is
\* ("Always record metrics" is about the answers of backends).
RecordedOnce ==
  \A r \in Requests : request[r].pc = "answered" => records[r] = IF FromBackend(r) THEN 1 ELSE 0

\* A trace event for a buffered answer has the body the client is given, after
\* postprocessing, and there is none for an answer that no client is given.  What
\* a client sends under privacy mode is in no event, though the mode may be
\* turned off before the answer is in.
TracedIsDelivered ==
  \A r \in Requests : traced[r].body # "none" =>
    /\ request[r].pc = "answered" /\ request[r].answer.body = traced[r].body
    /\ traced[r].clear => ~ request[r].private

\* What the rules can make of a body: delivered so, unless it broke off.
Best(body) == IF body \in {"marked", "broken"} THEN "fixed" ELSE body

\* The request was preprocessed and its answer postprocessed by one and the same
\* list of rules, one that was in force while the request was under way; and the
\* body the client gets is what that list makes of the whole body of the
\* backend, or empty: never a part of it that looks complete.
OneSnapshot ==
  \A r \in Requests : FromBackend(r) /\ request[r].call.path # "other" =>
    LET req == request[r] IN
    \E w \in wanted[r] :
      /\ req.fixed = (req.json /\ w.pre)
      /\ ~ (OnTracedPath(req.call) /\ Streaming(req.call, req.json)) =>
           req.answer.body \in {IF w.post THEN Best(req.got) ELSE req.got, "empty"}

\* On the patterns and texts given, glob_match says what Matches says; nothing of
\* it depends on the state, so the two are compared before the first request.
GlobIsMatches ==
  (\A r \in Requests : request[r].pc = "new") /\ edits = 0 =>
    \A pattern \in SomePatterns, text \in SomeTexts : GlobMatch(pattern, text) = Matches(pattern, text)

\* An answer that a processor has changed has the length that its head says, where
\* it says one: "apply postprocessors, and return the modified response".
FramedAsDelivered ==
  \A r \in Requests :
    request[r].answer.body # "empty" => request[r].answer.length # "stale"
=============================================================================
