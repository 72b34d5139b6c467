----------------------- MODULE RequestLifecycleProofs -----------------------
(***************************************************************************)
(* RequestLifecycle for any requests, rules, pages, backends and bounds:   *)
(* its types, that a page is right about the rules below the lowest index  *)
(* deleted, that an answer is recorded exactly once, that a trace has what *)
(* was delivered, that glob_match answers what a pattern means, and that   *)
(* one list of rules treats a request and its answer.                      *)
(***************************************************************************)
EXTENDS RequestLifecycle, WellFoundedInduction, TLAPS

RuleType == [id : 1..(MaxRules + MaxEdits), body : Bodies]

-----------------------------------------------------------------------------
(***************************************************************************)
(* The rules and the pages that show them.                                 *)
(***************************************************************************)
LEMMA RulesTypeInit == RulesInit => RulesTypeOK
<1> SUFFICES ASSUME RulesInit PROVE RulesTypeOK
  OBVIOUS
<1>1. PICK bodies \in InitialBodies : rules = Numbered(bodies)
  BY DEF RulesInit
<1>2. /\ bodies \in Seq(Bodies) /\ Len(bodies) \in Nat /\ Len(bodies) <= MaxRules
      /\ MaxRules \in Nat /\ MaxEdits \in Nat
  BY <1>1, RulesAssumption
<1>3. rules = [k \in 1..Len(bodies) |-> [id |-> k, body |-> bodies[k]]]
  BY <1>1, <1>2 DEF Numbered
<1>4. \A k \in 1..Len(bodies) : [id |-> k, body |-> bodies[k]] \in RuleType
  BY <1>2 DEF RuleType
<1>5. rules \in Seq(RuleType) /\ Len(rules) = Len(bodies)
  BY <1>2, <1>3, <1>4
<1>6. page \in [Pages -> Seq(1..(MaxRules + MaxEdits))] /\ low \in [Pages -> Nat] /\ edits \in 0..MaxEdits
  BY <1>2 DEF RulesInit
<1> QED
  BY <1>2, <1>5, <1>6 DEF RulesTypeOK, RuleType

\* What RulesTypeOK says, in the form the steps below use.
LEMMA RulesTyped ==
  ASSUME RulesTypeOK
  PROVE  /\ rules \in Seq(RuleType) /\ Len(rules) \in 0..MaxRules /\ DOMAIN rules = 1..Len(rules)
         /\ \A k \in 1..Len(rules) : rules[k] \in RuleType
         /\ page \in [Pages -> Seq(1..(MaxRules + MaxEdits))] /\ low \in [Pages -> Nat]
         /\ edits \in 0..MaxEdits /\ MaxRules \in Nat /\ MaxEdits \in Nat
<1>1. /\ rules \in Seq(RuleType) /\ Len(rules) <= MaxRules /\ edits \in 0..MaxEdits
      /\ page \in [Pages -> Seq(1..(MaxRules + MaxEdits))] /\ low \in [Pages -> Nat]
  BY DEF RulesTypeOK, RuleType
<1>2. MaxRules \in Nat /\ MaxEdits \in Nat
  BY RulesAssumption
<1>3. /\ Len(rules) \in Nat /\ DOMAIN rules = 1..Len(rules)
      /\ \A k \in 1..Len(rules) : rules[k] \in RuleType
  BY <1>1
<1> QED
  BY <1>1, <1>2, <1>3

LEMMA LoadPageSafe ==
  ASSUME RulesTypeOK, PageStillRight, NEW p \in Pages, LoadPage(p)
  PROVE  RulesTypeOK' /\ PageStillRight'
<1> DEFINE ids == [k \in 1..Len(rules) |-> rules[k].id]
<1>1. ids \in Seq(1..(MaxRules + MaxEdits)) /\ Len(ids) = Len(rules)
  BY RulesTyped DEF RuleType
<1>2. /\ page' = [page EXCEPT ![p] = ids] /\ low' = [low EXCEPT ![p] = Len(rules) + 1]
      /\ rules' = rules /\ edits' = edits
  BY RulesTyped DEF LoadPage
<1>3. page' \in [Pages -> Seq(1..(MaxRules + MaxEdits))]
  BY <1>1, <1>2, RulesTyped
<1>4. low' \in [Pages -> Nat]
  BY <1>2, RulesTyped
<1>5. RulesTypeOK'
  BY <1>2, <1>3, <1>4 DEF RulesTypeOK
<1>6. ASSUME NEW q \in Pages, NEW k \in DOMAIN page'[q], k < low'[q]
      PROVE  k \in DOMAIN rules' /\ rules'[k].id = page'[q][k]
  <2>1. CASE q = p
    <3>1. page'[q] = ids
      BY <1>2, <2>1, RulesTyped
    <3> QED
      BY <1>2, <1>6, <3>1, RulesTyped
  <2>2. CASE q # p
    <3>1. page'[q] = page[q] /\ low'[q] = low[q]
      BY <1>2, <2>2, RulesTyped
    <3> QED
      BY <1>2, <1>6, <3>1 DEF PageStillRight
  <2> QED
    BY <2>1, <2>2
<1> QED
  BY <1>5, <1>6 DEF PageStillRight

LEMMA AddRuleSafe ==
  ASSUME RulesTypeOK, PageStillRight, NEW body \in Bodies, AddRule(body)
  PROVE  RulesTypeOK' /\ PageStillRight'
<1>1. /\ rules' = Append(rules, NewRule(body)) /\ Len(rules) < MaxRules
      /\ edits < MaxEdits /\ edits' = edits + 1 /\ page' = page /\ low' = low
  BY DEF AddRule, Edit
<1>2. NewRule(body) \in RuleType
  BY <1>1, RulesTyped DEF NewRule, RuleType
<1>3. /\ rules' \in Seq(RuleType) /\ Len(rules') = Len(rules) + 1 /\ DOMAIN rules' = 1..(Len(rules) + 1)
      /\ \A k \in 1..Len(rules) : rules'[k] = rules[k]
  BY <1>1, <1>2, RulesTyped
<1>4. RulesTypeOK'
  BY <1>1, <1>3, RulesTyped DEF RulesTypeOK, RuleType
<1>5. PageStillRight'
  BY <1>1, <1>3, RulesTyped DEF PageStillRight
<1> QED
  BY <1>4, <1>5

LEMMA UpdateRuleSafe ==
  ASSUME RulesTypeOK, PageStillRight, NEW k \in DOMAIN rules, NEW body \in Bodies, UpdateRule(k, body)
  PROVE  RulesTypeOK' /\ PageStillRight'
<1>1. /\ rules' = [rules EXCEPT ![k] = [rules[k] EXCEPT !.body = body]]
      /\ edits < MaxEdits /\ edits' = edits + 1 /\ page' = page /\ low' = low
  BY DEF UpdateRule, Edit
<1>2. [rules[k] EXCEPT !.body = body] \in RuleType /\ [rules[k] EXCEPT !.body = body].id = rules[k].id
  BY RulesTyped DEF RuleType
<1>3. /\ rules' \in Seq(RuleType) /\ Len(rules') = Len(rules) /\ DOMAIN rules' = DOMAIN rules
      /\ \A j \in 1..Len(rules) : rules'[j].id = rules[j].id
  BY <1>1, <1>2, RulesTyped
<1>4. RulesTypeOK'
  BY <1>1, <1>3, RulesTyped DEF RulesTypeOK, RuleType
<1>5. PageStillRight'
  BY <1>1, <1>3, RulesTyped DEF PageStillRight
<1> QED
  BY <1>4, <1>5

\* The rules before a deleted one stay where they are.
LEMMA DeleteRuleSafe ==
  ASSUME RulesTypeOK, PageStillRight, NEW k \in DOMAIN rules, DeleteRule(k)
  PROVE  RulesTypeOK' /\ PageStillRight'
<1>1. /\ rules' = [j \in 1..(Len(rules) - 1) |-> IF j < k THEN rules[j] ELSE rules[j + 1]]
      /\ low' = [p \in Pages |-> IF k < low[p] THEN k ELSE low[p]]
      /\ edits < MaxEdits /\ edits' = edits + 1 /\ page' = page
  BY DEF DeleteRule, Edit
<1>2. k \in 1..Len(rules) /\ Len(rules) - 1 \in Nat
  BY RulesTyped
<1>3. \A j \in 1..(Len(rules) - 1) : (IF j < k THEN rules[j] ELSE rules[j + 1]) \in RuleType
  BY <1>2, RulesTyped
<1>4. rules' \in Seq(RuleType) /\ Len(rules') = Len(rules) - 1 /\ DOMAIN rules' = 1..(Len(rules) - 1)
  BY <1>1, <1>2, <1>3
<1>5. low' \in [Pages -> Nat]
  BY <1>1, <1>2, RulesTyped
<1>6. RulesTypeOK'
  BY <1>1, <1>4, <1>5, RulesTyped DEF RulesTypeOK, RuleType
<1>7. ASSUME NEW p \in Pages, NEW j \in DOMAIN page'[p], j < low'[p]
      PROVE  j \in DOMAIN rules' /\ rules'[j].id = page'[p][j]
  <2>1. page[p] \in Seq(1..(MaxRules + MaxEdits)) /\ j \in DOMAIN page[p] /\ low[p] \in Nat
    BY <1>1, <1>7, RulesTyped
  <2>2. j \in Nat /\ 1 <= j
    BY <2>1
  <2>3. j < k /\ j < low[p]
    BY <1>1, <1>2, <1>7, <2>1, <2>2
  <2>4. j \in DOMAIN rules' /\ rules'[j] = rules[j]
    BY <1>1, <1>2, <1>4, <2>2, <2>3
  <2> QED
    BY <1>1, <2>1, <2>3, <2>4 DEF PageStillRight
<1> QED
  BY <1>6, <1>7 DEF PageStillRight

LEMMA RulesSafe ==
  ASSUME RulesTypeOK, PageStillRight,
         (\E p \in Pages : LoadPage(p)) \/ EditRules \/ UNCHANGED ruleVars
  PROVE  RulesTypeOK' /\ PageStillRight'
<1>1. CASE UNCHANGED ruleVars
  BY <1>1 DEF ruleVars, RulesTypeOK, PageStillRight
<1>2. CASE EditRules
  BY <1>2, AddRuleSafe, UpdateRuleSafe, DeleteRuleSafe DEF EditRules
<1>3. CASE \E p \in Pages : LoadPage(p)
  BY <1>3, LoadPageSafe
<1> QED
  BY <1>1, <1>2, <1>3

\* Every step of the whole does one of the three to the rules.
LEMMA RulesStep ==
  ASSUME [Next]_vars
  PROVE  (\E p \in Pages : LoadPage(p)) \/ EditRules \/ UNCHANGED ruleVars
<1>1. ASSUME NEW r \in Requests, Gateway(r) \/ BodyArrives(r) \/ Backend(r) \/ HangUp(r) \/ \E call \in Calls : Arrive(r, call)
      PROVE  UNCHANGED ruleVars
  BY <1>1 DEF Gateway, BodyArrives, Backend, HangUp, Arrive, Direct, TakeRules, TakeCollector, Body,
              UpstreamFails, Headers, BodyIn, Through, Relayed, UnchangedAround
<1>2. CASE SetPrivacy \/ UNCHANGED vars
  BY <1>2 DEF SetPrivacy, vars, ruleVars
<1>3. CASE RuleStep \/ PageStep
  BY <1>3 DEF RuleStep, PageStep
<1> QED
  BY <1>1, <1>2, <1>3 DEF Next

\* A page is right about every rule before the lowest index deleted since it was
\* loaded, whatever the calls of others: update_processor_rule and
\* delete_processor_rule find the rule that the page shows at such an index.
THEOREM PagesStayRight == Spec => []PageStillRight
<1>1. Init => RulesTypeOK /\ PageStillRight
  <2>1. Init => PageStillRight
    BY DEF Init, RulesInit, PageStillRight
  <2> QED
    BY <2>1, RulesTypeInit DEF Init
<1>2. RulesTypeOK /\ PageStillRight /\ [Next]_vars => RulesTypeOK' /\ PageStillRight'
  BY RulesStep, RulesSafe
<1> QED
  BY <1>1, <1>2, PTL DEF Spec

-----------------------------------------------------------------------------
(***************************************************************************)
(* Types of a request and its record.                                      *)
(***************************************************************************)
PostIds == UNION {body.post : body \in Bodies}
Answers == [status : {"none", "backend", "502"}, body : AllBodies, whole : BOOLEAN,
            length : {"none", "right", "stale"}]
Types ==
  /\ request \in [Requests -> RequestType]
  /\ privacy \in BOOLEAN
  /\ wanted \in [Requests -> SUBSET [pre : BOOLEAN, post : BOOLEAN]]
  /\ traced \in [Requests -> [body : JsonBodies \cup {"none"}, clear : BOOLEAN]]
  /\ toggles \in 0..MaxToggles

LEMMA NewType == New \in RequestType /\ BadGateway \in RequestType
<1>1. NoAnswer \in Answers
  BY DEF NoAnswer, Answers, AllBodies
<1>2. (CHOOSE call \in Calls : TRUE) \in Calls
  BY RequestsAssumption
<1>3. New \in RequestType
  BY <1>1, <1>2 DEF New, RequestType, AllBodies, Answers
<1>4. [status |-> "502", body |-> "empty", whole |-> TRUE, length |-> "right"] \in Answers
  BY DEF Answers, AllBodies
<1>5. BadGateway \in RequestType
  BY <1>3, <1>4 DEF BadGateway, Answered, RequestType, Answers
<1> QED
  BY <1>3, <1>5

Places == {"new", "body", "direct", "rules", "collector", "upstream", "collect", "through",
           "relay", "answered", "gone"}

\* A field of a request takes the values of its set.
LEMMA OneField ==
  ASSUME NEW req \in RequestType
  PROVE  /\ \A pc \in Places : [req EXCEPT !.pc = pc] \in RequestType
         /\ \A call \in Calls : [req EXCEPT !.call = call] \in RequestType
         /\ \A private \in BOOLEAN : [req EXCEPT !.private = private] \in RequestType
         /\ \A json \in BOOLEAN : [req EXCEPT !.json = json] \in RequestType
         /\ \A backend \in Backends \cup {NoBackend} : [req EXCEPT !.backend = backend] \in RequestType
         /\ \A post \in SUBSET PostIds : [req EXCEPT !.post = post] \in RequestType
         /\ \A fixed \in BOOLEAN : [req EXCEPT !.fixed = fixed] \in RequestType
         /\ \A usage \in BOOLEAN : [req EXCEPT !.usage = usage] \in RequestType
         /\ \A some \in BOOLEAN : [req EXCEPT !.collector = some] \in RequestType
         /\ \A body \in AllBodies : [req EXCEPT !.got = body] \in RequestType
         /\ \A length \in {"none", "right"} : [req EXCEPT !.length = length] \in RequestType
         /\ \A answer \in Answers : [req EXCEPT !.answer = answer] \in RequestType
<1>1. \A pc \in Places : [req EXCEPT !.pc = pc] \in RequestType
  BY DEF RequestType, Places
<1>2. \A call \in Calls : [req EXCEPT !.call = call] \in RequestType
  BY DEF RequestType
<1>3. \A private \in BOOLEAN : [req EXCEPT !.private = private] \in RequestType
  BY DEF RequestType
<1>4. \A json \in BOOLEAN : [req EXCEPT !.json = json] \in RequestType
  BY DEF RequestType
<1>5. \A backend \in Backends \cup {NoBackend} : [req EXCEPT !.backend = backend] \in RequestType
  BY DEF RequestType
<1>6. \A post \in SUBSET PostIds : [req EXCEPT !.post = post] \in RequestType
  BY DEF RequestType, PostIds
<1>7. \A fixed \in BOOLEAN : [req EXCEPT !.fixed = fixed] \in RequestType
  BY DEF RequestType
<1>8. \A usage \in BOOLEAN : [req EXCEPT !.usage = usage] \in RequestType
  BY DEF RequestType
<1>9. \A some \in BOOLEAN : [req EXCEPT !.collector = some] \in RequestType
  BY DEF RequestType
<1>10. \A body \in AllBodies : [req EXCEPT !.got = body] \in RequestType
  BY DEF RequestType
<1>11. \A length \in {"none", "right"} : [req EXCEPT !.length = length] \in RequestType
  BY DEF RequestType
<1>12. \A answer \in Answers : [req EXCEPT !.answer = answer] \in RequestType
  BY DEF RequestType, Answers
<1> QED
  BY <1>1, <1>2, <1>3, <1>4, <1>5, <1>6, <1>7, <1>8, <1>9, <1>10, <1>11, <1>12

\* The ways in which a handler goes on.
LEMMA RequestSteps ==
  ASSUME NEW req \in RequestType
  PROVE  /\ \A call \in Calls, private \in BOOLEAN, pc \in {"direct", "body"} :
              [New EXCEPT !.pc = pc, !.call = call, !.private = private] \in RequestType
         /\ \A json, usage \in BOOLEAN, backend \in Backends \cup {NoBackend} :
              [req EXCEPT !.json = json, !.backend = backend, !.pc = "rules", !.usage = usage] \in RequestType
         /\ \A backend \in Backends \cup {NoBackend} :
              [req EXCEPT !.backend = backend, !.pc = "upstream"] \in RequestType
         /\ \A post \in SUBSET PostIds, fixed \in BOOLEAN :
              [req EXCEPT !.pc = "collector", !.post = post, !.fixed = fixed] \in RequestType
         /\ \A some \in BOOLEAN : [req EXCEPT !.pc = "upstream", !.collector = some] \in RequestType
         /\ \A body \in BackendBodies, length \in {"none", "right"}, pc \in {"relay", "collect", "through"} :
              [req EXCEPT !.got = body, !.length = length, !.pc = pc] \in RequestType
         /\ \A body \in AllBodies, whole \in BOOLEAN, length \in {"none", "right", "stale"} :
              Answered(req, "backend", body, whole, length) \in RequestType
         /\ [New EXCEPT !.pc = "gone"] \in RequestType
<1>p. Places = {"new", "body", "direct", "rules", "collector", "upstream", "collect", "through",
                "relay", "answered", "gone"}
  BY DEF Places
<1>b. BackendBodies \subseteq AllBodies
  BY DEF AllBodies
<1>1. ASSUME NEW call \in Calls, NEW private \in BOOLEAN, NEW pc \in {"direct", "body"}
      PROVE  [New EXCEPT !.pc = pc, !.call = call, !.private = private] \in RequestType
  <2> DEFINE one == [New EXCEPT !.pc = pc]
             two == [one EXCEPT !.call = call]
  <2>1. one \in RequestType
    BY NewType, <1>p, <1>b, OneField
  <2>2. two \in RequestType
    BY <2>1, <1>p, <1>b, OneField
  <2>3. [two EXCEPT !.private = private] \in RequestType
    BY <2>2, <1>p, <1>b, OneField
  <2> QED
    BY <2>3
<1>2. ASSUME NEW json \in BOOLEAN, NEW usage \in BOOLEAN, NEW backend \in Backends \cup {NoBackend}
      PROVE  [req EXCEPT !.json = json, !.backend = backend, !.pc = "rules", !.usage = usage] \in RequestType
  <2> DEFINE one == [req EXCEPT !.json = json]
             two == [one EXCEPT !.backend = backend]
             three == [two EXCEPT !.pc = "rules"]
  <2>1. one \in RequestType
    BY <1>p, <1>b, OneField
  <2>2. two \in RequestType
    BY <2>1, <1>p, <1>b, OneField
  <2>3. three \in RequestType
    BY <2>2, <1>p, <1>b, OneField
  <2>4. [three EXCEPT !.usage = usage] \in RequestType
    BY <2>3, <1>p, <1>b, OneField
  <2> QED
    BY <2>4
<1>3. ASSUME NEW backend \in Backends \cup {NoBackend}
      PROVE  [req EXCEPT !.backend = backend, !.pc = "upstream"] \in RequestType
  <2> DEFINE one == [req EXCEPT !.backend = backend]
  <2>1. one \in RequestType
    BY <1>p, <1>b, OneField
  <2>2. [one EXCEPT !.pc = "upstream"] \in RequestType
    BY <2>1, <1>p, <1>b, OneField
  <2> QED
    BY <2>2
<1>4. ASSUME NEW post \in SUBSET PostIds, NEW fixed \in BOOLEAN
      PROVE  [req EXCEPT !.pc = "collector", !.post = post, !.fixed = fixed] \in RequestType
  <2> DEFINE one == [req EXCEPT !.pc = "collector"]
             two == [one EXCEPT !.post = post]
  <2>1. one \in RequestType
    BY <1>p, <1>b, OneField
  <2>2. two \in RequestType
    BY <2>1, <1>p, <1>b, OneField
  <2>3. [two EXCEPT !.fixed = fixed] \in RequestType
    BY <2>2, <1>p, <1>b, OneField
  <2> QED
    BY <2>3
<1>5. ASSUME NEW some \in BOOLEAN
      PROVE  [req EXCEPT !.pc = "upstream", !.collector = some] \in RequestType
  <2> DEFINE one == [req EXCEPT !.pc = "upstream"]
  <2>1. one \in RequestType
    BY <1>p, <1>b, OneField
  <2>2. [one EXCEPT !.collector = some] \in RequestType
    BY <2>1, <1>p, <1>b, OneField
  <2> QED
    BY <2>2
<1>6. ASSUME NEW body \in BackendBodies, NEW length \in {"none", "right"},
             NEW pc \in {"relay", "collect", "through"}
      PROVE  [req EXCEPT !.got = body, !.length = length, !.pc = pc] \in RequestType
  <2> DEFINE one == [req EXCEPT !.got = body]
             two == [one EXCEPT !.length = length]
  <2>1. one \in RequestType
    BY <1>p, <1>b, OneField
  <2>2. two \in RequestType
    BY <2>1, <1>p, <1>b, OneField
  <2>3. [two EXCEPT !.pc = pc] \in RequestType
    BY <2>2, <1>p, <1>b, OneField
  <2> QED
    BY <2>3
<1>7. ASSUME NEW body \in AllBodies, NEW whole \in BOOLEAN, NEW length \in {"none", "right", "stale"}
      PROVE  Answered(req, "backend", body, whole, length) \in RequestType
  <2> DEFINE answer == [status |-> "backend", body |-> body, whole |-> whole, length |-> length]
             one    == [req EXCEPT !.pc = "answered"]
             two    == [one EXCEPT !.post = {}]
             three  == [two EXCEPT !.collector = FALSE]
  <2>1. answer \in Answers
    BY DEF Answers
  <2>2. Answered(req, "backend", body, whole, length) = [three EXCEPT !.answer = answer]
    BY DEF Answered
  <2> HIDE DEF answer
  <2>3. one \in RequestType
    BY <1>p, OneField
  <2>4. two \in RequestType
    BY <2>3, OneField
  <2>5. three \in RequestType
    BY <2>4, OneField
  <2>6. [three EXCEPT !.answer = answer] \in RequestType
    BY <2>1, <2>5, OneField
  <2> QED
    BY <2>2, <2>6
<1>8. [New EXCEPT !.pc = "gone"] \in RequestType
  BY <1>p, NewType, OneField
<1> QED
  BY <1>1, <1>2, <1>3, <1>4, <1>5, <1>6, <1>7, <1>8

\* Postprocessors are ids of the rules, and a body stays one of AllBodies.
LEMMA PostIdsOf ==
  ASSUME RulesTypeOK, NEW model, NEW backend
  PROVE  ResolveProcessors(rules, model, backend).post \in SUBSET PostIds
<1>1. \A k \in DOMAIN rules : rules[k].body \in Bodies
  BY RulesTyped DEF RuleType
<1> QED
  BY <1>1 DEF ResolveProcessors, PostIds

LEMMA BodiesStay ==
  ASSUME NEW req \in RequestType, NEW whole, NEW ids
  PROVE  /\ Collected(req, whole) \in AllBodies
         /\ \A body \in AllBodies : Postprocessed(ids, body) \in AllBodies
         /\ \A body : LengthOf(req, body) \in {"none", "right", "stale"}
         /\ \A body : TraceOf(req, body) \in [body : JsonBodies \cup {"none"}, clear : BOOLEAN]
<1>1. Collected(req, whole) \in AllBodies
  BY DEF Collected, AllBodies, RequestType
<1>2. \A body \in AllBodies : Postprocessed(ids, body) \in AllBodies
  BY DEF Postprocessed, RepairRaw, ApplyPost, AllBodies, JsonBodies, BackendBodies
<1>3. \A body : LengthOf(req, body) \in {"none", "right", "stale"}
  BY DEF LengthOf, RequestType
<1>4. \A body : TraceOf(req, body) \in [body : JsonBodies \cup {"none"}, clear : BOOLEAN]
  BY DEF TraceOf, NoTrace, RequestType
<1> QED
  BY <1>1, <1>2, <1>3, <1>4

LEMMA WantsType ==
  ASSUME NEW list, NEW model, NEW backend
  PROVE  Wants(list, model, backend) \in [pre : BOOLEAN, post : BOOLEAN]
  BY DEF Wants

-----------------------------------------------------------------------------
(***************************************************************************)
(* The books of a request, by where it is: it is recorded when the head of *)
(* the answer comes in on the plain way, and with the answer on the        *)
(* others; and it has no event before its answer.                          *)
(***************************************************************************)
RecordRight(req, n) ==
  /\ n \in 0..1
  /\ req.pc \in {"new", "body", "direct", "rules", "collector", "upstream", "relay"} => n = 0
  /\ req.pc = "through" => n = 1
  /\ req.pc = "collect" => n = IF OnTracedPath(req.call) THEN 0 ELSE 1
  /\ req.pc = "answered" => n = IF req.answer.status = "backend" THEN 1 ELSE 0

TraceRight(req, event) ==
  event.body # "none" =>
    /\ req.pc = "answered" /\ req.answer.body = event.body
    /\ event.clear => ~ req.private

RecordsRight ==
  /\ records \in [Requests -> 0..1]
  /\ \A r \in Requests : RecordRight(request[r], records[r])

BooksInvariant == Types /\ RecordsRight /\ TracedIsDelivered

\* A step of one request keeps the books if it keeps those of that request.
LEMMA OneRequest ==
  ASSUME BooksInvariant, NEW r \in Requests,
         NEW new \in RequestType, NEW n \in 0..1, NEW event \in [body : JsonBodies \cup {"none"}, clear : BOOLEAN],
         request' = [request EXCEPT ![r] = new],
         records' = [records EXCEPT ![r] = n],
         traced' = [traced EXCEPT ![r] = event],
         wanted' \in [Requests -> SUBSET [pre : BOOLEAN, post : BOOLEAN]],
         privacy' = privacy, toggles' = toggles,
         RecordRight(new, n), TraceRight(new, event)
  PROVE  BooksInvariant'
<1> USE DEF BooksInvariant
<1>1. /\ request \in [Requests -> RequestType] /\ records \in [Requests -> 0..1]
      /\ traced \in [Requests -> [body : JsonBodies \cup {"none"}, clear : BOOLEAN]]
  BY DEF Types, RecordsRight
<1>2. Types'
  BY <1>1 DEF Types
<1>3. RecordsRight'
  <2>1. \A u \in Requests : RecordRight(request'[u], records'[u])
    BY <1>1 DEF RecordsRight
  <2>2. records' \in [Requests -> 0..1]
    BY <1>1
  <2> QED
    BY <2>1, <2>2 DEF RecordsRight
<1>4. TracedIsDelivered'
  <2>1. \A u \in Requests : TraceRight(request'[u], traced'[u])
    BY <1>1 DEF TracedIsDelivered, TraceRight
  <2> QED
    BY <2>1 DEF TracedIsDelivered, TraceRight
<1> QED
  BY <1>2, <1>3, <1>4

\* The same for a step that records nothing and sends no event.
LEMMA NoBooks ==
  ASSUME BooksInvariant, NEW r \in Requests, NEW new \in RequestType,
         request' = [request EXCEPT ![r] = new],
         records' = records, traced' = traced,
         wanted' \in [Requests -> SUBSET [pre : BOOLEAN, post : BOOLEAN]],
         privacy' = privacy, toggles' = toggles,
         request[r].pc # "answered",
         RecordRight(new, records[r])
  PROVE  BooksInvariant'
<1>1. /\ records \in [Requests -> 0..1]
      /\ traced \in [Requests -> [body : JsonBodies \cup {"none"}, clear : BOOLEAN]]
  BY DEF BooksInvariant, Types, RecordsRight
<1>2. records' = [records EXCEPT ![r] = records[r]] /\ traced' = [traced EXCEPT ![r] = traced[r]]
  BY <1>1
<1>3. traced[r].body = "none"
  BY DEF BooksInvariant, TracedIsDelivered
<1>4. TraceRight(new, traced[r])
  BY <1>3 DEF TraceRight
<1> QED
  BY <1>1, <1>2, <1>4, OneRequest

LEMMA HandlerKeeps ==
  ASSUME RulesTypeOK, BooksInvariant, NEW r \in Requests,
         (\E call \in Calls : Arrive(r, call)) \/ Gateway(r) \/ BodyArrives(r)
           \/ UpstreamFails(r) \/ HangUp(r)
  PROVE  BooksInvariant'
<1> USE DEF UnchangedAround, Set
<1>0. /\ request \in [Requests -> RequestType] /\ request[r] \in RequestType /\ privacy \in BOOLEAN
      /\ wanted \in [Requests -> SUBSET [pre : BOOLEAN, post : BOOLEAN]]
      /\ RecordRight(request[r], records[r])
  BY DEF BooksInvariant, Types, RecordsRight
<1> DEFINE Rest(new) ==
      /\ request' = [request EXCEPT ![r] = new]
      /\ records' = records /\ traced' = traced /\ privacy' = privacy /\ toggles' = toggles
      /\ wanted' \in [Requests -> SUBSET [pre : BOOLEAN, post : BOOLEAN]]
<1>1. BadGateway.pc = "answered" /\ BadGateway.answer.status = "502"
  BY DEF BadGateway, Answered, New
<1>2. ASSUME NEW call \in Calls, Arrive(r, call) PROVE BooksInvariant'
  <2> DEFINE new == [New EXCEPT !.pc = IF call.path = "other" THEN "direct" ELSE "body",
                                !.call = call, !.private = privacy]
  <2>1. new \in RequestType /\ new.pc \in {"direct", "body"}
    BY <1>0, RequestSteps, NewType DEF New
  <2>2. Rest(new) /\ request[r].pc = "new"
    BY <1>0, <1>2 DEF Arrive
  <2>3. RecordRight(new, records[r])
    BY <1>0, <2>1, <2>2 DEF RecordRight
  <2> HIDE DEF new
  <2> QED
    BY <2>1, <2>2, <2>3, NoBooks
<1>3. ASSUME NEW whole \in BOOLEAN, NEW backend \in Backends \cup {NoBackend}, Body(r, whole, backend)
      PROVE  BooksInvariant'
  <2> DEFINE json == whole /\ request[r].call.json
             usage == json /\ request[r].call.path = "v1" /\ request[r].call.stream = "yes"
             new == [request[r] EXCEPT !.json = json, !.backend = backend, !.pc = "rules", !.usage = usage]
  <2>1. request[r].pc = "body" /\ records[r] = 0
    BY <1>0, <1>3 DEF Body, RecordRight
  <2>2. CASE backend = NoBackend
    <3>1. Rest(BadGateway)
      BY <1>0, <1>3, <2>2 DEF Body
    <3>2. RecordRight(BadGateway, records[r])
      BY <1>1, <2>1 DEF RecordRight
    <3> QED
      BY <2>1, <3>1, <3>2, NewType, NoBooks
  <2>3. CASE backend # NoBackend
    <3>1. json \in BOOLEAN /\ usage \in BOOLEAN
      BY <1>0, RequestsAssumption DEF RequestType
    <3> HIDE DEF json, usage
    <3>2. new \in RequestType /\ new.pc = "rules"
      <4>1. new \in RequestType
        BY <1>0, <3>1, RequestSteps
      <4>2. new.pc = "rules"
        BY <1>0, NewType DEF RequestType
      <4> QED
        BY <4>1, <4>2
    <3>3. Rest(new)
      <4>1. wanted' = [wanted EXCEPT ![r] = {Wants(rules, ModelOf(request[r].call, json), backend)}]
        BY <1>3, <2>3 DEF Body, json
      <4>2. wanted' \in [Requests -> SUBSET [pre : BOOLEAN, post : BOOLEAN]]
        BY <1>0, <4>1, WantsType
      <4> QED
        BY <1>0, <1>3, <2>3, <4>2 DEF Body, json, usage
    <3>4. RecordRight(new, records[r])
      BY <2>1, <3>2 DEF RecordRight
    <3> HIDE DEF new
    <3> QED
      BY <2>1, <3>2, <3>3, <3>4, NoBooks
  <2> QED
    BY <2>2, <2>3
<1>4. ASSUME NEW backend \in Backends \cup {NoBackend}, Direct(r, backend) PROVE BooksInvariant'
  <2> DEFINE new == [request[r] EXCEPT !.backend = backend, !.pc = "upstream"]
  <2>1. request[r].pc = "direct" /\ records[r] = 0
    BY <1>0, <1>4 DEF Direct, RecordRight
  <2>2. Rest(BadGateway) \/ Rest(new)
    BY <1>0, <1>4 DEF Direct
  <2>3. new \in RequestType /\ new.pc = "upstream"
    <3>1. new \in RequestType
      BY <1>0, RequestSteps
    <3>2. new.pc = "upstream"
      BY <1>0, NewType DEF RequestType
    <3> QED
      BY <3>1, <3>2
  <2>4. RecordRight(BadGateway, records[r]) /\ RecordRight(new, records[r])
    BY <1>1, <2>1, <2>3 DEF RecordRight
  <2> HIDE DEF new
  <2> QED
    BY <2>1, <2>2, <2>3, <2>4, NewType, NoBooks
<1>5. CASE TakeRules(r)
  <2> DEFINE ids == ResolveProcessors(rules, ModelOf(request[r].call, request[r].json), request[r].backend)
             fixed == request[r].json /\ FixId \in ids.pre
             new == [request[r] EXCEPT !.pc = "collector", !.post = ids.post, !.fixed = fixed]
  <2>1. request[r].pc = "rules" /\ records[r] = 0 /\ Rest(new)
    BY <1>0, <1>5 DEF TakeRules, RecordRight
  <2>2. ids.post \in SUBSET PostIds /\ fixed \in BOOLEAN
    BY <1>0, PostIdsOf DEF RequestType
  <2> HIDE DEF ids, fixed
  <2>3. new \in RequestType /\ new.pc = "collector"
    <3>1. new \in RequestType
      BY <1>0, <2>2, RequestSteps
    <3>2. new.pc = "collector"
      BY <1>0, NewType DEF RequestType
    <3> QED
      BY <3>1, <3>2
  <2>4. RecordRight(new, records[r])
    BY <2>1, <2>3 DEF RecordRight
  <2> HIDE DEF new
  <2> QED
    BY <2>1, <2>3, <2>4, NoBooks
<1>6. ASSUME NEW some \in BOOLEAN, TakeCollector(r, some) PROVE BooksInvariant'
  <2> DEFINE new == [request[r] EXCEPT !.pc = "upstream", !.collector = some]
  <2>1. request[r].pc = "collector" /\ records[r] = 0 /\ Rest(new)
    BY <1>0, <1>6 DEF TakeCollector, RecordRight
  <2>2. new \in RequestType /\ new.pc = "upstream"
    <3>1. new \in RequestType
      BY <1>0, RequestSteps
    <3>2. new.pc = "upstream"
      BY <1>0, NewType DEF RequestType
    <3> QED
      BY <3>1, <3>2
  <2>3. RecordRight(new, records[r])
    BY <2>1, <2>2 DEF RecordRight
  <2> HIDE DEF new
  <2> QED
    BY <2>1, <2>2, <2>3, NoBooks
<1>7. CASE UpstreamFails(r)
  <2>1. request[r].pc = "upstream" /\ records[r] = 0 /\ Rest(BadGateway)
    BY <1>0, <1>7 DEF UpstreamFails, RecordRight
  <2>2. RecordRight(BadGateway, records[r])
    BY <1>1, <2>1 DEF RecordRight
  <2> QED
    BY <2>1, <2>2, NewType, NoBooks
<1>8. CASE HangUp(r)
  <2> DEFINE new == [New EXCEPT !.pc = "gone"]
  <2>1. Rest(new) /\ request[r].pc # "answered" /\ records[r] \in 0..1
    BY <1>0, <1>8 DEF HangUp, RecordRight
  <2>2. new \in RequestType /\ new.pc = "gone"
    <3>1. new \in RequestType
      BY <1>0, RequestSteps, NewType
    <3>2. new.pc = "gone"
      BY <1>0, NewType DEF RequestType
    <3> QED
      BY <3>1, <3>2
  <2>3. RecordRight(new, records[r])
    BY <2>1, <2>2 DEF RecordRight
  <2> HIDE DEF new
  <2> QED
    BY <2>1, <2>2, <2>3, NoBooks
<1> QED
  BY <1>2, <1>3, <1>4, <1>5, <1>6, <1>7, <1>8 DEF Gateway, BodyArrives

\* The answer comes in: the three ways of recording it.
LEMMA AnswerKeeps ==
  ASSUME BooksInvariant, NEW r \in Requests, Backend(r), ~ UpstreamFails(r)
  PROVE  BooksInvariant'
<1> USE DEF UnchangedAround, Set
<1>0. /\ request \in [Requests -> RequestType] /\ request[r] \in RequestType /\ privacy \in BOOLEAN
      /\ wanted \in [Requests -> SUBSET [pre : BOOLEAN, post : BOOLEAN]]
      /\ records \in [Requests -> 0..1]
      /\ traced \in [Requests -> [body : JsonBodies \cup {"none"}, clear : BOOLEAN]]
      /\ RecordRight(request[r], records[r])
      /\ request[r].pc # "answered" => traced[r].body = "none"
  BY DEF BooksInvariant, Types, RecordsRight, TracedIsDelivered
<1> DEFINE req == request[r]
           Rest == privacy' = privacy /\ toggles' = toggles /\ wanted' = wanted
<1>1. \A body, whole, length :
        LET new == Answered(req, "backend", body, whole, length) IN
        /\ new.pc = "answered" /\ new.private = req.private
        /\ new.answer.status = "backend" /\ new.answer.body = body
  BY <1>0 DEF Answered, RequestType
<1>2. ASSUME NEW body \in BackendBodies, NEW length \in Lengths, Headers(r, body, length)
      PROVE  BooksInvariant'
  <2> DEFINE pc == IF OnTracedPath(req.call)
                   THEN IF Streaming(req.call, req.json) THEN "relay" ELSE "collect"
                   ELSE IF req.post # {} THEN "collect" ELSE "through"
             n == IF OnTracedPath(req.call) THEN 0 ELSE 1
             new == [req EXCEPT !.got = body, !.length = length, !.pc = pc]
  <2>1. req.pc = "upstream" /\ records[r] = 0
    BY <1>0, <1>2 DEF Headers, RecordRight
  <2>2. request' = [request EXCEPT ![r] = new] /\ Rest /\ traced' = traced
    BY <1>2 DEF Headers
  <2>3. records' = [records EXCEPT ![r] = n] /\ n \in 0..1
    <3>1. records' = [records EXCEPT ![r] = records[r] + n]
      BY <1>2 DEF Headers
    <3> QED
      BY <2>1, <3>1
  <2>4. /\ pc \in {"relay", "collect", "through"}
        /\ pc = "relay" => n = 0
        /\ pc = "through" => n = 1
    OBVIOUS
  <2>5. length \in {"none", "right"}
    BY RequestsAssumption
  <2> HIDE DEF pc
  <2>6. new \in RequestType
    BY <1>0, <2>4, <2>5, RequestSteps
  <2>7. new.pc = pc /\ new.call = req.call
    BY <1>0 DEF RequestType
  <2>8. RecordRight(new, n)
    BY <2>3, <2>4, <2>7 DEF RecordRight
  <2> HIDE DEF new, n
  <2>9. traced' = [traced EXCEPT ![r] = traced[r]] /\ TraceRight(new, traced[r])
    BY <1>0, <2>1, <2>2 DEF TraceRight
  <2> QED
    BY <1>0, <2>2, <2>3, <2>6, <2>8, <2>9, OneRequest
<1>3. ASSUME NEW whole \in BOOLEAN, BodyIn(r, whole) PROVE BooksInvariant'
  <2> DEFINE body == IF req.post = {} THEN Collected(req, whole)
                     ELSE Postprocessed(req.post, Collected(req, whole))
             new == Answered(req, "backend", body, TRUE, LengthOf(req, body))
             event == IF OnTracedPath(req.call) THEN TraceOf(req, body) ELSE traced[r]
  <2>1. req.pc = "collect" /\ records[r] = IF OnTracedPath(req.call) THEN 0 ELSE 1
    BY <1>0, <1>3 DEF BodyIn, RecordRight
  <2>2. request' = [request EXCEPT ![r] = new] /\ Rest
    BY <1>3 DEF BodyIn
  <2>3. records' = [records EXCEPT ![r] = 1]
    BY <1>0, <1>3, <2>1 DEF BodyIn
  <2>4. traced' = [traced EXCEPT ![r] = event]
    BY <1>0, <1>3 DEF BodyIn
  <2>5. body \in AllBodies
    BY <1>0, BodiesStay
  <2>6. /\ event \in [body : JsonBodies \cup {"none"}, clear : BOOLEAN]
        /\ event.body # "none" => event.body = body /\ (event.clear => ~ req.private)
    <3>1. /\ TraceOf(req, body) \in [body : JsonBodies \cup {"none"}, clear : BOOLEAN]
          /\ TraceOf(req, body).body # "none" =>
               TraceOf(req, body).body = body /\ (TraceOf(req, body).clear => ~ req.private)
      <4>1. TraceOf(req, body) \in [body : JsonBodies \cup {"none"}, clear : BOOLEAN]
        BY <1>0, BodiesStay
      <4>2. TraceOf(req, body) = NoTrace \/ TraceOf(req, body) = [body |-> body, clear |-> ~ req.private]
        BY DEF TraceOf
      <4> HIDE DEF body
      <4>3. NoTrace.body = "none"
        BY DEF NoTrace
      <4>4. /\ [body |-> body, clear |-> ~ req.private].body = body
            /\ [body |-> body, clear |-> ~ req.private].clear => ~ req.private
        BY Zenon
      <4> QED
        BY <4>1, <4>2, <4>3, <4>4
    <3> QED
      BY <1>0, <2>1, <3>1
  <2> HIDE DEF body, event
  <2>7. new \in RequestType
    BY <1>0, <2>5, BodiesStay, RequestSteps
  <2>8. /\ new.pc = "answered" /\ new.private = req.private
        /\ new.answer.status = "backend" /\ new.answer.body = body
    BY <1>0 DEF Answered, RequestType
  <2> HIDE DEF new
  <2>9. 1 \in 0..1 /\ RecordRight(new, 1)
    BY <2>8 DEF RecordRight
  <2>10. TraceRight(new, event)
    BY <2>6, <2>8 DEF TraceRight
  <2> QED
    BY <1>0, <2>2, <2>3, <2>4, <2>6, <2>7, <2>9, <2>10, OneRequest
<1>4. ASSUME NEW whole \in BOOLEAN, Through(r, whole) \/ Relayed(r, whole) PROVE BooksInvariant'
  <2> DEFINE new == Answered(req, "backend", req.got, whole, req.length)
  <2>1. request' = [request EXCEPT ![r] = new] /\ Rest /\ traced' = traced /\ req.pc # "answered"
    BY <1>4 DEF Through, Relayed
  <2>2. records' = [records EXCEPT ![r] = 1]
    <3>1. CASE Through(r, whole)
      BY <1>0, <3>1 DEF Through, RecordRight
    <3>2. CASE Relayed(r, whole)
      <4>1. records[r] = 0 /\ records' = [records EXCEPT ![r] = records[r] + 1]
        BY <1>0, <3>2 DEF Relayed, RecordRight
      <4> QED
        BY <4>1
    <3> QED
      BY <1>4, <3>1, <3>2
  <2>3. req.got \in AllBodies /\ req.length \in {"none", "right", "stale"}
    BY <1>0 DEF RequestType
  <2>4. new \in RequestType
    BY <1>0, <2>3, RequestSteps
  <2>5. traced' = [traced EXCEPT ![r] = traced[r]] /\ TraceRight(new, traced[r])
    BY <1>0, <2>1 DEF TraceRight
  <2>6. 1 \in 0..1 /\ RecordRight(new, 1)
    BY <1>1 DEF RecordRight
  <2> HIDE DEF new
  <2> QED
    BY <1>0, <2>1, <2>2, <2>4, <2>5, <2>6, OneRequest
<1> QED
  BY <1>2, <1>3, <1>4 DEF Backend

-----------------------------------------------------------------------------
\* PageStillRight goes along because its proof and that of RulesTypeOK are one.
FullInvariant == RulesTypeOK /\ PageStillRight /\ BooksInvariant

LEMMA BooksInit == Init => BooksInvariant
<1> SUFFICES ASSUME Init PROVE BooksInvariant
  OBVIOUS
<1>1. request \in [Requests -> RequestType] /\ \A r \in Requests : request[r].pc = "new"
  BY NewType DEF Init, New
<1>2. /\ records = [r \in Requests |-> 0] /\ wanted = [r \in Requests |-> {}]
      /\ traced = [r \in Requests |-> NoTrace] /\ privacy \in BOOLEAN /\ toggles \in 0..MaxToggles
  BY RequestsAssumption DEF Init
<1>3. NoTrace \in [body : JsonBodies \cup {"none"}, clear : BOOLEAN] /\ NoTrace.body = "none"
  BY DEF NoTrace
<1>4. Types
  BY <1>1, <1>2, <1>3 DEF Types
<1>5. RecordsRight
  BY <1>1, <1>2 DEF RecordsRight, RecordRight
<1>6. TracedIsDelivered
  BY <1>2, <1>3 DEF TracedIsDelivered
<1> QED
  BY <1>4, <1>5, <1>6 DEF BooksInvariant

\* A step that leaves requests and their books alone.
LEMMA BooksAside ==
  ASSUME BooksInvariant, request' = request, records' = records, traced' = traced,
         privacy' \in BOOLEAN, toggles' \in 0..MaxToggles,
         wanted' \in [Requests -> SUBSET [pre : BOOLEAN, post : BOOLEAN]]
  PROVE  BooksInvariant'
  BY DEF BooksInvariant, Types, RecordsRight, TracedIsDelivered

LEMMA FullNext == FullInvariant /\ [Next]_vars => FullInvariant'
<1> SUFFICES ASSUME FullInvariant, [Next]_vars PROVE FullInvariant'
  OBVIOUS
<1>0. RulesTypeOK /\ PageStillRight /\ BooksInvariant
  BY DEF FullInvariant
<1>1. RulesTypeOK' /\ PageStillRight'
  BY <1>0, RulesStep, RulesSafe
<1>2. /\ wanted \in [Requests -> SUBSET [pre : BOOLEAN, post : BOOLEAN]]
      /\ privacy \in BOOLEAN /\ toggles \in 0..MaxToggles
  BY <1>0 DEF BooksInvariant, Types
<1>3. ASSUME NEW r \in Requests,
             (\E call \in Calls : Arrive(r, call)) \/ Gateway(r) \/ BodyArrives(r) \/ Backend(r) \/ HangUp(r)
      PROVE  BooksInvariant'
  BY <1>0, <1>3, HandlerKeeps, AnswerKeeps
<1>4. ASSUME SetPrivacy PROVE BooksInvariant'
  <2>1. toggles' \in 0..MaxToggles
    BY <1>2, <1>4, RequestsAssumption DEF SetPrivacy
  <2>2. privacy' \in BOOLEAN
    BY <1>4, Zenon DEF SetPrivacy
  <2>3. request' = request /\ records' = records /\ traced' = traced /\ wanted' = wanted
    BY <1>4, Zenon DEF SetPrivacy
  <2> QED
    BY <1>0, <1>2, <2>1, <2>2, <2>3, BooksAside
<1>5. ASSUME RuleStep PROVE BooksInvariant'
  <2>1. wanted' \in [Requests -> SUBSET [pre : BOOLEAN, post : BOOLEAN]]
    BY <1>2, <1>5, WantsType DEF RuleStep
  <2>2. request' = request /\ records' = records /\ traced' = traced /\ privacy' = privacy /\ toggles' = toggles
    BY <1>5 DEF RuleStep
  <2>3. privacy' \in BOOLEAN /\ toggles' \in 0..MaxToggles
    BY <1>2, <2>2, Zenon
  <2> QED
    BY <1>0, <2>1, <2>2, <2>3, BooksAside
<1>6. ASSUME PageStep \/ UNCHANGED vars PROVE BooksInvariant'
  <2>1. /\ request' = request /\ records' = records /\ traced' = traced
        /\ privacy' = privacy /\ toggles' = toggles /\ wanted' = wanted
    BY <1>6 DEF PageStep, vars
  <2>2. /\ privacy' \in BOOLEAN /\ toggles' \in 0..MaxToggles
        /\ wanted' \in [Requests -> SUBSET [pre : BOOLEAN, post : BOOLEAN]]
    BY <1>2, <2>1, Zenon
  <2> QED
    BY <1>0, <2>1, <2>2, BooksAside
<1>7. BooksInvariant'
  BY <1>3, <1>4, <1>5, <1>6 DEF Next
<1> QED
  BY <1>1, <1>7 DEF FullInvariant

LEMMA FullCorrect == Spec => []FullInvariant
<1>1. Init => FullInvariant
  <2>1. Init => PageStillRight
    BY DEF Init, RulesInit, PageStillRight
  <2>2. Init => RulesTypeOK
    BY RulesTypeInit DEF Init
  <2> QED
    BY <2>1, <2>2, BooksInit DEF FullInvariant
<1> QED
  BY <1>1, FullNext, PTL DEF Spec

\* Type correctness; that no request is recorded twice is part of it.
THEOREM TypeCorrect == Spec => []TypeOK
<1>1. FullInvariant => TypeOK
  BY DEF FullInvariant, BooksInvariant, Types, RecordsRight, TypeOK
<1> QED
  BY <1>1, FullCorrect, PTL

\* However an answer goes out, it is recorded exactly once, and a 502 of the
\* gateway's own never is.
THEOREM AnswersAreRecorded == Spec => []RecordedOnce
<1>1. FullInvariant => RecordedOnce
  BY DEF FullInvariant, BooksInvariant, RecordsRight, RecordRight, RecordedOnce, FromBackend
<1> QED
  BY <1>1, FullCorrect, PTL

\* A trace event has what the client is given, and nothing of a private request
\* in the clear, whatever becomes of the privacy mode meanwhile.
THEOREM TracesAreTrue == Spec => []TracedIsDelivered
<1>1. FullInvariant => TracedIsDelivered
  BY DEF FullInvariant, BooksInvariant
<1> QED
  BY <1>1, FullCorrect, PTL

-----------------------------------------------------------------------------
(***************************************************************************)
(* Induction over data: the library's theorems about it have an operator   *)
(* for a parameter, so a least counterexample stands in for them.          *)
(***************************************************************************)
\* Of the numbers with a property, one is the least.
LEMMA Least ==
  ASSUME NEW T, T \subseteq Nat, T # {}
  PROVE  \E m \in T : \A n \in T : m <= n
<1> DEFINE R == OpToRel(<, Nat)
<1>1. IsWellFoundedOn(R, Nat)
  BY NatLessThanWellFounded
<1>2. \A x, y \in Nat : y < x => <<y, x>> \in R
  BY DEF OpToRel
<1> HIDE DEF R
<1>3. PICK m \in T : \A n \in T : ~ (<<n, m>> \in R)
  BY <1>1, WFMin
<1>4. SUFFICES ASSUME NEW n \in T PROVE m <= n
  OBVIOUS
<1>5. m \in Nat /\ n \in Nat /\ ~ (<<n, m>> \in R)
  BY <1>3
<1>6. ~ (n < m)
  BY <1>2, <1>5
<1> QED
  BY <1>5, <1>6

-----------------------------------------------------------------------------
(***************************************************************************)
(* glob_match computes what Matches says.  The right table, with Matches   *)
(* for a prefix of the pattern and one of the text at every place, solves  *)
(* the equation of GlobTable, and no other table does.                     *)
(***************************************************************************)
GlobRow(pat, txt) == (0..Len(pat)) \X (0..Len(txt))

\* One place of the table, from the others.
GlobCell(pat, txt, dp, i, j) ==
  IF i = 0 THEN j = 0
  ELSE IF pat[i] = "*" THEN dp[<<i - 1, j>>] \/ (j > 0 /\ dp[<<i, j - 1>>])
  ELSE j > 0 /\ pat[i] \in {"?", txt[j]} /\ dp[<<i - 1, j - 1>>]

SolvesGlob(pat, txt, dp) ==
  dp = [at \in GlobRow(pat, txt) |-> GlobCell(pat, txt, dp, at[1], at[2])]

\* The first i of pat match the first j of txt.
Piece(pat, txt, cut, k) ==
  IF pat[k] = "*" THEN cut[k - 1] <= cut[k]
  ELSE cut[k] = cut[k - 1] + 1 /\ pat[k] \in {"?", txt[cut[k]]}

CutTo(pat, txt, i, j, cut) ==
  /\ cut \in [0..i -> 0..Len(txt)] /\ cut[0] = 0 /\ cut[i] = j
  /\ \A k \in 1..i : Piece(pat, txt, cut, k)

MatchTo(pat, txt, i, j) == \E cut \in [0..i -> 0..Len(txt)] : CutTo(pat, txt, i, j, cut)

\* A cut of one character more, and one of one character less.
LEMMA CutGrows ==
  ASSUME NEW pat, NEW txt, NEW n \in Nat, Len(txt) = n,
         NEW i \in Nat, i > 0, NEW j \in 0..n, NEW h \in 0..n,
         NEW cut, CutTo(pat, txt, i - 1, h, cut),
         NEW new, new = [k \in 0..i |-> IF k = i THEN j ELSE cut[k]],
         Piece(pat, txt, new, i)
  PROVE  CutTo(pat, txt, i, j, new)
<1>1. /\ cut \in [0..(i - 1) -> 0..n] /\ cut[0] = 0 /\ cut[i - 1] = h
      /\ \A k \in 1..(i - 1) : Piece(pat, txt, cut, k)
  BY DEF CutTo
<1>2. new \in [0..i -> 0..n] /\ new[0] = 0 /\ new[i] = j
  BY <1>1
<1>3. ASSUME NEW k \in 1..i PROVE Piece(pat, txt, new, k)
  <2>1. CASE k = i
    BY <2>1
  <2>2. CASE k # i
    <3>1. k \in 1..(i - 1) /\ new[k] = cut[k] /\ new[k - 1] = cut[k - 1]
      BY <2>2
    <3> QED
      BY <1>1, <3>1 DEF Piece
  <2> QED
    BY <2>1, <2>2
<1> QED
  BY <1>2, <1>3 DEF CutTo

LEMMA CutShrinks ==
  ASSUME NEW pat, NEW txt, NEW n \in Nat, Len(txt) = n,
         NEW i \in Nat, i > 0, NEW j \in 0..n,
         NEW cut, CutTo(pat, txt, i, j, cut)
  PROVE  /\ cut[i - 1] \in 0..n /\ Piece(pat, txt, cut, i)
         /\ MatchTo(pat, txt, i - 1, cut[i - 1])
<1>1. /\ cut \in [0..i -> 0..n] /\ cut[0] = 0 /\ cut[i] = j
      /\ \A k \in 1..i : Piece(pat, txt, cut, k)
  BY DEF CutTo
<1>2. cut[i - 1] \in 0..n /\ Piece(pat, txt, cut, i)
  BY <1>1
<1> DEFINE less == [k \in 0..(i - 1) |-> cut[k]]
<1>3. less \in [0..(i - 1) -> 0..n] /\ less[0] = 0 /\ less[i - 1] = cut[i - 1]
  BY <1>1
<1>4. ASSUME NEW k \in 1..(i - 1) PROVE Piece(pat, txt, less, k)
  <2>1. k \in 1..i /\ less[k] = cut[k] /\ less[k - 1] = cut[k - 1]
    OBVIOUS
  <2> HIDE DEF less
  <2> QED
    BY <1>1, <2>1 DEF Piece
<1> HIDE DEF less
<1>5. CutTo(pat, txt, i - 1, cut[i - 1], less)
  BY <1>3, <1>4 DEF CutTo
<1> QED
  BY <1>2, <1>3, <1>5 DEF MatchTo

\* What a star adds: the text before may end anywhere.
LEMMA StarMatches ==
  ASSUME NEW pat, NEW txt, NEW n \in Nat, Len(txt) = n,
         NEW i \in Nat, i > 0, NEW j \in 0..n, pat[i] = "*"
  PROVE  /\ MatchTo(pat, txt, i, j) <=> \E h \in 0..j : MatchTo(pat, txt, i - 1, h)
<1>1. ASSUME MatchTo(pat, txt, i, j) PROVE \E h \in 0..j : MatchTo(pat, txt, i - 1, h)
  <2>1. PICK cut : CutTo(pat, txt, i, j, cut)
    BY <1>1 DEF MatchTo
  <2>2. /\ cut[i - 1] \in 0..n /\ Piece(pat, txt, cut, i) /\ MatchTo(pat, txt, i - 1, cut[i - 1])
        /\ cut[i] = j
    BY <2>1, CutShrinks DEF CutTo
  <2>3. cut[i - 1] \in 0..j
    BY <2>2 DEF Piece
  <2> QED
    BY <2>2, <2>3
<1>2. ASSUME NEW h \in 0..j, MatchTo(pat, txt, i - 1, h) PROVE MatchTo(pat, txt, i, j)
  <2>1. PICK cut : CutTo(pat, txt, i - 1, h, cut)
    BY <1>2 DEF MatchTo
  <2> DEFINE new == [k \in 0..i |-> IF k = i THEN j ELSE cut[k]]
  <2>2. new[i] = j /\ new[i - 1] = h
    BY <2>1 DEF CutTo
  <2> HIDE DEF new
  <2>3. Piece(pat, txt, new, i)
    BY <2>2 DEF Piece
  <2>4. CutTo(pat, txt, i, j, new)
    BY <2>1, <2>3, CutGrows DEF new
  <2> QED
    BY <2>4 DEF MatchTo, CutTo
<1> QED
  BY <1>1, <1>2

\* What another character adds: one of the text that it stands for.
LEMMA OneMatches ==
  ASSUME NEW pat, NEW txt, NEW n \in Nat, Len(txt) = n,
         NEW i \in Nat, i > 0, NEW j \in 0..n, pat[i] # "*"
  PROVE  MatchTo(pat, txt, i, j) <=>
           j > 0 /\ pat[i] \in {"?", txt[j]} /\ MatchTo(pat, txt, i - 1, j - 1)
<1>1. ASSUME MatchTo(pat, txt, i, j)
      PROVE  j > 0 /\ pat[i] \in {"?", txt[j]} /\ MatchTo(pat, txt, i - 1, j - 1)
  <2>1. PICK cut : CutTo(pat, txt, i, j, cut)
    BY <1>1 DEF MatchTo
  <2>2. /\ cut[i - 1] \in 0..n /\ Piece(pat, txt, cut, i) /\ MatchTo(pat, txt, i - 1, cut[i - 1])
        /\ cut[i] = j
    BY <2>1, CutShrinks DEF CutTo
  <2>3. j = cut[i - 1] + 1 /\ pat[i] \in {"?", txt[j]}
    BY <2>2 DEF Piece
  <2>4. j > 0 /\ cut[i - 1] = j - 1
    BY <2>2, <2>3
  <2> QED
    BY <2>2, <2>3, <2>4
<1>2. ASSUME j > 0, pat[i] \in {"?", txt[j]}, MatchTo(pat, txt, i - 1, j - 1)
      PROVE  MatchTo(pat, txt, i, j)
  <2>1. PICK cut : CutTo(pat, txt, i - 1, j - 1, cut)
    BY <1>2 DEF MatchTo
  <2> DEFINE new == [k \in 0..i |-> IF k = i THEN j ELSE cut[k]]
  <2>2. new[i] = j /\ new[i - 1] = j - 1
    BY <2>1 DEF CutTo
  <2> HIDE DEF new
  <2>3. Piece(pat, txt, new, i)
    BY <1>2, <2>2 DEF Piece
  <2>4. CutTo(pat, txt, i, j, new)
    BY <1>2, <2>1, <2>3, CutGrows DEF new
  <2> QED
    BY <2>4 DEF MatchTo, CutTo
<1> QED
  BY <1>1, <1>2

\* MatchTo satisfies, at every place, what the table computes there.
LEMMA MatchSolves ==
  ASSUME NEW pat, NEW txt, NEW m \in Nat, NEW n \in Nat, Len(pat) = m, Len(txt) = n
  PROVE  \E dp : SolvesGlob(pat, txt, dp) /\ dp = [at \in GlobRow(pat, txt) |-> MatchTo(pat, txt, at[1], at[2])]
<1> DEFINE dp == [at \in GlobRow(pat, txt) |-> MatchTo(pat, txt, at[1], at[2])]
<1>1. \A i \in 0..m, j \in 0..n : dp[<<i, j>>] = MatchTo(pat, txt, i, j)
  BY DEF GlobRow
<1>t. dp = [at \in GlobRow(pat, txt) |-> MatchTo(pat, txt, at[1], at[2])]
  OBVIOUS
<1> HIDE DEF dp
<1>2. ASSUME NEW i \in 0..m, NEW j \in 0..n
      PROVE  MatchTo(pat, txt, i, j) = GlobCell(pat, txt, dp, i, j)
  <2>0. MatchTo(pat, txt, i, j) \in BOOLEAN
    BY DEF MatchTo
  <2>1. CASE i = 0
    <3>1. ASSUME j = 0 PROVE MatchTo(pat, txt, i, j)
      <4> DEFINE cut == [k \in 0..0 |-> 0]
      <4>1. CutTo(pat, txt, 0, 0, cut)
        BY DEF CutTo
      <4> QED
        BY <2>1, <3>1, <4>1 DEF MatchTo, CutTo
    <3>2. ASSUME MatchTo(pat, txt, i, j) PROVE j = 0
      BY <2>1, <3>2 DEF MatchTo, CutTo
    <3> QED
      BY <2>0, <2>1, <3>1, <3>2 DEF GlobCell
  <2>2. CASE i > 0 /\ pat[i] = "*"
    <3>1. MatchTo(pat, txt, i, j) <=> \E h \in 0..j : MatchTo(pat, txt, i - 1, h)
      BY <2>2, StarMatches
    <3>2. CASE j = 0
      <4>1. MatchTo(pat, txt, i, j) <=> MatchTo(pat, txt, i - 1, j)
        BY <3>1, <3>2
      <4>2. dp[<<i - 1, j>>] = MatchTo(pat, txt, i - 1, j)
        BY <1>1, <2>2
      <4>3. GlobCell(pat, txt, dp, i, j) <=> dp[<<i - 1, j>>]
        BY <2>2, <3>2 DEF GlobCell
      <4>4. GlobCell(pat, txt, dp, i, j) \in BOOLEAN
        BY <2>2, Zenon DEF GlobCell
      <4> QED
        BY <2>0, <4>1, <4>2, <4>3, <4>4
    <3>3. CASE j > 0
      <4>1. MatchTo(pat, txt, i, j - 1) <=> \E h \in 0..(j - 1) : MatchTo(pat, txt, i - 1, h)
        BY <2>2, <3>3, StarMatches
      <4>2. MatchTo(pat, txt, i, j) <=> MatchTo(pat, txt, i - 1, j) \/ MatchTo(pat, txt, i, j - 1)
        BY <3>1, <3>3, <4>1
      <4>3. dp[<<i - 1, j>>] = MatchTo(pat, txt, i - 1, j) /\ dp[<<i, j - 1>>] = MatchTo(pat, txt, i, j - 1)
        BY <1>1, <2>2, <3>3
      <4>4. GlobCell(pat, txt, dp, i, j) <=> dp[<<i - 1, j>>] \/ dp[<<i, j - 1>>]
        BY <2>2, <3>3 DEF GlobCell
      <4>5. GlobCell(pat, txt, dp, i, j) \in BOOLEAN
        BY <2>2, Zenon DEF GlobCell
      <4> QED
        BY <2>0, <4>2, <4>3, <4>4, <4>5
    <3> QED
      BY <3>2, <3>3
  <2>3. CASE i > 0 /\ pat[i] # "*"
    <3>1. MatchTo(pat, txt, i, j) <=>
            j > 0 /\ pat[i] \in {"?", txt[j]} /\ MatchTo(pat, txt, i - 1, j - 1)
      BY <2>3, OneMatches
    <3>2. j > 0 => dp[<<i - 1, j - 1>>] = MatchTo(pat, txt, i - 1, j - 1)
      BY <1>1, <2>3
    <3>3. GlobCell(pat, txt, dp, i, j) = (j > 0 /\ pat[i] \in {"?", txt[j]} /\ dp[<<i - 1, j - 1>>])
      BY <2>3 DEF GlobCell
    <3> QED
      BY <2>0, <3>1, <3>2, <3>3
  <2> QED
    BY <2>1, <2>2, <2>3
<1>3. ASSUME NEW at \in GlobRow(pat, txt)
      PROVE  MatchTo(pat, txt, at[1], at[2]) = GlobCell(pat, txt, dp, at[1], at[2])
  BY <1>2 DEF GlobRow
<1>4. SolvesGlob(pat, txt, dp)
  BY <1>t, <1>3 DEF SolvesGlob
<1> QED
  BY <1>4, <1>t

\* Two tables that differ would differ somewhere first.
LEMMA GlobUnique ==
  ASSUME NEW pat, NEW txt, NEW m \in Nat, NEW n \in Nat, Len(pat) = m, Len(txt) = n,
         NEW a, NEW b, SolvesGlob(pat, txt, a), SolvesGlob(pat, txt, b)
  PROVE  a = b
<1>1. \A i \in 0..m, j \in 0..n :
        a[<<i, j>>] = GlobCell(pat, txt, a, i, j) /\ b[<<i, j>>] = GlobCell(pat, txt, b, i, j)
  BY DEF SolvesGlob, GlobRow
<1> DEFINE T == {s \in Nat : \E i \in 0..m, j \in 0..n : s = i + j /\ a[<<i, j>>] # b[<<i, j>>]}
<1>t. \A i \in 0..m, j \in 0..n : a[<<i, j>>] # b[<<i, j>>] => i + j \in T
  <2> SUFFICES ASSUME NEW i \in 0..m, NEW j \in 0..n, a[<<i, j>>] # b[<<i, j>>] PROVE i + j \in T
    OBVIOUS
  <2>1. i + j \in Nat
    OBVIOUS
  <2>2. \E k \in 0..m, l \in 0..n : i + j = k + l /\ a[<<k, l>>] # b[<<k, l>>]
    OBVIOUS
  <2> QED
    BY <2>1, <2>2
<1>2. ASSUME T # {} PROVE FALSE
  <2>1. PICK s \in T : \A t \in T : s <= t
    <3> HIDE DEF T
    <3>1. T \subseteq Nat
      BY DEF T
    <3> QED
      BY <1>2, <3>1, Least
  <2>2. PICK i \in 0..m, j \in 0..n : s = i + j /\ a[<<i, j>>] # b[<<i, j>>]
    BY <2>1
  <2>3. \A k \in 0..m, l \in 0..n : k + l < i + j => a[<<k, l>>] = b[<<k, l>>]
    <3> SUFFICES ASSUME NEW k \in 0..m, NEW l \in 0..n, k + l < i + j, a[<<k, l>>] # b[<<k, l>>]
                 PROVE  FALSE
      OBVIOUS
    <3>1. k + l \in T
      BY <1>t
    <3>2. k + l \in Nat /\ ~ (s <= k + l)
      BY <2>2
    <3> HIDE DEF T
    <3> QED
      BY <2>1, <3>1, <3>2
  <2>4. GlobCell(pat, txt, a, i, j) = GlobCell(pat, txt, b, i, j)
    <3>1. CASE i = 0
      BY <3>1 DEF GlobCell
    <3>2. CASE i > 0
      <4>1. a[<<i - 1, j>>] = b[<<i - 1, j>>]
        BY <2>3, <3>2
      <4>2. j > 0 => a[<<i, j - 1>>] = b[<<i, j - 1>>] /\ a[<<i - 1, j - 1>>] = b[<<i - 1, j - 1>>]
        BY <2>3, <3>2
      <4> QED
        BY <3>2, <4>1, <4>2 DEF GlobCell
    <3> QED
      BY <3>1, <3>2
  <2> QED
    BY <1>1, <2>2, <2>4
<1>3. \A i \in 0..m, j \in 0..n : a[<<i, j>>] = b[<<i, j>>]
  BY <1>2, <1>t
<1>4. \A at \in GlobRow(pat, txt) : a[at] = b[at]
  BY <1>3 DEF GlobRow
<1> QED
  BY <1>4 DEF SolvesGlob

LEMMA GlobTableIs ==
  ASSUME NEW pat, NEW txt, NEW m \in Nat, NEW n \in Nat, Len(pat) = m, Len(txt) = n
  PROVE  \A i \in 0..m, j \in 0..n : GlobTable(pat, txt)[<<i, j>>] = MatchTo(pat, txt, i, j)
<1>1. GlobTable(pat, txt) = CHOOSE dp : SolvesGlob(pat, txt, dp)
  BY DEF GlobTable, SolvesGlob, GlobCell, GlobRow
<1>2. PICK right : /\ SolvesGlob(pat, txt, right)
                   /\ right = [at \in GlobRow(pat, txt) |-> MatchTo(pat, txt, at[1], at[2])]
  BY MatchSolves
<1>3. SolvesGlob(pat, txt, GlobTable(pat, txt))
  BY <1>1, <1>2
<1>4. GlobTable(pat, txt) = right
  BY <1>2, <1>3, GlobUnique
<1> QED
  BY <1>2, <1>4 DEF GlobRow


LEMMA FoldCaseLength ==
  ASSUME NEW S, NEW text \in Seq(S)
  PROVE  Len(FoldCase(text)) = Len(text) /\ Len(text) \in Nat
<1> DEFINE Fold(i) == IF text[i] \in DOMAIN Lower THEN Lower[text[i]] ELSE text[i]
           R == {Fold(i) : i \in 1..Len(text)}
<1>1. FoldCase(text) = [i \in 1..Len(text) |-> Fold(i)] /\ Len(text) \in Nat
  BY DEF FoldCase
<1>2. \A i \in 1..Len(text) : Fold(i) \in R
  OBVIOUS
<1> HIDE DEF Fold, R
<1>3. [i \in 1..Len(text) |-> Fold(i)] \in Seq(R) /\ Len([i \in 1..Len(text) |-> Fold(i)]) = Len(text)
  BY <1>1, <1>2
<1> QED
  BY <1>1, <1>3

\* glob_match says what Matches says, of any pattern and any text.
LEMMA GlobIsRight ==
  ASSUME NEW S, NEW pattern \in Seq(S), NEW text \in Seq(S)
  PROVE  GlobMatch(pattern, text) = Matches(pattern, text)
<1> DEFINE pat == FoldCase(pattern)
           txt == FoldCase(text)
<1>1. Len(pat) = Len(pattern) /\ Len(txt) = Len(text) /\ Len(pattern) \in Nat /\ Len(text) \in Nat
  BY FoldCaseLength
<1>2. GlobMatch(pattern, text) = GlobTable(pat, txt)[<<Len(pattern), Len(text)>>]
  BY DEF GlobMatch
<1>3. Matches(pattern, text) <=> MatchTo(pat, txt, Len(pat), Len(txt))
  BY Zenon DEF Matches, MatchTo, CutTo, Piece
<1>4. Matches(pattern, text) \in BOOLEAN /\ MatchTo(pat, txt, Len(pat), Len(txt)) \in BOOLEAN
  BY DEF Matches, MatchTo
<1> HIDE DEF pat, txt
<1>5. GlobTable(pat, txt)[<<Len(pattern), Len(text)>>] = MatchTo(pat, txt, Len(pattern), Len(text))
  BY <1>1, GlobTableIs
<1> QED
  BY <1>1, <1>2, <1>3, <1>4, <1>5

\* Nothing of it depends on the state: the table of glob_match is right about
\* every pattern and every text, those that TLC compares them on among them.
THEOREM GlobMatchIsRight == Spec => []GlobIsMatches
<1>1. \A pattern \in SomePatterns, text \in SomeTexts : GlobMatch(pattern, text) = Matches(pattern, text)
  BY RequestsAssumption, GlobIsRight
<1>2. GlobIsMatches
  BY <1>1 DEF GlobIsMatches
<1> QED
  BY <1>2, PTL

-----------------------------------------------------------------------------
(***************************************************************************)
(* One list of rules for both phases.  While a request waits for its rules *)
(* those in force are among the lists it may be treated by; from then on   *)
(* one of these is the list it was treated by.                             *)
(***************************************************************************)
Treated(req, w) == req.fixed = (req.json /\ w.pre) /\ ((FixId \in req.post) <=> w.post)

Given(req, w) ==
  /\ req.fixed = (req.json /\ w.pre)
  /\ ~ (OnTracedPath(req.call) /\ Streaming(req.call, req.json)) =>
       req.answer.body \in {IF w.post THEN Best(req.got) ELSE req.got, "empty"}

SnapshotRight(list, req, lists) ==
  /\ req.pc = "direct" => req.call.path = "other"
  /\ req.pc = "rules" => Wants(list, ModelOf(req.call, req.json), req.backend) \in lists
  /\ req.pc \in {"collector", "upstream", "collect", "through", "relay"} /\ req.call.path # "other" =>
       \E w \in lists : Treated(req, w)
  /\ req.pc = "through" => req.post = {}
  /\ req.pc = "relay" => OnTracedPath(req.call) /\ Streaming(req.call, req.json)
  /\ req.answer.status = "backend" /\ req.call.path # "other" => \E w \in lists : Given(req, w)
  /\ req.pc # "answered" => req.answer.status # "backend"

SnapshotInvariant == \A r \in Requests : SnapshotRight(rules, request[r], wanted[r])

LEMMA ModelIsText ==
  ASSUME NEW call \in Calls, NEW json
  PROVE  ModelOf(call, json) \in Seq(Chars)
  BY RequestsAssumption DEF ModelOf

\* resolve_processors finds what the rules ask for.
LEMMA ResolvedIsWanted ==
  ASSUME RulesTypeOK, NEW model \in Seq(Chars), NEW backend
  PROVE  LET ids == ResolveProcessors(rules, model, backend)
             w   == Wants(rules, model, backend)
         IN  ((FixId \in ids.pre) <=> w.pre) /\ ((FixId \in ids.post) <=> w.post)
<1> DEFINE asks(k) == /\ rules[k].body.backend \in {AnyBackend, backend}
                      /\ Matches(rules[k].body.pattern, model)
           chosen == {body \in {rules[k].body : k \in DOMAIN rules} : Applies(body, model, backend)}
<1>1. ASSUME NEW k \in DOMAIN rules
      PROVE  Applies(rules[k].body, model, backend) <=> asks(k)
  <2>1. rules[k].body \in Bodies
    BY RulesTyped DEF RuleType
  <2>2. rules[k].body.pattern \in Seq(Chars)
    BY <2>1, RulesAssumption
  <2>3. GlobMatch(rules[k].body.pattern, model) = Matches(rules[k].body.pattern, model)
    BY <2>2, GlobIsRight
  <2> QED
    BY <2>3, Zenon DEF Applies
<1>2. \A body : body \in chosen <=> \E k \in DOMAIN rules : body = rules[k].body /\ asks(k)
  <2> SUFFICES ASSUME NEW body
               PROVE  body \in chosen <=> \E k \in DOMAIN rules : body = rules[k].body /\ asks(k)
    OBVIOUS
  <2>1. body \in chosen <=> \E k \in DOMAIN rules : body = rules[k].body /\ Applies(body, model, backend)
    OBVIOUS
  <2> HIDE DEF asks, chosen
  <2> QED
    BY <1>1, <2>1
<1>3. /\ ResolveProcessors(rules, model, backend).pre = UNION {body.pre : body \in chosen}
      /\ ResolveProcessors(rules, model, backend).post = UNION {body.post : body \in chosen}
  BY DEF ResolveProcessors
<1>4. /\ Wants(rules, model, backend).pre <=> \E k \in DOMAIN rules : asks(k) /\ FixId \in rules[k].body.pre
      /\ Wants(rules, model, backend).post <=> \E k \in DOMAIN rules : asks(k) /\ FixId \in rules[k].body.post
  BY DEF Wants
<1> HIDE DEF asks, chosen
<1>5. /\ FixId \in UNION {body.pre : body \in chosen}
           <=> \E k \in DOMAIN rules : asks(k) /\ FixId \in rules[k].body.pre
      /\ FixId \in UNION {body.post : body \in chosen}
           <=> \E k \in DOMAIN rules : asks(k) /\ FixId \in rules[k].body.post
  BY <1>2
<1> QED
  BY <1>3, <1>4, <1>5

\* Postprocessing makes the best of a body, and only the one processor does
\* anything.
LEMMA PostprocessedIsBest ==
  ASSUME NEW ids, NEW body \in AllBodies
  PROVE  Postprocessed(ids, body) = IF FixId \in ids THEN Best(body) ELSE body
  BY DEF Postprocessed, RepairRaw, ApplyPost, Best, AllBodies, JsonBodies, BackendBodies

\* A step of one request is one of that request's snapshot.
LEMMA SnapshotOfOne ==
  ASSUME Types, SnapshotInvariant, NEW r \in Requests, NEW new, NEW lists,
         request' = [request EXCEPT ![r] = new], wanted' = [wanted EXCEPT ![r] = lists],
         rules' = rules, SnapshotRight(rules, new, lists)
  PROVE  SnapshotInvariant'
  BY DEF Types, SnapshotInvariant

\* The handler, up to its request to the backend.
LEMMA SnapshotBeforeUpstream ==
  ASSUME RulesTypeOK, Types, SnapshotInvariant, NEW r \in Requests,
         (\E call \in Calls : Arrive(r, call)) \/ BodyArrives(r) \/ Gateway(r)
  PROVE  SnapshotInvariant'
<1> USE DEF UnchangedAround, ruleVars, Set
<1>0. /\ request[r] \in RequestType /\ SnapshotRight(rules, request[r], wanted[r])
      /\ wanted \in [Requests -> SUBSET [pre : BOOLEAN, post : BOOLEAN]]
  BY DEF Types, SnapshotInvariant
<1> DEFINE req == request[r]
<1>n. New \in RequestType /\ BadGateway \in RequestType /\ New.answer.status = "none"
      /\ BadGateway.pc = "answered" /\ BadGateway.answer.status = "502"
  BY NewType DEF New, NoAnswer, BadGateway, Answered
<1>b. SnapshotRight(rules, BadGateway, wanted[r])
  BY <1>n DEF SnapshotRight
<1>2. ASSUME NEW call \in Calls, Arrive(r, call) PROVE SnapshotInvariant'
  <2> DEFINE pc  == IF call.path = "other" THEN "direct" ELSE "body"
             new == [New EXCEPT !.pc = pc, !.call = call, !.private = privacy]
  <2>1. /\ request' = [request EXCEPT ![r] = new]
        /\ wanted' = [wanted EXCEPT ![r] = wanted[r]] /\ rules' = rules
    BY <1>0, <1>2 DEF Arrive
  <2>2. new.pc = pc /\ new.call = call /\ new.answer.status = "none"
    BY <1>n DEF RequestType
  <2> HIDE DEF new
  <2>3. SnapshotRight(rules, new, wanted[r])
    BY <2>2 DEF SnapshotRight
  <2> QED
    BY <2>1, <2>3, SnapshotOfOne
<1>3. ASSUME NEW whole \in BOOLEAN, NEW backend \in Backends \cup {NoBackend}, Body(r, whole, backend)
      PROVE  SnapshotInvariant'
  <2>1. CASE backend = NoBackend
    <3>1. /\ request' = [request EXCEPT ![r] = BadGateway]
          /\ wanted' = [wanted EXCEPT ![r] = wanted[r]] /\ rules' = rules
      BY <1>0, <1>3, <2>1 DEF Body
    <3> QED
      BY <1>b, <3>1, SnapshotOfOne
  <2>2. CASE backend # NoBackend
    <3> DEFINE json  == whole /\ req.call.json
               usage == json /\ req.call.path = "v1" /\ req.call.stream = "yes"
               new   == [req EXCEPT !.json = json, !.backend = backend, !.pc = "rules", !.usage = usage]
               lists == {Wants(rules, ModelOf(req.call, json), backend)}
    <3>1. /\ request' = [request EXCEPT ![r] = new] /\ wanted' = [wanted EXCEPT ![r] = lists]
          /\ rules' = rules /\ req.pc = "body"
      BY <1>3, <2>2 DEF Body
    <3> HIDE DEF json, usage
    <3>2. /\ new.pc = "rules" /\ new.call = req.call /\ new.json = json /\ new.backend = backend
          /\ new.answer = req.answer
      BY <1>0 DEF RequestType
    <3>3. req.answer.status # "backend"
      BY <1>0, <3>1 DEF SnapshotRight
    <3> HIDE DEF new
    <3>4. SnapshotRight(rules, new, lists)
      BY <3>2, <3>3 DEF SnapshotRight
    <3> HIDE DEF lists
    <3> QED
      BY <3>1, <3>4, SnapshotOfOne
  <2> QED
    BY <2>1, <2>2
<1>4. ASSUME NEW backend \in Backends \cup {NoBackend}, Direct(r, backend) PROVE SnapshotInvariant'
  <2> DEFINE new == [req EXCEPT !.backend = backend, !.pc = "upstream"]
  <2>1. /\ wanted' = [wanted EXCEPT ![r] = wanted[r]] /\ rules' = rules /\ req.pc = "direct"
        /\ request' = [request EXCEPT ![r] = BadGateway] \/ request' = [request EXCEPT ![r] = new]
    BY <1>0, <1>4 DEF Direct
  <2>2. new.pc = "upstream" /\ new.call = req.call /\ new.answer = req.answer
    BY <1>0 DEF RequestType
  <2> HIDE DEF new
  <2>3. SnapshotRight(rules, new, wanted[r])
    BY <1>0, <2>1, <2>2 DEF SnapshotRight
  <2> QED
    BY <1>b, <2>1, <2>3, SnapshotOfOne
<1>5. ASSUME TakeRules(r) PROVE SnapshotInvariant'
  <2> DEFINE model == ModelOf(req.call, req.json)
             ids   == ResolveProcessors(rules, model, req.backend)
             w     == Wants(rules, model, req.backend)
             fixed == req.json /\ FixId \in ids.pre
             new   == [req EXCEPT !.pc = "collector", !.post = ids.post, !.fixed = fixed]
  <2>1. /\ request' = [request EXCEPT ![r] = new]
        /\ wanted' = [wanted EXCEPT ![r] = wanted[r]] /\ rules' = rules /\ req.pc = "rules"
    BY <1>0, <1>5 DEF TakeRules
  <2>2. req.call \in Calls /\ req.json \in BOOLEAN
    BY <1>0 DEF RequestType
  <2>3. ((FixId \in ids.pre) <=> w.pre) /\ ((FixId \in ids.post) <=> w.post)
    BY <2>2, ModelIsText, ResolvedIsWanted
  <2>4. w \in wanted[r] /\ req.answer.status # "backend"
    BY <1>0, <2>1 DEF SnapshotRight
  <2>5. w.pre \in BOOLEAN
    BY WantsType
  <2> HIDE DEF ids, w
  <2>6. fixed = (req.json /\ w.pre)
    BY <2>2, <2>3, <2>5
  <2> HIDE DEF fixed
  <2>7. /\ new.pc = "collector" /\ new.call = req.call /\ new.answer = req.answer /\ new.json = req.json
        /\ new.post = ids.post /\ new.fixed = fixed
    BY <1>0 DEF RequestType
  <2> HIDE DEF new
  <2>8. Treated(new, w)
    BY <2>3, <2>6, <2>7 DEF Treated
  <2>9. SnapshotRight(rules, new, wanted[r])
    BY <2>4, <2>7, <2>8 DEF SnapshotRight
  <2> QED
    BY <2>1, <2>9, SnapshotOfOne
<1>6. ASSUME NEW some \in BOOLEAN, TakeCollector(r, some) PROVE SnapshotInvariant'
  <2> DEFINE new == [req EXCEPT !.pc = "upstream", !.collector = some]
  <2>1. /\ request' = [request EXCEPT ![r] = new]
        /\ wanted' = [wanted EXCEPT ![r] = wanted[r]] /\ rules' = rules /\ req.pc = "collector"
    BY <1>0, <1>6 DEF TakeCollector
  <2>2. /\ new.pc = "upstream" /\ new.call = req.call /\ new.answer = req.answer /\ new.json = req.json
        /\ new.post = req.post /\ new.fixed = req.fixed
    BY <1>0 DEF RequestType
  <2> HIDE DEF new
  <2>3. SnapshotRight(rules, new, wanted[r])
    BY <1>0, <2>1, <2>2 DEF SnapshotRight, Treated
  <2> QED
    BY <2>1, <2>3, SnapshotOfOne
<1> QED
  BY <1>2, <1>3, <1>4, <1>5, <1>6 DEF BodyArrives, Gateway

\* The answer comes in, or the client leaves.
LEMMA SnapshotAfterUpstream ==
  ASSUME Types, SnapshotInvariant, NEW r \in Requests, Backend(r) \/ HangUp(r)
  PROVE  SnapshotInvariant'
<1> USE DEF UnchangedAround, ruleVars, Set
<1>0. /\ request[r] \in RequestType /\ SnapshotRight(rules, request[r], wanted[r])
      /\ wanted \in [Requests -> SUBSET [pre : BOOLEAN, post : BOOLEAN]]
  BY DEF Types, SnapshotInvariant
<1> DEFINE req == request[r]
<1>1. \A body, whole, length :
        LET new == Answered(req, "backend", body, whole, length) IN
        /\ new.pc = "answered" /\ new.call = req.call /\ new.json = req.json
        /\ new.fixed = req.fixed /\ new.got = req.got
        /\ new.answer.status = "backend" /\ new.answer.body = body
  BY <1>0 DEF Answered, RequestType
<1>2. ASSUME UpstreamFails(r) \/ HangUp(r) PROVE SnapshotInvariant'
  <2> DEFINE gone == [New EXCEPT !.pc = "gone"]
  <2>1. /\ wanted' = [wanted EXCEPT ![r] = {}] /\ rules' = rules
        /\ request' = [request EXCEPT ![r] = BadGateway] \/ request' = [request EXCEPT ![r] = gone]
    BY <1>2 DEF UpstreamFails, HangUp
  <2>2. BadGateway.pc = "answered" /\ BadGateway.answer.status = "502"
    BY NewType DEF New, NoAnswer, BadGateway, Answered
  <2>3. gone.pc = "gone" /\ gone.answer.status = "none"
    BY NewType DEF New, NoAnswer
  <2> HIDE DEF gone
  <2>4. SnapshotRight(rules, BadGateway, {}) /\ SnapshotRight(rules, gone, {})
    BY <2>2, <2>3 DEF SnapshotRight
  <2> QED
    BY <2>1, <2>4, SnapshotOfOne
<1>3. ASSUME NEW body \in BackendBodies, NEW length \in Lengths, Headers(r, body, length)
      PROVE  SnapshotInvariant'
  <2> DEFINE pc  == IF OnTracedPath(req.call)
                    THEN IF Streaming(req.call, req.json) THEN "relay" ELSE "collect"
                    ELSE IF req.post # {} THEN "collect" ELSE "through"
             new == [req EXCEPT !.got = body, !.length = length, !.pc = pc]
  <2>1. /\ request' = [request EXCEPT ![r] = new]
        /\ wanted' = [wanted EXCEPT ![r] = wanted[r]] /\ rules' = rules /\ req.pc = "upstream"
    BY <1>0, <1>3 DEF Headers
  <2>2. /\ pc \in {"collect", "relay", "through"}
        /\ pc = "through" => req.post = {}
        /\ pc = "relay" => OnTracedPath(req.call) /\ Streaming(req.call, req.json)
    OBVIOUS
  <2> HIDE DEF pc
  <2>3. /\ new.pc = pc /\ new.call = req.call /\ new.answer = req.answer /\ new.json = req.json
        /\ new.post = req.post /\ new.fixed = req.fixed
    BY <1>0 DEF RequestType
  <2> HIDE DEF new
  <2>4. SnapshotRight(rules, new, wanted[r])
    BY <1>0, <2>1, <2>2, <2>3 DEF SnapshotRight, Treated
  <2> QED
    BY <2>1, <2>4, SnapshotOfOne
<1>4. ASSUME NEW whole \in BOOLEAN, BodyIn(r, whole) PROVE SnapshotInvariant'
  <2> DEFINE got  == Collected(req, whole)
             body == IF req.post = {} THEN got ELSE Postprocessed(req.post, got)
             new  == Answered(req, "backend", body, TRUE, LengthOf(req, body))
  <2>1. /\ request' = [request EXCEPT ![r] = new]
        /\ wanted' = [wanted EXCEPT ![r] = wanted[r]] /\ rules' = rules /\ req.pc = "collect"
    BY <1>0, <1>4 DEF BodyIn
  <2>2. got \in AllBodies /\ got \in {req.got, "empty"} /\ Best("empty") = "empty"
    BY <1>0, BodiesStay DEF Collected, Best
  <2> HIDE DEF got
  <2>3. body = IF FixId \in req.post THEN Best(got) ELSE got
    BY <2>2, PostprocessedIsBest
  <2>4. body \in {IF FixId \in req.post THEN Best(req.got) ELSE req.got, "empty"}
    BY <2>2, <2>3
  <2> HIDE DEF body
  <2>5. /\ new.pc = "answered" /\ new.call = req.call /\ new.json = req.json
        /\ new.fixed = req.fixed /\ new.got = req.got
        /\ new.answer.status = "backend" /\ new.answer.body = body
    BY <1>0 DEF Answered, RequestType
  <2> HIDE DEF new
  <2>6. ASSUME NEW w \in wanted[r], Treated(req, w) PROVE Given(new, w)
    BY <2>4, <2>5, <2>6 DEF Treated, Given
  <2>7. SnapshotRight(rules, new, wanted[r])
    BY <1>0, <2>1, <2>5, <2>6 DEF SnapshotRight
  <2> QED
    BY <2>1, <2>7, SnapshotOfOne
<1>5. ASSUME NEW whole \in BOOLEAN, Through(r, whole) \/ Relayed(r, whole) PROVE SnapshotInvariant'
  <2> DEFINE new == Answered(req, "backend", req.got, whole, req.length)
  <2>1. /\ request' = [request EXCEPT ![r] = new]
        /\ wanted' = [wanted EXCEPT ![r] = wanted[r]] /\ rules' = rules /\ req.pc \in {"through", "relay"}
    BY <1>0, <1>5 DEF Through, Relayed
  <2>2. /\ new.pc = "answered" /\ new.call = req.call /\ new.json = req.json
        /\ new.fixed = req.fixed /\ new.got = req.got
        /\ new.answer.status = "backend" /\ new.answer.body = req.got
    BY <1>1
  <2> HIDE DEF new
  <2>3. \/ req.post = {}
        \/ OnTracedPath(req.call) /\ Streaming(req.call, req.json)
    BY <1>0, <2>1 DEF SnapshotRight
  <2>4. ASSUME NEW w \in wanted[r], Treated(req, w) PROVE Given(new, w)
    BY <2>2, <2>3, <2>4 DEF Treated, Given
  <2>5. SnapshotRight(rules, new, wanted[r])
    BY <1>0, <2>1, <2>2, <2>4 DEF SnapshotRight
  <2> QED
    BY <2>1, <2>5, SnapshotOfOne
<1> QED
  BY <1>2, <1>3, <1>4, <1>5 DEF Backend

\* An edit of the rules adds to the lists a request may be treated by.
LEMMA SnapshotOfEdit ==
  ASSUME Types, SnapshotInvariant, RuleStep
  PROVE  SnapshotInvariant'
<1> SUFFICES ASSUME NEW r \in Requests PROVE SnapshotRight(rules', request'[r], wanted'[r])
  BY DEF SnapshotInvariant
<1> DEFINE req == request[r]
<1>1. request' = request /\ SnapshotRight(rules, req, wanted[r])
  BY DEF RuleStep, SnapshotInvariant
<1>2. wanted[r] \subseteq wanted'[r]
  BY DEF RuleStep
<1>3. req.pc = "rules" => Wants(rules', ModelOf(req.call, req.json), req.backend) \in wanted'[r]
  BY DEF RuleStep
<1> QED
  BY <1>1, <1>2, <1>3 DEF SnapshotRight

LEMMA SnapshotCorrect == Spec => []SnapshotInvariant
<1>1. Init => SnapshotInvariant
  <2>1. New.pc = "new" /\ New.answer.status = "none"
    BY DEF New, NoAnswer
  <2> QED
    BY <2>1 DEF Init, SnapshotInvariant, SnapshotRight
<1>2. FullInvariant /\ SnapshotInvariant /\ [Next]_vars => SnapshotInvariant'
  <2> SUFFICES ASSUME FullInvariant, SnapshotInvariant, [Next]_vars PROVE SnapshotInvariant'
    OBVIOUS
  <2>1. RulesTypeOK /\ Types
    BY DEF FullInvariant, BooksInvariant
  <2>2. ASSUME NEW r \in Requests,
               (\E call \in Calls : Arrive(r, call)) \/ Gateway(r) \/ BodyArrives(r) \/ Backend(r) \/ HangUp(r)
        PROVE  SnapshotInvariant'
    BY <2>1, <2>2, SnapshotBeforeUpstream, SnapshotAfterUpstream
  <2>3. CASE RuleStep
    BY <2>1, <2>3, SnapshotOfEdit
  <2>4. CASE SetPrivacy \/ PageStep \/ UNCHANGED vars
    BY <2>4 DEF SetPrivacy, PageStep, LoadPage, vars, ruleVars, SnapshotInvariant
  <2> QED
    BY <2>2, <2>3, <2>4 DEF Next
<1> QED
  BY <1>1, <1>2, FullCorrect, PTL DEF Spec

\* Both phases go by one list of rules that was in force while the request was
\* under way, whatever is edited between them, and what the client is given is
\* what that list makes of the whole body of the backend.
THEOREM SnapshotsAreOne == Spec => []OneSnapshot
<1>1. SnapshotInvariant => OneSnapshot
  BY DEF SnapshotInvariant, SnapshotRight, Given, OneSnapshot, FromBackend
<1> QED
  BY <1>1, SnapshotCorrect, PTL

=============================================================================
