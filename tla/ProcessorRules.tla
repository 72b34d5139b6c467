---------------------------- MODULE ProcessorRules ----------------------------
(***************************************************************************)
(* The processor rules: which processors a model and a backend get         *)
(* (Config::resolve_processors and its glob_match), and the admin calls    *)
(* that edit the rules by their index while a page shows an older list.    *)
(*                                                                         *)
(* Each call edits under the write lock in one step; the save that follows *)
(* changes neither the rules nor a page, and is modelled in                *)
(* ConfigPersistence.  A list of processor ids is the set of them: only    *)
(* one processor is registered, and resolve_processors drops doubles.      *)
(***************************************************************************)
EXTENDS Integers, Sequences

CONSTANTS
  Pages,          \* browser pages that show the rules
  Chars,          \* the characters of patterns and model names
  Bodies,         \* rules a caller may send: [pattern, backend, pre, post]
  InitialBodies,  \* sequences of rules that config.toml may hold
  Lower,          \* to_lowercase, on the characters that it changes
  AnyBackend,     \* the empty backend name
  MaxRules,       \* bound: rules
  MaxEdits        \* bound: edits

ASSUME RulesAssumption ==
  /\ \A body \in Bodies : body.pattern \in Seq(Chars)
  /\ InitialBodies \subseteq Seq(Bodies)
  /\ \A s \in InitialBodies : Len(s) <= MaxRules
  /\ MaxRules \in Nat /\ MaxEdits \in Nat

VARIABLES
  rules,   \* processor_rules, each with the number it was added under (ghost)
  page,    \* the numbers of the rules each page shows
  low,     \* ghost: the lowest index deleted since the page was loaded
  edits

ruleVars == <<rules, page, low, edits>>

-----------------------------------------------------------------------------
FoldCase(text) == [i \in DOMAIN text |-> IF text[i] \in DOMAIN Lower THEN Lower[text[i]] ELSE text[i]]

\* Mutant: a star matches at least one character.
GlobTable_StarIsPlus(pat, txt) ==
  LET dp[at \in (0..Len(pat)) \X (0..Len(txt))] ==
        IF at[1] = 0 THEN at[2] = 0
        ELSE IF pat[at[1]] = "*"
        THEN at[2] > 0 /\ (dp[<<at[1] - 1, at[2] - 1>>] \/ dp[<<at[1], at[2] - 1>>])
        ELSE at[2] > 0 /\ pat[at[1]] \in {"?", txt[at[2]]} /\ dp[<<at[1] - 1, at[2] - 1>>]
  IN  dp

\* The table of glob_match: at <<i, j>>, whether the first i of pat match the
\* first j of txt.
GlobTable(pat, txt) ==
  LET dp[at \in (0..Len(pat)) \X (0..Len(txt))] ==
        IF at[1] = 0 THEN at[2] = 0
        ELSE IF pat[at[1]] = "*"
        THEN dp[<<at[1] - 1, at[2]>>] \/ (at[2] > 0 /\ dp[<<at[1], at[2] - 1>>])
        ELSE at[2] > 0 /\ pat[at[1]] \in {"?", txt[at[2]]} /\ dp[<<at[1] - 1, at[2] - 1>>]
  IN  dp

GlobMatch(pattern, text) ==
  GlobTable(FoldCase(pattern), FoldCase(text))[<<Len(pattern), Len(text)>>]

\* A rule applies to its backend, or to all when it names none.
Applies(body, model, backend) ==
  body.backend \in {AnyBackend, backend} /\ GlobMatch(body.pattern, model)

ResolveProcessors(list, model, backend) ==
  LET chosen == {body \in {list[k].body : k \in DOMAIN list} : Applies(body, model, backend)}
  IN  [pre |-> UNION {body.pre : body \in chosen}, post |-> UNION {body.post : body \in chosen}]

-----------------------------------------------------------------------------
Numbered(bodies) == [k \in DOMAIN bodies |-> [id |-> k, body |-> bodies[k]]]

RulesInit ==
  /\ \E bodies \in InitialBodies : rules = Numbered(bodies)
  /\ page = [p \in Pages |-> <<>>]
  /\ low = [p \in Pages |-> 1]
  /\ edits = 0

Edit == edits < MaxEdits /\ edits' = edits + 1

\* A rule that config.toml did not hold gets a number above all of theirs.
NewRule(body) == [id |-> MaxRules + edits + 1, body |-> body]

\* get_processor_rules, for a page that shows the rules.
LoadPage(p) ==
  /\ page' = [page EXCEPT ![p] = [k \in DOMAIN rules |-> rules[k].id]]
  /\ low' = [low EXCEPT ![p] = Len(rules) + 1]
  /\ UNCHANGED <<rules, edits>>

\* Mutant: the new rule goes first, to take precedence.
AddRule_InFront(body) ==
  /\ body.pattern # <<>> /\ Len(rules) < MaxRules
  /\ Edit
  /\ rules' = <<NewRule(body)>> \o rules
  /\ UNCHANGED <<page, low>>

\* add_processor_rule, which refuses an empty pattern.
AddRule(body) ==
  /\ body.pattern # <<>> /\ Len(rules) < MaxRules
  /\ Edit
  /\ rules' = Append(rules, NewRule(body))
  /\ UNCHANGED <<page, low>>

\* update_processor_rule, which does not look at the pattern.
UpdateRule(k, body) ==
  /\ k \in DOMAIN rules
  /\ Edit
  /\ rules' = [rules EXCEPT ![k].body = body]
  /\ UNCHANGED <<page, low>>

\* delete_processor_rule: the rules behind it move up by one.
DeleteRule(k) ==
  /\ k \in DOMAIN rules
  /\ Edit
  /\ rules' = [j \in 1..(Len(rules) - 1) |-> IF j < k THEN rules[j] ELSE rules[j + 1]]
  /\ low' = [p \in Pages |-> IF k < low[p] THEN k ELSE low[p]]
  /\ UNCHANGED page

EditRules ==
  \/ \E body \in Bodies : AddRule(body)
  \/ \E k \in DOMAIN rules, body \in Bodies : UpdateRule(k, body)
  \/ \E k \in DOMAIN rules : DeleteRule(k)

-----------------------------------------------------------------------------
RulesTypeOK ==
  /\ rules \in Seq([id : 1..(MaxRules + MaxEdits), body : Bodies]) /\ Len(rules) <= MaxRules
  /\ page \in [Pages -> Seq(1..(MaxRules + MaxEdits))]
  /\ low \in [Pages -> Nat]
  /\ edits \in 0..MaxEdits

\* A page shows a rule at the index under which update and delete will find it,
\* whatever has been added and updated by others since, as long as no rule at
\* this index or before it has been deleted.  The calls name a rule by nothing
\* but its index: behind a deleted one they hit another rule.
PageStillRight ==
  \A p \in Pages : \A k \in DOMAIN page[p] :
    k < low[p] => k \in DOMAIN rules /\ rules[k].id = page[p][k]

\* Reference definition of glob matching: the text can be cut into one piece for
\* each character of the pattern, any piece for a star and one character, that
\* one or any, for another.
Matches(pattern, text) ==
  LET pat == FoldCase(pattern)
      txt == FoldCase(text)
  IN  \E cut \in [0..Len(pat) -> 0..Len(txt)] :
        /\ cut[0] = 0 /\ cut[Len(pat)] = Len(txt)
        /\ \A i \in 1..Len(pat) :
             IF pat[i] = "*" THEN cut[i - 1] <= cut[i]
             ELSE cut[i] = cut[i - 1] + 1 /\ pat[i] \in {"?", txt[cut[i]]}
=============================================================================
