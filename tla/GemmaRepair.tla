----------------------------- MODULE GemmaRepair -----------------------------
(***************************************************************************)
(* gemma4-tool-call-fix, the one registered processor: what it makes of    *)
(* the arguments of a tool call into which the model's own string          *)
(* delimiters have leaked, and of an answer that is no JSON because of     *)
(* them.                                                                   *)
(*                                                                         *)
(* A text is a sequence of symbols, "tool_call" being one and "x" standing *)
(* for anything that means nothing here.  The replacements are the code's, *)
(* in the code's order; its loop over doubled quotes is one step a round.  *)
(***************************************************************************)
EXTENDS Integers, Sequences

CONSTANTS
  Values,  \* arguments: [shape, strings], the shape "object" or "list"
  Gaps,    \* what is written after a colon or a comma
  Roles    \* the role a message may have, "none" for a message without

Quote == "\""
Escape == "\\"
Symbols == {Quote, Escape, "<", "|", ">", "tool_call", "{", "}", "[", "]", ":", ",", " ", "x"}

VARIABLES
  meant,   \* ghost: the text the model meant
  leak,    \* ghost: how its delimiters have leaked
  strings, shape,  \* ghost: the strings in it, and how they are arranged
  given,   \* the text that arrives, an answer or the arguments in a message
  role, text,
  next,    \* the next replacement
  pc

vars == <<meant, leak, strings, shape, given, role, text, next, pc>>

-----------------------------------------------------------------------------
OccursAt(s, pat, i) == i + Len(pat) - 1 <= Len(s) /\ SubSeq(s, i, i + Len(pat) - 1) = pat

Places(s, pat) == {i \in DOMAIN s : OccursAt(s, pat, i)}

\* str::replace, from left to right.
Replace(s, pat, new) ==
  LET from[i \in 1..(Len(s) + 1)] ==
        IF i > Len(s) THEN <<>>
        ELSE IF OccursAt(s, pat, i) THEN new \o from[i + Len(pat)]
        ELSE <<s[i]>> \o from[i + 1]
  IN  from[1]

Blocks == << <<"<", "|", "tool_call", ">">>, <<"<", "tool_call", "|", ">">>,
             <<"<", "|", "tool_call", "|", ">">> >>

\* In this order, longer patterns before those they begin with.
Markers ==
  << <<"<", "|", Quote, "|", ">">>, <<"<", "|", Escape, Quote, "|">>, <<"<", "|", Escape, Quote>>,
     <<"<", "|", Quote>>, <<Quote, "|", ">">> >>
Remains == << <<"<", "|", Escape>>, <<"<", "|">>, <<"|", ">">> >>
Strays == << <<Quote, "|">>, <<"|", Quote>> >>

To(patterns, new) == [k \in DOMAIN patterns |-> <<patterns[k], new>>]

\* Mutant: what remains of a marker is removed before the markers.
Replacements_RemainsFirst(quote) ==
  To(Blocks, <<>>) \o To(Remains, <<>>) \o To(Markers, quote) \o To(Strays, quote)

Replacements(quote) ==
  To(Blocks, <<>>) \o To(Markers, quote) \o To(Remains, <<>>) \o To(Strays, quote)

-----------------------------------------------------------------------------
(***************************************************************************)
(* JSON made of strings, arrays and objects, which serde_json parses in    *)
(* the code.  A reader is at some place in a value, inside the brackets of *)
(* the stack; a symbol takes it to another place, or to none.              *)
(***************************************************************************)
Reader(at, stack) == [at |-> at, stack |-> stack]

Moves(q, c) ==
  LET inside == IF q.stack = <<>> THEN "nothing" ELSE Head(q.stack)
      to(at) == {Reader(at, q.stack)}
  IN  CASE q.at \in {"string", "key"} /\ c = Escape -> to(IF q.at = "key" THEN "key escape" ELSE "escape")
        [] q.at = "string" -> to(IF c = Quote THEN "after" ELSE "string")
        [] q.at = "key"    -> to(IF c = Quote THEN "colon" ELSE "key")
        [] q.at = "escape" /\ c \in {Quote, Escape} -> to("string")
        [] q.at = "key escape" /\ c \in {Quote, Escape} -> to("key")
        [] c = " " /\ q.at \notin {"escape", "key escape"} -> {q}
        [] q.at \in {"value", "first"} /\ c = Quote -> to("string")
        [] q.at \in {"value", "first"} /\ c = "[" -> {Reader("first", <<"[">> \o q.stack)}
        [] q.at \in {"value", "first"} /\ c = "{" -> {Reader("first key", <<"{">> \o q.stack)}
        [] q.at \in {"next key", "first key"} /\ c = Quote -> to("key")
        [] q.at = "colon" /\ c = ":" -> to("value")
        [] q.at = "after" /\ c = "," /\ inside = "[" -> to("value")
        [] q.at = "after" /\ c = "," /\ inside = "{" -> to("next key")
        [] q.at \in {"after", "first"} /\ c = "]" /\ inside = "[" -> {Reader("after", Tail(q.stack))}
        [] q.at \in {"after", "first key"} /\ c = "}" /\ inside = "{" -> {Reader("after", Tail(q.stack))}
        [] OTHER -> {}

IsJson(s) ==
  LET read[i \in 0..Len(s)] ==
        IF i = 0 THEN {Reader("value", <<>>)} ELSE UNION {Moves(q, s[i]) : q \in read[i - 1]}
  IN  read[Len(s)] = {Reader("after", <<>>)}

-----------------------------------------------------------------------------
(***************************************************************************)
(* What a model means, and what arrives: the delimiters of its values as   *)
(* the comments and the logged answers among the tests show them.          *)
(***************************************************************************)
Delimiters(how) ==
  CASE how \in {"none", "block", "bare"} -> [open |-> <<Quote>>, close |-> <<Quote>>]
    [] how \in {"full", "raw"} ->
         [open |-> <<"<", "|", Quote, "|", ">">>, close |-> <<"<", "|", Quote, "|", ">">>]
    [] how = "escaped" ->
         [open |-> <<Quote, "<", "|", Escape, Quote>>, close |-> <<"<", "|", Escape, Quote, "|", Quote>>]
    [] how = "backslash" ->
         [open |-> <<Quote, "<", "|", Escape>>, close |-> <<"<", "|", Escape, Quote, "|", Quote>>]
    [] how = "partial" -> [open |-> <<"<", "|", Quote>>, close |-> <<Quote, "|">>]

Leaks == {"none", "block", "bare", "full", "raw", "escaped", "backslash", "partial"}

Joined(parts, gap) ==
  LET upTo[k \in 1..Len(parts)] ==
        IF k = 1 THEN parts[1] ELSE upTo[k - 1] \o <<",">> \o gap \o parts[k]
  IN  upTo[Len(parts)]

Render(value, gap, marks) ==
  LET key == <<Quote, "x", Quote, ":">> \o gap
      quoted == [k \in DOMAIN value.strings |-> marks.open \o value.strings[k] \o marks.close]
      inner == IF value.shape = "object"
               THEN Joined([k \in DOMAIN quoted |-> key \o quoted[k]], gap)
               ELSE key \o <<"[">> \o Joined(quoted, gap) \o <<"]">>
  IN  <<"{">> \o inner \o <<"}">>

Leaked(value, gap, how) ==
  LET whole == Render(value, gap, Delimiters(how))
  IN  CASE how = "block" -> <<"<", "|", "tool_call", ">">> \o whole \o <<"<", "tool_call", "|", ">">>
        [] how = "bare"  -> SubSeq(whole, 2, Len(whole) - 1)
        [] OTHER -> whole

\* An answer whose message has these arguments, escaped but for the delimiters
\* that leaked: they break its JSON.
Before == <<"{", Quote, "x", Quote, ":", Quote>>
After == <<Quote, "}">>
BrokenBody(value, gap) ==
  LET escaped == Replace(Leaked(value, gap, "full"), <<Quote>>, <<Escape, Quote>>)
  IN  Before \o Replace(escaped, <<"<", "|", Escape, Quote, "|", ">">>, <<"<", "|", Quote, "|", ">">>) \o After

\* The arguments in an answer that could be parsed.
ArgumentsOf(body) ==
  Replace(SubSeq(body, Len(Before) + 1, Len(body) - Len(After)), <<Escape, Quote>>, <<Quote>>)

Escaped(value) == \E k \in DOMAIN value.strings : Escape \in {value.strings[k][i] : i \in DOMAIN value.strings[k]}

Init ==
  \E value \in Values, gap \in Gaps, how \in Leaks :
    /\ Escaped(value) => how = "none"
    /\ leak = how /\ strings = value.strings /\ shape = value.shape
    /\ meant = Render(value, gap, Delimiters("none"))
    /\ IF how = "raw"
       THEN role = "assistant" /\ pc = "raw" /\ given = BrokenBody(value, gap)
       ELSE role \in Roles /\ pc = "message" /\ given = Leaked(value, gap, how)
    /\ text = given /\ next = 1

Unchanged == UNCHANGED <<meant, leak, strings, shape, role, given>>

-----------------------------------------------------------------------------
\* The next replacement in the text; after the last one, on to pc "then".
ReplaceNext(quote, then) ==
  LET pairs == Replacements(quote)
      pair  == pairs[next]
  IN  /\ text' = Replace(text, pair[1], pair[2])
      /\ IF next < Len(pairs) THEN next' = next + 1 /\ UNCHANGED pc ELSE next' = 1 /\ pc' = then

HasMarkers == Places(text, <<"<", "|">>) \cup Places(text, <<"|", ">">>) # {}

\* repair_raw_body: the quotes of the arguments are inside a string.
RepairRaw ==
  /\ pc = "raw"
  /\ IF next > 1 \/ HasMarkers THEN ReplaceNext(<<Escape, Quote>>, "parse")
     ELSE pc' = "done" /\ UNCHANGED <<text, next>>
  /\ Unchanged

\* The repaired answer is parsed again; else it goes out as it came in.
Parse ==
  /\ pc = "parse"
  /\ IF IsJson(text) THEN pc' = "message" /\ text' = ArgumentsOf(text)
     ELSE pc' = "done" /\ text' = given
  /\ UNCHANGED next /\ Unchanged

\* sanitize_message cleans those of the assistant.
Message ==
  /\ pc = "message"
  /\ pc' = IF role = "assistant" THEN "strip" ELSE "done"
  /\ UNCHANGED <<text, next>> /\ Unchanged

Strip ==
  /\ pc = "strip"
  /\ ReplaceNext(<<Quote>>, "quotes")
  /\ Unchanged

Two == <<Quote, Quote>>
Three == <<Quote, Quote, Quote>>
FirstDouble == CHOOSE i \in Places(text, Two) : \A j \in Places(text, Two) : i <= j

\* The doubled quotes at i look like an empty value.
LooksEmpty(i) ==
  /\ i > 1 /\ text[i - 1] \in {":", " "}
  /\ i + 2 <= Len(text) => text[i + 2] \in {",", "}", "]"}

CollapseThree ==
  /\ pc = "quotes" /\ Places(text, Three) # {}
  /\ text' = Replace(text, Three, <<Quote>>)
  /\ UNCHANGED <<pc, next>> /\ Unchanged

CollapseTwo ==
  /\ pc = "quotes" /\ Places(text, Three) = {} /\ Places(text, Two) # {}
  /\ ~ LooksEmpty(FirstDouble)
  /\ text' = SubSeq(text, 1, FirstDouble) \o SubSeq(text, FirstDouble + 2, Len(text))
  /\ UNCHANGED <<pc, next>> /\ Unchanged

\* Mutant: the loop goes on to look for others, from the beginning.
KeepEmpty_GoesOn ==
  /\ pc = "quotes" /\ Places(text, Three) = {} /\ Places(text, Two) # {}
  /\ LooksEmpty(FirstDouble)
  /\ UNCHANGED <<pc, text, next>> /\ Unchanged

\* An empty value ends the loop, whatever may follow it.
KeepEmpty ==
  /\ pc = "quotes" /\ Places(text, Three) = {} /\ Places(text, Two) # {}
  /\ LooksEmpty(FirstDouble)
  /\ pc' = "wrap" /\ UNCHANGED <<text, next>> /\ Unchanged

NoDoubles ==
  /\ pc = "quotes" /\ Places(text, Two) = {}
  /\ pc' = "wrap" /\ UNCHANGED <<text, next>> /\ Unchanged

Wrapped == <<"{">> \o text \o <<"}">>

\* Members without their braces get them; the rest is returned as it is.
Wrap ==
  /\ pc = "wrap"
  /\ text' = IF ~ IsJson(text) /\ text[1] # "{" /\ Places(text, <<":">>) # {} /\ IsJson(Wrapped)
             THEN Wrapped ELSE text
  /\ pc' = "done"
  /\ UNCHANGED next /\ Unchanged

Rest == pc = "done" /\ UNCHANGED vars

Step == RepairRaw \/ Parse \/ Message \/ Strip \/ CollapseThree \/ CollapseTwo \/ KeepEmpty \/ NoDoubles \/ Wrap
Next == Step \/ Rest
Spec == Init /\ [][Next]_vars
FairSpec == Spec /\ WF_vars(Step)

-----------------------------------------------------------------------------
Empty == \E k \in DOMAIN strings : strings[k] = <<>>
Ending == \E k \in DOMAIN strings : strings[k] # <<>> /\ strings[k][Len(strings[k])] = Quote

\* An assistant's arguments come out as the model meant them, in each of the
\* forms in which its delimiters have been seen to leak, the form that breaks the
\* whole answer included; and without a leak they are left alone.  Empty strings
\* are safe only where they are the value of a member and no delimiter leaks next
\* to a quote of its own; a string that ends in an escaped quote is not safe at
\* all.  Messages of others keep what looks like a delimiter.
CleanedIsMeant ==
  pc = "done" =>
    IF role # "assistant" THEN text = given
    ELSE ~ Ending /\ (Empty => shape = "object" /\ leak \notin {"escaped", "backslash", "partial"})
         => text = meant

\* Every text is done with after finitely many rounds.
RepairEnds == <>(pc = "done")

\* Arguments that are valid JSON, without a marker in them, come out as they were
\* (test_already_valid_json_unchanged).
AlreadyValidUnchanged == pc = "done" /\ leak = "none" => text = given
=============================================================================
