---------------------------- MODULE GeneratedText ----------------------------
(***************************************************************************)
(* The text a model generates, and what parse_generated_message            *)
(* (ds4_server.c) makes of it once it is complete: the reasoning, the      *)
(* visible content and the tool calls.  A text is a sequence of symbols;   *)
(* a marker is "<" and a word, so that a token can split it, a character   *)
(* of three bytes is "U" "u" "u", an entity is "&" "lt;", and a tag        *)
(* carries its attributes as symbols.  Offsets count from 0, as in C.      *)
(*                                                                         *)
(* The arguments of a call are JSON, a text of symbols as well: a run of   *)
(* letters stands for a number, an array for arrays and objects, an        *)
(* attribute for the key it names, and a line break for its escape.        *)
(***************************************************************************)
EXTENDS Naturals, SequencesExt, FiniteSetsExt

ThinkOpen == <<"<", "think>">>
ThinkClose == <<"<", "/think>">>

\* The two spellings of the tool markup that differ in precedence; the third
\* one of the code, with one bar dropped, is handled like "dsml".
Styles == {"dsml", "xml"}
Tag == [dsml |-> [calls |-> <<"<", "|calls>">>, endCalls |-> <<"<", "|/calls>">>,
                  invoke |-> <<"<", "|invoke">>, endInvoke |-> <<"<", "|/invoke>">>,
                  param |-> <<"<", "|param">>, endParam |-> <<"<", "|/param>">>],
        xml |-> [calls |-> <<"<", "calls>">>, endCalls |-> <<"<", "/calls>">>,
                 invoke |-> <<"<", "invoke">>, endInvoke |-> <<"<", "/invoke>">>,
                 param |-> <<"<", "param">>, endParam |-> <<"<", "/param>">>]]
CallsMarkers == {Tag[s].calls : s \in Styles}
EndCallsMarkers == {Tag[s].endCalls : s \in Styles}

Space == {"_", "\n\n"}
Closing == {">", "think>", "/think>", "|calls>", "|/calls>", "|/invoke>", "|/param>",
            "calls>", "/calls>", "/invoke>", "/param>"}
NameAttr == {"name=f", "name=g", "name=arguments"}
StringAttr == {"string=true", "string=false"}

\* The symbols of raw from offset i up to offset j.
Cut(raw, i, j) == SubSeq(raw, i + 1, j)

Lit(raw, p, lit) == p + Len(lit) <= Len(raw) /\ Cut(raw, p, p + Len(lit)) = lit
Partial(raw, p, lit) == p <= Len(raw) /\ Len(raw) < p + Len(lit) /\ IsPrefix(Cut(raw, p, Len(raw)), lit)

\* Where one of the literals begins at or after offset p.
Occurs(raw, p, lits) == {i \in p..Len(raw) : \E l \in lits : Lit(raw, i, l)}

SkipSpace(raw, p) == Min({i \in p..Len(raw) : i = Len(raw) \/ raw[i + 1] \notin Space})
TrimSpace(raw, start, limit) ==
  Max({i \in start..limit : i = start \/ raw[i] \notin Space} \cup {Min({start, limit})})

TagEnds(raw, p) == {i \in p..Len(raw) - 1 : raw[i + 1] \in Closing}
Attrs(raw, p, e, kind) == SelectSeq(Cut(raw, p, e), LAMBDA a : a \in kind)

\* dsml_unescape_text: an entity becomes the character it names.
Unescape(s) ==
  LET Step(t, c) == IF c = "lt;" /\ t # <<>> /\ Last(t) = "&" THEN Front(t) \o <<"<">>
                    ELSE Append(t, c)
  IN FoldLeft(Step, <<>>, s)

-----------------------------------------------------------------------------
(* JSON *)

Letter == {"a", "b", "c"}

RECURSIVE StringEnd(_, _)
\* json_string: the offset behind the string that goes on at p, 0 for none.
StringEnd(s, p) ==
  CASE p >= Len(s) -> 0
    [] p < Len(s) /\ s[p + 1] = "\"" -> p + 1
    [] p < Len(s) /\ s[p + 1] = "\\" ->
         IF p + 1 < Len(s) /\ s[p + 2] \in {"\"", "\\"} THEN StringEnd(s, p + 2) ELSE 0
    [] OTHER -> StringEnd(s, p + 1)

RECURSIVE ValueEnd(_, _), ElementsEnd(_, _)
\* json_skip_value: the offset behind the value at from, 0 for none.
ValueEnd(s, from) ==
  LET p == SkipSpace(s, from)
      q == SkipSpace(s, p + 1)
  IN IF p = Len(s) THEN 0
     ELSE CASE s[p + 1] = "\"" -> StringEnd(s, p + 1)
            [] s[p + 1] = "[" -> IF Lit(s, q, <<"]">>) THEN q + 1 ELSE ElementsEnd(s, p + 1)
            [] s[p + 1] = "null" -> p + 1
            [] s[p + 1] \in Letter -> Min({i \in p..Len(s) : i = Len(s) \/ s[i + 1] \notin Letter})
            [] OTHER -> 0
ElementsEnd(s, from) ==
  LET e == ValueEnd(s, from)
      q == SkipSpace(s, e)
  IN CASE e # 0 /\ Lit(s, q, <<"]">>) -> q + 1
       [] e # 0 /\ Lit(s, q, <<",">>) -> ElementsEnd(s, q + 1)
       [] OTHER -> 0

\* json_minify_raw_value: the first value without white space outside strings;
\* what is no value stays as it is.
Dense(v) ==
  LET Step(t, c) ==
        IF t.inside THEN [out |-> Append(t.out, c), inside |-> t.escaped \/ c # "\"",
                          escaped |-> ~t.escaped /\ c = "\\"]
        ELSE [t EXCEPT !.out = IF c \in Space THEN @ ELSE Append(@, c), !.inside = c = "\""]
  IN FoldLeft(Step, [out |-> <<>>, inside |-> FALSE, escaped |-> FALSE], v).out
MinifyTo(v, end) == IF end = 0 THEN v ELSE Dense(Cut(v, 0, end))
Minify(v) == MinifyTo(v, ValueEnd(v, 0))

\* json_escape_fragment_n, json_escape, and what json_string makes of an escape.
JsonEscape(s) ==
  FlattenSeq([i \in 1..Len(s) |-> IF s[i] \in {"\"", "\\"} THEN <<"\\", s[i]>> ELSE <<s[i]>>])
Quoted(s) == <<"\"">> \o JsonEscape(s) \o <<"\"">>
Decoded(s) ==
  LET Step(t, c) == IF ~t.escaped /\ c = "\\" THEN [t EXCEPT !.escaped = TRUE]
                    ELSE [out |-> Append(t.out, IF c = "\\u003c" THEN "<" ELSE c), escaped |-> FALSE]
  IN FoldLeft(Step, [out |-> <<>>, escaped |-> FALSE], s).out

NoArgs == [ok |-> FALSE, args |-> <<>>]

RECURSIVE ArgsFrom(_, _, _), ArgAt(_, _, _, _, _)
\* json_args_parse: whether an argument is a string is read off its value.
ArgsFrom(s, from, args) ==
  LET p == SkipSpace(s, from)
      v == SkipSpace(s, p + 2)
  IN CASE Lit(s, p, <<"}">>) -> [ok |-> TRUE, args |-> args]
       [] p + 2 < Len(s) /\ s[p + 1] \in NameAttr /\ s[p + 2] = ":" ->
            ArgAt(s, s[p + 1], v, ValueEnd(s, v), args)
       [] OTHER -> NoArgs
\* The argument whose value goes from v to end, and those behind it.
ArgAt(s, name, v, end, args) ==
  LET string == s[v + 1] = "\""
      value == IF string THEN Decoded(Cut(s, v + 1, end - 1)) ELSE Minify(Cut(s, v, end))
      q == SkipSpace(s, end)
  IN IF end = 0 THEN NoArgs
     ELSE ArgsFrom(s, IF Lit(s, q, <<",">>) THEN q + 1 ELSE q,
                   Append(args, [name |-> name, string |-> string, value |-> value]))
JsonArgs(json) ==
  IF Lit(json, 0, <<"{">>) THEN ArgsFrom(json, 1, <<>>) ELSE NoArgs

\* append_json_arg_pair, and the object of them all.
Json(arg) == <<arg.name, ":">> \o (IF arg.string THEN Quoted(arg.value) ELSE arg.value)
Object(args) ==
  LET Comma(i) == IF i = 1 THEN <<>> ELSE <<",">>
  IN <<"{">> \o FlattenSeq([i \in 1..Len(args) |-> Comma(i) \o Json(args[i])]) \o <<"}">>

-----------------------------------------------------------------------------
(* parse_generated_message *)

\* split_reasoning_content
Split(s) ==
  LET body == IF Lit(s, 0, ThinkOpen) THEN 2 ELSE 0
      ends == Occurs(s, body, {ThinkClose})
  IN IF ends = {} THEN [reasoning |-> <<>>, content |-> s]
     ELSE [reasoning |-> Cut(s, body, Min(ends)), content |-> Cut(s, Min(ends) + 2, Len(s))]

NoCalls == [ok |-> FALSE, calls |-> <<>>]

\* append_json_object_or_empty: arguments that are not JSON are sent as {}.
AsSent(calls) ==
  [i \in DOMAIN calls |-> [calls[i] EXCEPT !.arguments = Object(JsonArgs(@).args)]]

\* tool_call_json_args_add: an empty value of another type than string is null.
OrNull(value) == IF value = <<>> THEN <<"null">> ELSE value
Argument(name, string, raw) ==
  [name |-> name, string |-> string,
   value |-> IF string THEN Unescape(raw) ELSE OrNull(Minify(raw))]

RECURSIVE ParseParams(_, _, _, _)
ParseParams(raw, p, tag, args) ==
  LET q == SkipSpace(raw, p)
      tagEnds == TagEnds(raw, q)
      e == Min(tagEnds)
      name == Attrs(raw, q, e, NameAttr)
      string == Attrs(raw, q, e, StringAttr)
      ends == Occurs(raw, e + 1, {tag.endParam})
  IN IF Lit(raw, q, tag.endInvoke)
       THEN [ok |-> TRUE, pos |-> q + 2, args |-> args]
     ELSE IF /\ Lit(raw, q, tag.param)
             /\ tagEnds # {}
             /\ name # <<>>
             /\ string # <<>>
             /\ ends # {}
       THEN ParseParams(raw, Min(ends) + 2, tag,
                        Append(args, Argument(name[1], string[1] = "string=true",
                                              Cut(raw, e + 1, Min(ends)))))
     ELSE [ok |-> FALSE, pos |-> q, args |-> <<>>]

RECURSIVE ParseInvokes(_, _, _, _), AddCall(_, _, _, _, _)
ParseInvokes(raw, p, tag, calls) ==
  LET q == SkipSpace(raw, p)
      e == Min(TagEnds(raw, q))
      name == Attrs(raw, q, e, NameAttr)
  IN CASE Lit(raw, q, tag.endCalls) -> [ok |-> TRUE, calls |-> calls]
       [] Lit(raw, q, tag.invoke) /\ TagEnds(raw, q) # {} /\ name # <<>> ->
            AddCall(raw, tag, calls, name[1], ParseParams(raw, e + 1, tag, <<>>))
       [] OTHER -> NoCalls
AddCall(raw, tag, calls, name, params) ==
  IF ~params.ok THEN NoCalls
  ELSE ParseInvokes(raw, params.pos, tag,
                    Append(calls, [name |-> name, arguments |-> Object(params.args)]))

\* Which block is parsed: a DSML one before a plain one, and of a style one after
\* a blank line before one without.
BlockStart(text) ==
  LET order == <<<<"dsml", <<"\n\n">> \o Tag.dsml.calls>>, <<"dsml", Tag.dsml.calls>>,
                 <<"xml", <<"\n\n">> \o Tag.xml.calls>>, <<"xml", Tag.xml.calls>>>>
      found == {i \in 1..4 : Occurs(text, 0, {order[i][2]}) # {}}
  IN IF found = {} THEN [style |-> "none", at |-> Len(text)]
     ELSE [style |-> order[Min(found)][1],
           at |-> Min(Occurs(text, 0, {order[Min(found)][2]}))]

\* parse_generated_message, and its caller's fallback for a block it refuses.
WithBlock(text, at, block) ==
  IF block.ok THEN Split(Cut(text, 0, TrimSpace(text, 0, at))) @@ block
  ELSE [content |-> text, reasoning |-> <<>>] @@ NoCalls
MessageFrom(text, start) ==
  LET tag == Tag[start.style]
      p == Min(Occurs(text, start.at, {tag.calls})) + 2
  IN IF start.style = "none" THEN Split(text) @@ [ok |-> TRUE, calls |-> <<>>]
     ELSE WithBlock(text, start.at, ParseInvokes(text, p, tag, <<>>))
Message(text) == MessageFrom(text, BlockStart(text))

-----------------------------------------------------------------------------
(* What the next prompt will show of a turn with calls whose sampled text was
   not kept: append_dsml_tool_calls_text, build_tool_checkpoint_suffix. *)

\* append_dsml_parameter_text: only a closing tag inside the value is escaped.
Escape(value) ==
  LET end == Tag.dsml.endParam
      Symbol(i) == IF Lit(value, i - 1, end) THEN <<"&", "lt;">> ELSE <<value[i]>>
  IN FlattenSeq([i \in 1..Len(value) |-> Symbol(i)])

\* append_dsml_json_literal: the same, in the way of JSON.
Literal(value) ==
  LET end == Tag.dsml.endParam
      Symbol(i) == IF Lit(value, i - 1, end) THEN "\\u003c" ELSE value[i]
  IN [i \in 1..Len(value) |-> Symbol(i)]

RenderArg(arg) ==
  Tag.dsml.param \o <<arg.name, IF arg.string THEN "string=true" ELSE "string=false", ">">>
    \o (IF arg.string THEN Escape(arg.value) ELSE Literal(arg.value)) \o Tag.dsml.endParam \o <<"_">>

\* The arguments of a call as parameters: those the JSON has, or all of it as
\* one string when it cannot be read.
Unread(json) == [name |-> "name=arguments", string |-> TRUE, value |-> json]
ParamsRead(json, read) == IF read.ok THEN read.args ELSE <<Unread(json)>>
ParamsOf(json) == ParamsRead(json, JsonArgs(json))

Render(call, params) ==
  Tag.dsml.invoke \o <<call.name, ">", "_">>
    \o FlattenSeq([i \in 1..Len(params) |-> RenderArg(params[i])])
    \o Tag.dsml.endInvoke \o <<"_">>

\* Mutant: arguments that cannot be read are left out.
RenderCallDrops(call) == Render(call, JsonArgs(call.arguments).args)

RenderCall(call) == Render(call, ParamsOf(call.arguments))

RenderCalls(calls) ==
  IF calls = <<>> THEN <<>>
  ELSE <<"\n\n">> \o Tag.dsml.calls \o <<"_">>
         \o FlattenSeq([i \in 1..Len(calls) |-> RenderCall(calls[i])]) \o Tag.dsml.endCalls

Suffix(m, think) ==
  (IF think THEN m.reasoning \o ThinkClose ELSE <<>>) \o m.content \o RenderCalls(m.calls)
=============================================================================
