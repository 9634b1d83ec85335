------------------------------ MODULE StreamText ------------------------------
(***************************************************************************)
(* How ds4_server.c turns generated text into what a client receives       *)
(* while the text is still being generated: the part of generate_job after *)
(* a token is evaluated, the live streams of the two chat APIs, the plain  *)
(* stream of completions and the reply that ends a turn.                   *)
(*                                                                         *)
(* The model's output is chosen at the start and arrives in tokens of up to*)
(* MaxPiece symbols.  What was sent is kept in  live  so that it can be    *)
(* compared with what the parser makes of the whole text.                  *)
(***************************************************************************)
EXTENDS GeneratedText, TLC

CONSTANTS Texts,       \* outputs of the model
          Requests,    \* requests: [api, stream, think, tools, stops]
          MaxPiece,    \* symbols of a token, at most; fewer than a marker and a symbol
          MarkerHold   \* the 80 bytes searched again for a split marker

ASSUME StreamAssumption ==
  /\ MaxPiece \in Nat \ {0}
  /\ MarkerHold \in Nat \ {0, 1}
  /\ \A r \in Requests : /\ r.api \in {"openai", "anthropic", "completion"}
                         /\ \A s \in r.stops : s # <<>>

VARIABLES req, said, text, scans, saw, live, finish, phase

vars == <<req, said, text, scans, saw, live, finish, phase>>

Live(r) == r.stream /\ r.api # "completion"

-----------------------------------------------------------------------------
(* Stop strings, split characters and split markers *)

StopFound(t, from) == Occurs(t, from, req.stops)
Hold == Max({Len(s) : s \in req.stops} \cup {1}) - 1
\* Mutant: one symbol too few is held back.
StopSafeLenShort(n) == IF n >= Hold THEN Min({n, n + 1 - Hold}) ELSE 0

StopSafeLen(n) == IF n > Hold THEN n - Hold ELSE 0

\* utf8_expected_len
Expected(c) == IF c = "U" THEN 3 ELSE 1

\* utf8_stream_safe_len: how much of raw up to limit ends with a whole character.
Utf8Safe(raw, start, limit, final) ==
  LET lead == Min({i \in start..limit : \A k \in i + 1..limit : raw[k] = "u"})
  IN CASE final \/ limit <= start -> limit
       [] limit > start /\ lead = start /\ raw[start + 1] = "u" -> start
       [] OTHER -> IF limit - (lead - 1) < Expected(raw[lead]) THEN lead - 1 ELSE limit

\* text_stream_safe_limit: what may be sent as visible text.
TextSafe(raw, start, n, final) ==
  LET tools == Occurs(raw, start, CallsMarkers)
      lt == {i \in Max({start, n - MarkerHold})..n - 1 : raw[i + 1] = "<"}
      held == IF lt = {} THEN n ELSE Max(lt)
  IN CASE n <= start -> n
       [] n > start /\ req.tools /\ tools # {} -> TrimSpace(raw, start, Min(tools))
       [] n > start /\ req.tools /\ tools = {} /\ ~final ->
            Utf8Safe(raw, start, TrimSpace(raw, start, held), FALSE)
       [] OTHER -> Utf8Safe(raw, start, n, final)

\* Mutant: an entity that is split is sent as it is.
ValueSafeRaw(raw, start, tag, isString) ==
  Utf8Safe(raw, start, IF Len(raw) > start /\ Last(raw) = "<" THEN Len(raw) - 1 ELSE Len(raw), FALSE)

\* The last "<" of a value may begin its closing tag, the last "&" an entity.
ValueSafe(raw, start, tag, isString) ==
  LET n == Len(raw)
      lt == IF n > start /\ Last(raw) = "<" THEN n - 1 ELSE n
      amp == IF isString /\ lt > start /\ raw[lt] = "&" THEN lt - 1 ELSE lt
  IN Utf8Safe(raw, start, amp, FALSE)

-----------------------------------------------------------------------------
(* The calls of an OpenAI stream, argument by argument *)

NoTool == [state |-> "off", pos |-> 0, style |-> "dsml", first |-> TRUE, isString |-> FALSE]
Active(ts) == ts.state \in {"invokes", "params", "value"}

\* openai_tool_stream_init, at a marker that may lie beyond what is released.
ToolInit(raw, n, pos) ==
  LET styles == {s \in Styles : Lit(Cut(raw, 0, n), pos, Tag[s].calls)}
  IN IF styles = {} THEN [NoTool EXCEPT !.state = "error"]
     ELSE [NoTool EXCEPT !.state = "invokes", !.pos = pos + 2, !.style = CHOOSE s \in styles : TRUE]

ArgsSent(calls, args) ==
  IF calls = <<>> THEN calls ELSE [calls EXCEPT ![Len(calls)].arguments = @ \o args]

Went(ts, calls, more) == [ts |-> ts, calls |-> calls, more |-> more]
ToolFails(ts, calls) == Went([ts EXCEPT !.state = "error"], calls, FALSE)

\* Between two invokes; openai_tool_start_invoke sends the header of a call.
BetweenInvokes(ts, calls, raw) ==
  LET tag == Tag[ts.style]
      q == SkipSpace(raw, ts.pos)
      here == [ts EXCEPT !.pos = q]
      e == TagEnds(raw, q)
      name == Attrs(raw, q, Min(e), NameAttr)
  IN CASE q = Len(raw) \/ Partial(raw, q, tag.invoke) \/ Partial(raw, q, tag.endCalls)
            -> Went(here, calls, FALSE)
       [] Lit(raw, q, tag.endCalls) -> Went([here EXCEPT !.pos = q + 2, !.state = "done"], calls, FALSE)
       [] Lit(raw, q, tag.invoke) /\ e = {} -> Went(here, calls, FALSE)
       [] Lit(raw, q, tag.invoke) /\ e # {} /\ name # <<>> ->
            Went([here EXCEPT !.pos = Min(e) + 1, !.state = "params", !.first = TRUE],
                 Append(calls, [name |-> name[1], arguments |-> <<"{">>]), TRUE)
       [] OTHER -> ToolFails(here, calls)

\* Between two parameters; openai_tool_start_param sends the key of an argument.
BetweenParams(ts, calls, raw) ==
  LET tag == Tag[ts.style]
      q == SkipSpace(raw, ts.pos)
      here == [ts EXCEPT !.pos = q]
      e == TagEnds(raw, q)
      name == Attrs(raw, q, Min(e), NameAttr)
      string == Attrs(raw, q, Min(e), StringAttr)
      isString == string[1] = "string=true"
      key == (IF ts.first THEN <<>> ELSE <<",">>) \o <<name[1], ":">>
               \o (IF isString THEN <<"\"">> ELSE <<>>)
  IN CASE q = Len(raw) \/ Partial(raw, q, tag.param) \/ Partial(raw, q, tag.endInvoke)
            -> Went(here, calls, FALSE)
       [] Lit(raw, q, tag.endInvoke) ->
            Went([here EXCEPT !.pos = q + 2, !.state = "invokes"], ArgsSent(calls, <<"}">>), TRUE)
       [] Lit(raw, q, tag.param) /\ e = {} -> Went(here, calls, FALSE)
       [] Lit(raw, q, tag.param) /\ e # {} /\ name # <<>> /\ string # <<>> ->
            Went([here EXCEPT !.pos = Min(e) + 1, !.state = "value",
                              !.first = FALSE, !.isString = isString],
                 ArgsSent(calls, key), TRUE)
       [] OTHER -> ToolFails(here, calls)

\* Inside a value: send what cannot be part of its end, all of it at its end.
ParamValue(ts, calls, raw) ==
  LET ends == Occurs(raw, ts.pos, {Tag[ts.style].endParam})
      Sent(to) == IF ts.isString THEN JsonEscape(Unescape(Cut(raw, ts.pos, to))) ELSE Cut(raw, ts.pos, to)
      close == IF ts.isString THEN <<"\"">> ELSE <<>>
      safe == ValueSafe(raw, ts.pos, Tag[ts.style], ts.isString)
  IN IF ends # {}
     THEN Went([ts EXCEPT !.pos = Min(ends) + 2, !.state = "params"],
               ArgsSent(calls, Sent(Min(ends)) \o close), TRUE)
     ELSE Went([ts EXCEPT !.pos = Max({@, safe})], ArgsSent(calls, Sent(safe)), FALSE)

\* openai_tool_stream_update
RECURSIVE ToolUpdate(_, _, _)
ToolUpdate(ts, calls, raw) ==
  LET went == CASE ts.state = "invokes" -> BetweenInvokes(ts, calls, raw)
                [] ts.state = "params" -> BetweenParams(ts, calls, raw)
                [] ts.state = "value" -> ParamValue(ts, calls, raw)
  IN IF ~Active(ts) \/ ts.pos >= Len(raw) THEN [ts |-> ts, calls |-> calls]
     ELSE IF went.more THEN ToolUpdate(went.ts, went.calls, raw)
     ELSE [ts |-> went.ts, calls |-> went.calls]

-----------------------------------------------------------------------------
(* The live streams.  mode, emit, checked and tool are the stream's own state;
   reasoning, content and calls are what was sent, events the block events of
   the Anthropic stream. *)

NoLive == [mode |-> "off", emit |-> 0, checked |-> FALSE, tool |-> NoTool, block |-> "none",
           index |-> 0, reasoning |-> <<>>, content |-> <<>>, calls |-> <<>>, events |-> <<>>]

LiveStart(r) ==
  [NoLive EXCEPT !.mode = IF ~Live(r) THEN "off" ELSE IF r.think THEN "thinking" ELSE "text"]

Event(s, kind) == [s EXCEPT !.events = Append(@, <<kind, s.index>>)]

\* anthropic_sse_open_block, anthropic_sse_close_block_live
OpenBlock(s, type) ==
  IF req.api # "anthropic" \/ s.block = type THEN s
  ELSE Event([s EXCEPT !.block = type], type)

\* Mutant: the next block takes the index of the one that stopped.
CloseBlockSame(s) ==
  LET signed == IF s.block = "thinking" THEN Event(s, "signature") ELSE s
  IN IF s.block = "none" THEN s ELSE [Event(signed, "stop") EXCEPT !.block = "none"]

CloseBlock(s) ==
  LET signed == IF s.block = "thinking" THEN Event(s, "signature") ELSE s
  IN IF s.block = "none" THEN s
     ELSE [Event(signed, "stop") EXCEPT !.block = "none", !.index = @ + 1]

SendReasoning(s, raw, limit) ==
  IF limit <= s.emit THEN s
  ELSE [OpenBlock(s, "thinking") EXCEPT !.reasoning = @ \o Cut(raw, s.emit, limit), !.emit = limit]

SendContent(s, raw, limit) ==
  IF limit <= s.emit THEN s
  ELSE [OpenBlock(s, "text") EXCEPT !.content = @ \o Cut(raw, s.emit, limit), !.emit = limit]

\* A text that may still begin with the opening marker is held back.
PrefixHeld(s, raw, n, final) == ~s.checked /\ ~final /\ Partial(Cut(raw, 0, n), 0, ThinkOpen)

PrefixChecked(s, raw, n) ==
  IF ~s.checked /\ Lit(Cut(raw, 0, n), 0, ThinkOpen) THEN [s EXCEPT !.checked = TRUE, !.emit = 2]
  ELSE [s EXCEPT !.checked = TRUE]

\* How far reasoning may be sent: the closing marker may have begun.
ThinkSafe(s, raw, n, close, final) ==
  CASE close # {} -> Min(close)
    [] close = {} /\ final -> n
    [] OTHER -> IF n > 1 THEN Utf8Safe(raw, s.emit, n - 1, FALSE) ELSE s.emit

ThinkingUpdate(s0, raw, n, final) ==
  LET s == PrefixChecked(s0, raw, n)
      close == Occurs(raw, s.emit, {ThinkClose})
      sent == SendReasoning(s, raw, ThinkSafe(s, raw, n, close, final))
  IN CASE s0.mode # "thinking" \/ PrefixHeld(s0, raw, n, final) -> s0
       [] OTHER -> CASE close # {} -> [CloseBlock(sent) EXCEPT !.emit = Min(close) + 2, !.mode = "text"]
                     [] close = {} /\ final -> [CloseBlock(sent) EXCEPT !.mode = "suppress"]
                     [] OTHER -> sent

\* Visible text, up to a tool marker; OpenAI clients then get the calls live.
TextUpdate(s, raw, n, final) ==
  LET tools == IF req.tools THEN Occurs(raw, s.emit, CallsMarkers) ELSE {}
      sent == SendContent(s, raw, TextSafe(raw, s.emit, n, final))
      tool == ToolInit(raw, n, Min(tools))
  IN CASE s.mode # "text" -> s
       [] s.mode = "text" /\ tools # {} ->
            IF req.api = "anthropic" \/ ~Active(tool)
            THEN [CloseBlock(sent) EXCEPT !.emit = Min(tools), !.mode = "suppress"]
            ELSE [sent EXCEPT !.emit = Min(tools), !.mode = "tool", !.tool = tool]
       [] s.mode = "text" /\ tools = {} /\ final -> [CloseBlock(sent) EXCEPT !.mode = "suppress"]
       [] OTHER -> sent

CallsUpdate(s, raw, n) ==
  LET went == ToolUpdate(s.tool, s.calls, Cut(raw, 0, n))
  IN IF s.mode # "tool" THEN s
     ELSE [s EXCEPT !.tool = went.ts, !.calls = went.calls,
                    !.mode = IF Active(went.ts) THEN "tool" ELSE "suppress"]

\* openai_sse_stream_update, anthropic_sse_stream_update
StreamUpdate(s, raw, n, final) ==
  CallsUpdate(TextUpdate(ThinkingUpdate(s, raw, n, final), raw, n, final), raw, n)

-----------------------------------------------------------------------------
(* generate_job *)

Init ==
  /\ req \in Requests
  /\ said \in Texts
  /\ text = <<>>
  /\ scans = [stop |-> 0, tool |-> 0]
  /\ saw = [start |-> FALSE, end |-> FALSE]
  /\ live = LiveStart(req)
  /\ finish = "length"
  /\ phase = "decode"

\* observe_tool_markers, over the text from tool_scan_from
Observed(t) ==
  LET starts == Occurs(t, scans.tool, CallsMarkers)
      from == IF saw.start THEN scans.tool ELSE IF starts # {} THEN Min(starts) ELSE Len(t)
  IN IF req.api = "completion" \/ ~req.tools THEN saw
     ELSE [start |-> saw.start \/ starts # {},
           end |-> saw.end \/ Occurs(t, from, EndCallsMarkers) # {}]

\* The plain stream of a completion.
PlainUpdate(t, n) == SendContent(live, t, n)

Released(t, hits) ==
  Utf8Safe(t, IF Live(req) THEN 0 ELSE live.emit,
           IF hits # {} THEN Min(hits) ELSE StopSafeLen(Len(t)), hits # {})

\* One token: append, look for a stop string, release what is safe, look for
\* tool markers, and end the turn at either.
Token(k) ==
  LET t == Cut(said, 0, Len(text) + k)
      hits == StopFound(t, scans.stop)
      n == Released(t, hits)
      seen == Observed(t)
      ended == hits # {} \/ (seen.end /\ req.tools /\ req.api # "completion")
  IN /\ phase = "decode"
     /\ Len(text) + k <= Len(said)
     /\ live' = IF ~req.stream THEN live
                ELSE IF Live(req) THEN StreamUpdate(live, t, n, FALSE)
                ELSE PlainUpdate(t, n)
     /\ scans' = [stop |-> IF hits # {} \/ Hold = 0 THEN scans.stop
                           ELSE IF Len(t) > Hold THEN Len(t) - Hold ELSE 0,
                  tool |-> IF Len(t) > MarkerHold THEN Len(t) - MarkerHold ELSE 0]
     /\ saw' = seen
     /\ text' = IF hits # {} THEN Cut(t, 0, Min(hits)) ELSE t
     /\ finish' = IF hits # {} THEN "stop" ELSE IF ended THEN "tool_calls" ELSE finish
     /\ phase' = IF ended THEN "reply" ELSE "decode"
     /\ UNCHANGED <<req, said>>

\* The end token, the token limit, a failed evaluation or a shutdown.
DecodeEnds ==
  /\ phase = "decode"
  /\ finish' \in {"stop", "length", "error"}
  /\ phase' = "reply"
  /\ UNCHANGED <<req, said, text, scans, saw, live>>

\* A write to the client fails; no later write succeeds either.
WriteFails ==
  /\ phase = "decode"
  /\ req.stream
  /\ finish' = "error"
  /\ phase' = "gone"
  /\ UNCHANGED <<req, said, text, scans, saw, live>>

\* "error" for an open or an unreadable tool call, "tool_calls" when there are any.
FinalFinish(m) ==
  LET open == req.tools /\ saw.start /\ ~saw.end
  IN CASE req.api = "completion" -> finish
       [] req.api # "completion" /\ m.calls # <<>> -> "tool_calls"
       [] OTHER -> IF open \/ (req.tools /\ saw.start /\ ~m.ok) THEN "error" ELSE finish

\* anthropic_sse_finish_live: an empty text block closes a message of thinking
\* alone, then one block per call.
AnthropicFinish(s, m) ==
  LET ended == IF s.reasoning # <<>> /\ s.content = <<>> /\ m.calls = <<>>
               THEN CloseBlock(OpenBlock(s, "text")) ELSE s
      Block(t, c) == [Event(Event(t, "tool_use"), "stop")
                        EXCEPT !.index = @ + 1, !.calls = Append(@, c)]
  IN Event(FoldLeft(Block, ended, AsSent(m.calls)), "message_stop")

\* openai_sse_finish_live: the calls at once, unless any was streamed.
OpenaiFinish(s, m) == IF s.calls = <<>> THEN [s EXCEPT !.calls = AsSent(m.calls)] ELSE s

\* The end of generate_job: flush what was held back, or answer at once.
Answered(m) ==
  LET Flushed == StreamUpdate(live, text, Len(text), TRUE)
  IN CASE ~req.stream -> [live EXCEPT !.content = m.content, !.reasoning = m.reasoning,
                                      !.calls = AsSent(m.calls)]
       [] req.stream /\ req.api = "completion" -> SendContent(live, text, Len(text))
       [] req.stream /\ req.api = "openai" -> OpenaiFinish(Flushed, m)
       [] OTHER -> AnthropicFinish(Flushed, m)

Reply ==
  /\ phase = "reply"
  /\ \E m \in {IF req.api = "completion" THEN [content |-> text, reasoning |-> <<>>] @@ NoCalls
                ELSE Message(text)} :
       /\ finish' = FinalFinish(m)
       /\ live' = Answered(m)
  /\ phase' = "done"
  /\ UNCHANGED <<req, said, text, scans, saw>>

Ended == phase \in {"done", "gone"} /\ UNCHANGED vars

Next == (\E k \in 1..MaxPiece : Token(k)) \/ DecodeEnds \/ WriteFails \/ Reply \/ Ended

Spec == Init /\ [][Next]_vars

-----------------------------------------------------------------------------
(* Properties *)

Fields == [mode : {"off", "thinking", "text", "tool", "suppress"}, block : {"none", "thinking", "text"}]

\* The state of a turn keeps its shape, no offset passes the text it points
\* into, and a stream in tool mode has an active tool parser (openai_stream,
\* anthropic_stream, ds4_server.c:3085-3120, 3738-3753).
TypeOK ==
  /\ req \in Requests /\ said \in Texts
  /\ phase \in {"decode", "reply", "done", "gone"}
  /\ finish \in {"length", "stop", "tool_calls", "error"}
  /\ saw.start \in BOOLEAN /\ saw.end \in BOOLEAN /\ (saw.end => saw.start)
  /\ IsPrefix(text, said)
  /\ [mode |-> live.mode, block |-> live.block] \in Fields
  /\ live.emit <= Len(text) /\ live.tool.pos <= Len(text)
  /\ live.mode = "tool" <=> Active(live.tool)

\* The turns a client can be promised anything about: reasoning is closed, and
\* closed before any tool markup, when it was asked for and absent when it was
\* not; at most one block of calls, to a request with tools.
Ordinary(t) ==
  LET calls == Occurs(t, 0, CallsMarkers)
      close == Occurs(t, 0, {ThinkClose})
  IN /\ IF req.think THEN close # {} /\ \A c \in calls : Min(close) < c ELSE close = {}
     /\ Cardinality(calls) <= (IF req.tools THEN 1 ELSE 0)

\* Every value that is not a string is one JSON value, as the prompt asks.
OneValue(v) == LET e == ValueEnd(v, 0) IN e # 0 /\ SkipSpace(v, e) = Len(v)
JsonValues(t) ==
  \A i \in {i \in 3..Len(t) : t[i] = "string=false"} :
    LET style == IF t[i - 2] = Last(Tag.dsml.param) THEN "dsml" ELSE "xml"
        ends == Occurs(t, i + 1, {Tag[style].endParam})
    IN ends = {} \/ OneValue(Cut(t, i + 1, Min(ends)))

\* Two calls that say the same: white space and escapes apart.
Plain(s) == [i \in 1..Len(s) |-> IF s[i] = "\\u003c" THEN "<" ELSE s[i]]
ReadAs(json, read) == IF read.ok THEN Plain(Object(read.args)) ELSE json
Reads(json) == ReadAs(json, JsonArgs(json))
SameCall(c, d) == c.name = d.name /\ Reads(c.arguments) = Reads(d.arguments)
SameCalls(cs, ds) == Len(cs) = Len(ds) /\ \A i \in 1..Len(cs) : SameCall(cs[i], ds[i])

Delivered(m) ==
  /\ live.reasoning = m.reasoning
  /\ live.content = m.content
  /\ SameCalls(live.calls, AsSent(m.calls))

\* When a turn ends well, what the client collected from the deltas, text held
\* back at each token included, is the message that parse_generated_message
\* reads in the whole text, and the text itself for a completion: nothing was
\* lost, repeated, or sent as the wrong kind, however the text was cut into
\* tokens (ds4_server.c:6294-6346, 6452).
StreamIsMessage ==
  phase = "done" /\ finish # "error" =>
    IF req.api = "completion" THEN live.content = text
    ELSE Ordinary(text) /\ JsonValues(text) => Delivered(Message(text))

\* A string that spells an entity: only "<" is escaped.
SpellsEntity(calls) ==
  \E c \in DOMAIN calls : \E arg \in ToSet(ParamsOf(calls[c].arguments)) :
    arg.string /\ Unescape(arg.value) # arg.value

Carries(read, sent) ==
  /\ read.name = sent.name
  /\ Reads(read.arguments) = IF JsonArgs(sent.arguments).ok THEN Reads(sent.arguments)
                             ELSE Object(<<Unread(sent.arguments)>>)

ReadsBack(m, back) ==
  /\ back.ok /\ back.reasoning = m.reasoning /\ back.content = m.content
  /\ Len(back.calls) = Len(live.calls)
  /\ \A i \in DOMAIN live.calls : Carries(back.calls[i], live.calls[i])
  /\ JsonValues(text) => SameCalls(back.calls, m.calls)

Survives(m) ==
  m.calls # <<>> /\ ~SpellsEntity(live.calls) =>
    ReadsBack(m, Message(Suffix([m EXCEPT !.calls = live.calls], req.think)))

\* A client sends the calls it was given back, and the server renders them into
\* the next prompt from their JSON when the sampled block is not at hand.  What
\* it renders reads as the same message: every call has the arguments the client
\* sent, those that are not JSON as one string, and they are what the model wrote
\* when that was JSON (build_tool_checkpoint_suffix, ds4_server.c:5972,
\* append_dsml_tool_calls_text, 1844).  The exception is a string that spells an
\* entity (SpellsEntity).
CheckpointIsMessage ==
  phase = "done" /\ req.api # "completion" /\ Ordinary(text) => Survives(Message(text))

\* No byte of a stop string, or after it, is ever sent: the tail that could be
\* the beginning of one is held back until the next tokens decide
\* (stop_list_stream_safe_len, ds4_server.c:874).
StopNotSent ==
  /\ phase = "decode" =>
       \A p \in Occurs(said, 0, req.stops) : live.emit <= p /\ (Active(live.tool) => live.tool.pos <= p)
  /\ Occurs(text, 0, req.stops) = {} /\ live.emit <= Len(text)

\* While the model is generating, a delta never ends inside a character, in
\* reasoning, text or an argument (utf8_stream_safe_len, ds4_server.c:891).
CharactersWhole ==
  LET Whole(p) == p < Len(said) => said[p + 1] # "u"
  IN phase = "decode" /\ req.stream => Whole(live.emit) /\ Whole(live.tool.pos)

\* Tool markup never reaches a client with tools as visible text, nor the marker
\* that closes the reasoning it asked for as reasoning, even when the model
\* spells a block wrongly (ds4_server.c:2929-2931).
MarkupHidden ==
  /\ req.tools /\ Live(req) => Occurs(live.content, 0, CallsMarkers) = {}
  /\ Live(req) => Occurs(live.reasoning, 0, {ThinkClose}) = {}

\* What must be held back is, however tokens cut the text: stop strings,
\* unfinished characters, markup.
HeldBack == TypeOK /\ StopNotSent /\ CharactersWhole /\ MarkupHidden

\* The blocks of an Anthropic message come one at a time with consecutive
\* indexes, thinking is signed before it stops, none is left open when the
\* message stops, and a message is never thinking alone
\* (anthropic_sse_open_block to anthropic_sse_finish_live).
After == [thinking |-> {"signature"}, signature |-> {"stop"}, text |-> {"stop"},
          tool_use |-> {"stop"}, stop |-> {"thinking", "text", "tool_use", "message_stop"}]

BlocksBalanced ==
  LET Kind(i) == live.events[i][1]
      Index(i) == live.events[i][2]
      last == Len(live.events)
  IN /\ last > 0 => Index(1) = 0
     /\ \A i \in 1..last - 1 : /\ Kind(i + 1) \in After[Kind(i)]
                               /\ Index(i + 1) = Index(i) + (IF Kind(i) = "stop" THEN 1 ELSE 0)
     /\ phase = "done" /\ req.api = "anthropic" /\ req.stream =>
          /\ Kind(last) = "message_stop"
          /\ live.reasoning # <<>> => \E i \in 1..last : Kind(i) \in {"text", "tool_use"}

\* A streamed argument object is JSON once its brace is closed: every key has a
\* value (ds4_server.c:3158, "a stream of JSON text fragments").
ArgumentsAreJson ==
  \A c \in DOMAIN live.calls : LET a == live.calls[c].arguments
                               IN \A i \in 1..Len(a) - 1 : a[i] = ":" => a[i + 1] \notin {"}", ","}
=============================================================================
