---------------------------- MODULE MCStreamText ----------------------------
(* Outputs of the model and requests for TLC to run StreamText on.  An output  *)
(* is reasoning, visible text and a block of calls, each from a small list;    *)
(* the lists hold the cuts that matter (a marker, a stop string, a character,  *)
(* an entity and white space at every offset) and blocks written wrongly.     *)
EXTENDS StreamText

Param(tag, isString, value) ==
  tag.param \o <<"name=g", isString, ">">> \o value \o tag.endParam
Invoke(tag, params) == tag.invoke \o <<"name=f", ">", "_">> \o params \o tag.endInvoke
Calls(tag, invokes) == tag.calls \o invokes \o tag.endCalls

Thoughts == {<<>>, <<"<", "think>", "a">> \o ThinkClose, <<"U", "u", "u", "<">> \o ThinkClose,
             <<"a", "_", "b", "c", "a">> \o ThinkClose, <<"a", "b">>}
Contents == {<<>>, <<"a", "_", "<", "b">>, <<"b", "U", "u", "u">>, <<"a", "b", "_", "b", "c">>}

StringCall == Invoke(Tag.dsml, Param(Tag.dsml, "string=true", <<"a", "<", "&", "lt;", "|/param>", "U", "u", "u">>))
RawCall == Invoke(Tag.dsml, Param(Tag.dsml, "string=false", <<"a">>)
                              \o Param(Tag.dsml, "string=true", <<"&", "b", "c">>))

Blocks1 == {<<>>, <<"\n\n">> \o Calls(Tag.dsml, StringCall \o <<"_">> \o Invoke(Tag.dsml, <<>>)) \o <<"a">>,
            <<"_">> \o Calls(Tag.dsml, RawCall),
            Calls(Tag.xml, Invoke(Tag.xml, Param(Tag.xml, "string=false", <<"a", "a">>)))}
\* No name, no attribute, an unknown tag, and markup of two styles.
Blocks2 == {Calls(Tag.dsml, Tag.dsml.invoke \o <<">">>),
            Calls(Tag.dsml, Invoke(Tag.dsml, Tag.dsml.param \o <<"name=g", ">">>)),
            Tag.dsml.calls \o <<"a">> \o Tag.dsml.endCalls,
            Tag.xml.calls \o Calls(Tag.dsml, Invoke(Tag.dsml, <<>>))}

\* Arguments in JSON: white space and escapes in an array, a string that the
\* attribute denies, quotes in one it admits, what is no value, a value and more,
\* and the closing tag of the other style.
Array == <<"[", "_", "a", ",", "\"", "_", "\\", "\"", "\"", "]">>
Raw(v) == Calls(Tag.dsml, Invoke(Tag.dsml, Param(Tag.dsml, "string=false", v)))
Blocks3 == {Raw(Array), Raw(<<"\"", "b", "\"">>), Raw(<<"U", "u", "u">>), Raw(<<"a", "_", "b">>),
            Calls(Tag.dsml, Invoke(Tag.dsml, Param(Tag.dsml, "string=true", <<"\"", "\\">>))),
            Calls(Tag.xml, Invoke(Tag.xml, Param(Tag.xml, "string=false",
                                                 <<"[", "\"", "<", "|/param>", "\"", "]">>)))}

MCTexts == {r \o c \o b : r \in Thoughts, c \in Contents, b \in Blocks1}
             \cup {r \o b : r \in Thoughts, b \in Blocks2}
             \cup {r \o b : r \in {<<>>, <<"a">> \o ThinkClose}, b \in Blocks3}

Chat == [api : {"openai", "anthropic"}, stream : {TRUE}, think : BOOLEAN, tools : BOOLEAN,
         stops : {{}, {<<"b", "c">>, <<"a", "_", "b">>}}]
Other == [api : {"completion"}, stream : {TRUE}, think : {FALSE}, tools : {FALSE},
          stops : {{}, {<<"b", "c">>, <<"U", "u", "u">>}}]
           \cup [api : {"openai"}, stream : {FALSE}, think : {TRUE}, tools : {TRUE}, stops : {{<<"b", "c">>}}]
MCRequests == Chat \cup Other

EmptyArgument == {Calls(Tag.dsml, Invoke(Tag.dsml, Param(Tag.dsml, "string=false", v))) : v \in {<<>>, <<"a">>}}
=============================================================================
