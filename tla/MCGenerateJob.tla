--------------------------- MODULE MCGenerateJob ---------------------------
(* GenerateJob over two tokens and conversations of at most five of them.  *)
EXTENDS GenerateJob
CONSTANTS a, b

One     == [ctx |-> 5, cap |-> 2, raw |-> 2, quant |-> 2]
Smaller == [ctx |-> 4, cap |-> 2, raw |-> 2, quant |-> 2]
Larger  == [ctx |-> 6, cap |-> 3, raw |-> 3, quant |-> 2]

Narrow  == [ctx |-> 5, cap |-> 3, raw |-> 2, quant |-> 2]

MCNarrow    == {Narrow}
MCOne       == {One}
MCSameChunk == {One, Smaller}
MCTwoChunks == {One, Larger}

MCPrompts   == {<<a, b, a>>, <<a, b, a, a>>, <<b>>}
MCCanonical == {<<b, a, b>>, <<b, b>>}

(* Cold in two chunks, resumed from one token, from two, and not at all.   *)
MCFewPrompts   == {<<b, b, a, a>>, <<b, b, a>>, <<b>>}
MCFewCanonical == {<<b, b>>}
=============================================================================
