----------------------------- MODULE GoSession ------------------------------
(***************************************************************************)
(* A session of the Go port: the token history, the position and the KV    *)
(* cache of every layer (src/pkg/ds4/session.go, kvcache.go,               *)
(* compressor.go).  A raw row stands for the position and the token        *)
(* history it was computed from; a compressed row for the compressor rows  *)
(* it was pooled from.  One goroutine uses a session at a time.            *)
(***************************************************************************)
EXTENDS KVRing, FiniteSets

CONSTANTS
    Ratio,      \* the compression ratio of each layer, a function on 0..n: 0, 4 or another
    CapRaw,     \* rows of the sliding window
    Ctxs,       \* context sizes a session is opened with
    Prompts,    \* prompts: sequences of tokens the tokenizer makes
    Sampled,    \* tokens the decoder may sample
    Versions,   \* payload versions that may be found on disk
    Metal,      \* whether the prompt may be prefilled by the Metal graph
    Cuts,       \* fields of a layer after which a transfer may fail
    MaxLen,     \* bound on the token history
    MaxPrefill, \* bound: a prefill starts from at most so many tokens
    MaxTainted, \* the same once the session is tainted
    NoRow, NoFile

VARIABLES
    ctx, pos, tokens,
    cache,      \* KV rows of every layer
    scratch,    \* the context size the decode buffers were made for
    todo,       \* tokens of the running Prefill
    file,       \* the payload last saved
    taint       \* why the cache may not be that of the tokens (history)

vars == <<ctx, pos, tokens, cache, scratch, todo, file, taint>>

Layer == DOMAIN Ratio
Compressed == {l \in Layer : Ratio[l] > 0}
Dual == {l \in Layer : Ratio[l] = 4}

Token == Sampled \cup UNION {{p[i] : i \in DOMAIN p} : p \in Prompts}

ASSUME SessionAssumption ==
    /\ Layer = 0..(Cardinality(Layer) - 1)
    /\ Ratio \in [Layer -> Nat \ {1}]
    /\ CapRaw \in Nat \ {0}
    /\ Ctxs \subseteq Nat /\ MaxLen \in Nat /\ MaxPrefill \in Nat /\ MaxTainted \in 0..MaxLen
    /\ <<>> \notin Prompts /\ Prompts \subseteq Seq(Token)
    /\ Versions \subseteq 1..5 /\ 5 \in Versions
    /\ Cuts \subseteq 0..11

Least(a, b) == IF a < b THEN a ELSE b
Upto(s, n) == SubSeq(s, 1, n)

-----------------------------------------------------------------------------
(* Ratio 4 pools two windows, the previous one and the current one.        *)
StateRows(l) == IF l \in Dual THEN 8 ELSE Ratio[l]

CompCap(l, c) == (c \div Ratio[l]) + 2

NewCache(c) ==
    [raw        |-> [l \in Layer |-> Fresh(CapRaw, NoRow)],
     comp       |-> [l \in Compressed |-> Fresh(CompCap(l, c), NoRow)],
     state      |-> [l \in Compressed |-> [r \in 0..(StateRows(l) - 1) |-> NoRow]],
     index      |-> [l \in Dual |-> Fresh(CompCap(l, c), NoRow)],
     indexState |-> [l \in Dual |-> [r \in 0..(StateRows(l) - 1) |-> NoRow]]]

(* compressorDecodeOne: the token's row goes to its place in the current   *)
(* window.                                                                 *)
Stored(l, state, p, row) ==
    [state EXCEPT ![IF l \in Dual THEN 4 + (p % 4) ELSE p % Ratio[l]] = row]

Closes(l, p) == (p + 1) % Ratio[l] = 0

(* Mutant: the finished window is not kept as the previous one.            *)
ShiftedNever(l, state, p, row) == Stored(l, state, p, row)

(* At the end of a window of ratio 4 the current rows become the previous  *)
(* ones.                                                                   *)
Shifted(l, state, p, row) ==
    LET filled == Stored(l, state, p, row) IN
    IF l \in Dual /\ Closes(l, p)
    THEN [r \in 0..7 |-> filled[4 + (r % 4)]]
    ELSE filled

Pooled(l, state, p, row) == <<p + 1 - Ratio[l], Stored(l, state, p, row)>>

(* One token through every layer.                                          *)
Forward(c, row) ==
    LET comp(ring, state, l) ==
            IF Closes(l, pos) THEN Push(ring, CompCap(l, ctx), Pooled(l, state, pos, row)) ELSE ring
    IN [raw        |-> [l \in Layer |-> Push(c.raw[l], CapRaw, row)],
        comp       |-> [l \in Compressed |-> comp(c.comp[l], c.state[l], l)],
        state      |-> [l \in Compressed |-> Shifted(l, c.state[l], pos, row)],
        index      |-> [l \in Dual |-> comp(c.index[l], c.indexState[l], l)],
        indexState |-> [l \in Dual |-> Shifted(l, c.indexState[l], pos, row)]]

Room == IF taint = "none" THEN MaxLen ELSE MaxTainted

EvalToken(t) ==
    /\ Len(tokens) < Room
    /\ tokens' = Append(tokens, t)
    /\ cache' = Forward(cache, <<pos, tokens'>>)
    /\ pos' = pos + 1
    /\ UNCHANGED <<ctx, scratch, file, taint>>

Idle == todo = <<>>

-----------------------------------------------------------------------------
(* The rows that belong to a history: what the whole-prompt graph leaves   *)
(* in its tensors, and what an exact cache holds.                          *)
RowOf(s, p) == <<p, Upto(s, p + 1)>>
WindowsOf(l, s) == Len(s) \div Ratio[l]

StateOf(l, s, p) ==
    IF l \in Dual
    THEN [r \in 0..7 |-> LET q == p - (p % 4) + r - 4 IN
            IF q < 0 \/ q > p THEN NoRow ELSE RowOf(s, q)]
    ELSE [r \in 0..(Ratio[l] - 1) |-> LET q == p - (p % Ratio[l]) + r IN
            IF q > p THEN NoRow ELSE RowOf(s, q)]

CompRowOf(l, s, k) == <<k * Ratio[l], StateOf(l, s, (k + 1) * Ratio[l] - 1)>>

(* readPrefillCaches: the newest rows in order from slot 0.  Only the raw  *)
(* rows can exceed their ring: the graph declines longer prompts.          *)
ReadBack(ring, cap, rows) ==
    LET n == Least(Len(rows), cap) IN
    [slot  |-> [s \in 0..(cap - 1) |-> IF s < n THEN rows[Len(rows) - n + s + 1] ELSE ring.slot[s]],
     n     |-> n,
     write |-> n % cap]

(* The compressor states the graph leaves.  The rebuilt state of ratio 4   *)
(* holds the last four tokens, aligned or not, as its previous window.     *)
GraphState(l, p) ==
    [r \in 0..(StateRows(l) - 1) |->
        LET at == IF l \notin Dual THEN Len(p) - (Len(p) % Ratio[l]) + r
                  ELSE IF Len(p) < 4 THEN r - 4
                  ELSE IF r < 4 THEN Len(p) - 4 + r
                  ELSE Len(p)
        IN IF at < 0 \/ at >= Len(p) THEN NoRow ELSE RowOf(p, at)]

Aligned(p) == Len(p) < 4 \/ Len(p) % 4 = 0

GraphCache(p) ==
    LET raw(l) == ReadBack(cache.raw[l], CapRaw, [i \in 1..Len(p) |-> RowOf(p, i - 1)])
        comp(ring, l) == ReadBack(ring, CompCap(l, ctx),
                                  [k \in 1..WindowsOf(l, p) |-> CompRowOf(l, p, k - 1)])
    IN [raw        |-> [l \in Layer |-> raw(l)],
        comp       |-> [l \in Compressed |-> comp(cache.comp[l], l)],
        state      |-> [l \in Compressed |-> GraphState(l, p)],
        index      |-> [l \in Dual |-> comp(cache.index[l], l)],
        indexState |-> [l \in Dual |-> GraphState(l, p)]]

(* A transfer that stops in layer k after the first fields of that layer:  *)
(* three fields for each ring, one for each compressor state.              *)
HalfRing(old, new, fields) ==
    [n     |-> IF fields >= 1 THEN new.n ELSE old.n,
     write |-> IF fields >= 2 THEN new.write ELSE old.write,
     slot  |-> IF fields >= 3 THEN new.slot ELSE old.slot]

LayerFields == 11

Half(old, new, k, fields) ==
    LET got(l) == IF l < k THEN LayerFields ELSE IF l = k THEN fields ELSE 0
        state(o, n, l, at) == IF got(l) >= at THEN n ELSE o
    IN [raw        |-> [l \in Layer |-> HalfRing(old.raw[l], new.raw[l], got(l))],
        comp       |-> [l \in Compressed |-> HalfRing(old.comp[l], new.comp[l], got(l) - 3)],
        state      |-> [l \in Compressed |-> state(old.state[l], new.state[l], l, 7)],
        index      |-> [l \in Dual |-> HalfRing(old.index[l], new.index[l], got(l) - 7)],
        indexState |-> [l \in Dual |-> state(old.indexState[l], new.indexState[l], l, 11)]]

Tainted(by) == taint' = IF taint = "none" THEN by ELSE taint

-----------------------------------------------------------------------------
Open(c) ==
    /\ ctx' = c /\ scratch' = c /\ pos' = 0 /\ tokens' = <<>>
    /\ cache' = NewCache(c) /\ todo' = <<>> /\ taint' = "none"

Init ==
    /\ ctx \in Ctxs /\ scratch = ctx /\ pos = 0 /\ tokens = <<>>
    /\ cache = NewCache(ctx) /\ todo = <<>> /\ taint = "none"
    /\ file = NoFile

(* The program is restarted, or its user asks for a new session.           *)
NewSession(c) == Idle /\ Open(c) /\ UNCHANGED file

(* prefillGraph declines a prompt that is not the first of its session or  *)
(* exceeds the context; the tokens are then evaluated one by one.          *)
GraphTakes(p) == Metal /\ pos = 0 /\ Len(p) <= ctx
MayPrefill == Idle /\ Len(tokens) <= MaxPrefill

Prefill(p) ==
    /\ MayPrefill /\ ~GraphTakes(p)
    /\ todo' = p
    /\ UNCHANGED <<ctx, pos, tokens, cache, scratch, file, taint>>

PrefillByGraph(p) ==
    /\ MayPrefill /\ GraphTakes(p) /\ Len(tokens) + Len(p) <= Room
    /\ tokens' = tokens \o p /\ pos' = pos + Len(p)
    /\ cache' = GraphCache(p)
    /\ IF Dual = {} \/ Aligned(p) THEN UNCHANGED taint ELSE Tainted("window")
    /\ UNCHANGED <<ctx, scratch, todo, file>>

(* The graph fails, perhaps while its caches are read back, and Prefill    *)
(* goes on with the tokens one by one.  Faults strike an untainted         *)
(* session: a bound of the model, as is saving only such a session.        *)
GraphFails(p) ==
    /\ MayPrefill /\ GraphTakes(p) /\ taint = "none"
    /\ \E k \in Layer, fields \in Cuts \cap {0, 3, 6, 7, 10, 11} : cache' = Half(cache, GraphCache(p), k, fields)
    /\ todo' = p
    /\ IF cache' = cache THEN UNCHANGED taint ELSE Tainted("graph")
    /\ UNCHANGED <<ctx, pos, tokens, scratch, file>>

PrefillStep ==
    /\ ~Idle
    /\ EvalToken(Head(todo))
    /\ todo' = Tail(todo)

(* The decode loop evaluates the token it sampled.                         *)
Eval(t) ==
    /\ Idle
    /\ EvalToken(t)
    /\ UNCHANGED todo

Rewind(p) ==
    /\ Idle /\ p < pos /\ p <= Len(tokens) /\ taint = "none"
    /\ pos' = p /\ tokens' = Upto(tokens, p)
    /\ Tainted("rewind")
    /\ UNCHANGED <<ctx, cache, scratch, todo, file>>

Invalidate ==
    /\ Idle
    /\ pos' = 0 /\ tokens' = <<>> /\ cache' = NewCache(ctx)
    /\ taint' = "none"
    /\ UNCHANGED <<ctx, scratch, todo, file>>

Payload(whole) ==
    [whole |-> whole, ctx |-> ctx, pos |-> pos, tokens |-> tokens, cache |-> cache, taint |-> taint]

(* SavePayload succeeds, or its writer fails on the way.                   *)
Save ==
    /\ Idle /\ taint = "none"
    /\ \E whole \in BOOLEAN : file' = Payload(whole)
    /\ UNCHANGED <<ctx, pos, tokens, cache, scratch, todo, taint>>

(* Older payloads have no cursors: their rows lie in order from slot 0.    *)
Linear(ring, cap) ==
    [slot  |-> [s \in 0..(cap - 1) |-> IF s < ring.n THEN Window(ring, cap)[s + 1] ELSE NoRow],
     n     |-> ring.n,
     write |-> ring.n % cap]

(* LoadPayload reallocates for another context size, then reads over what  *)
(* is there; a payload of version 1 has no index.                          *)
Base == IF ctx = file.ctx THEN cache ELSE NewCache(file.ctx)

(* Mutant: version 2 is taken for the first one.                           *)
ReadCacheIndexLate(v) ==
    LET f == file.cache
        comp(ring, l) == IF v < 4 THEN Linear(ring, CompCap(l, file.ctx)) ELSE ring
    IN [raw        |-> [l \in Layer |-> IF v < 3 THEN Linear(f.raw[l], CapRaw) ELSE f.raw[l]],
        comp       |-> [l \in Compressed |-> comp(f.comp[l], l)],
        state      |-> f.state,
        index      |-> [l \in Dual |-> IF v <= 2 THEN [Base.index[l] EXCEPT !.n = 0] ELSE comp(f.index[l], l)],
        indexState |-> IF v <= 2 THEN Base.indexState ELSE f.indexState]

ReadCache(v) ==
    LET f == file.cache
        comp(ring, l) == IF v < 4 THEN Linear(ring, CompCap(l, file.ctx)) ELSE ring
    IN [raw        |-> [l \in Layer |-> IF v < 3 THEN Linear(f.raw[l], CapRaw) ELSE f.raw[l]],
        comp       |-> [l \in Compressed |-> comp(f.comp[l], l)],
        state      |-> f.state,
        index      |-> [l \in Dual |-> IF v = 1 THEN [Base.index[l] EXCEPT !.n = 0] ELSE comp(f.index[l], l)],
        indexState |-> IF v = 1 THEN Base.indexState ELSE f.indexState]

Load(v) ==
    /\ Idle /\ file # NoFile /\ file.whole
    /\ ctx' = file.ctx /\ pos' = file.pos /\ tokens' = file.tokens
    /\ cache' = ReadCache(v)
    /\ taint' = file.taint
    /\ UNCHANGED <<scratch, todo, file>>

(* Position first, tokens last: a read that fails between them leaves the  *)
(* session half loaded.                                                    *)
LoadFails(v) ==
    /\ Idle /\ file # NoFile /\ taint = "none"
    /\ ctx' = file.ctx /\ pos' = file.pos
    /\ \E k \in Layer, fields \in Cuts : cache' = Half(Base, ReadCache(v), k, fields)
    /\ Tainted("load")
    /\ UNCHANGED <<tokens, scratch, todo, file>>

Next ==
    \/ \E c \in Ctxs : NewSession(c)
    \/ \E p \in Prompts : Prefill(p) \/ PrefillByGraph(p) \/ GraphFails(p)
    \/ PrefillStep \/ Invalidate \/ Save
    \/ \E t \in Sampled : Eval(t)
    \/ \E p \in 0..MaxLen : Rewind(p)
    \/ \E v \in Versions : Load(v) \/ LoadFails(v)

Spec == Init /\ [][Next]_vars

-----------------------------------------------------------------------------
RingOK(ring, cap) ==
    /\ DOMAIN ring.slot = 0..(cap - 1)
    /\ ring.n \in 0..cap /\ ring.write \in 0..(cap - 1)

(* Sizes and cursors of every ring are within its capacity, whatever was   *)
(* loaded, rewound or left half done.                                      *)
TypeOK ==
    /\ ctx \in Ctxs /\ scratch \in Ctxs /\ pos \in Nat /\ Len(tokens) \in 0..MaxLen
    /\ \A l \in Layer : RingOK(cache.raw[l], CapRaw)
    /\ \A l \in Compressed :
        /\ RingOK(cache.comp[l], CompCap(l, ctx))
        /\ DOMAIN cache.state[l] = 0..(StateRows(l) - 1)
    /\ \A l \in Dual :
        /\ RingOK(cache.index[l], CompCap(l, ctx))
        /\ DOMAIN cache.indexState[l] = 0..(StateRows(l) - 1)
    /\ taint \in {"none", "rewind", "load", "graph", "window"}

(* What the cache of a history must show to attention, oldest first.       *)
RawExact(l) ==
    Window(cache.raw[l], CapRaw) =
        LET n == Least(pos, CapRaw) IN [i \in 1..n |-> RowOf(tokens, pos - n + i - 1)]

WindowsExact(ring, l) ==
    Window(ring, CompCap(l, ctx)) =
        LET done == pos \div Ratio[l]
            n == Least(done, CompCap(l, ctx))
        IN [i \in 1..n |-> CompRowOf(l, tokens, done - n + i - 1)]

(* The rows of the window being filled, and of the one before it.          *)
StateExact(state, l) ==
    LET filled == pos % Ratio[l] IN
    IF l \in Dual
    THEN /\ \A r \in 0..3 : state[r] = IF pos < 4 THEN NoRow ELSE RowOf(tokens, pos - filled - 4 + r)
         /\ \A r \in 0..(filled - 1) : state[4 + r] = RowOf(tokens, pos - filled + r)
    ELSE \A r \in 0..(filled - 1) : state[r] = RowOf(tokens, pos - filled + r)

Exact ==
    /\ pos = Len(tokens)
    /\ \A l \in Layer : RawExact(l)
    /\ \A l \in Compressed : WindowsExact(cache.comp[l], l) /\ StateExact(cache.state[l], l)
    /\ \A l \in Dual : WindowsExact(cache.index[l], l) /\ StateExact(cache.indexState[l], l)

(* Inside its context a session forgets no compressed row: CompCap leaves  *)
(* room for every window.                                                  *)
NothingForgotten == pos <= ctx => \A l \in Compressed : cache.comp[l].n = pos \div Ratio[l]

(* Whatever sequence of prefills, decodes, saves, loads and invalidations  *)
(* led here, attention sees the newest rows of the session's own tokens,   *)
(* raw, compressed and indexed, in chronological order, and inside the     *)
(* context every compressed one; only a rewind, a failed load or transfer  *)
(* or an unaligned graph prefill may break that.                           *)
CacheExact == TypeOK /\ (taint = "none" => Exact /\ NothingForgotten)

(* The attention loops stay inside their scratch buffers: AttnScore, and   *)
(* the index's visibility flags, which are taken as one for each           *)
(* compressed row unless there are none.                                   *)
Scored(l) == cache.raw[l].n + (IF l \in Compressed THEN cache.comp[l].n ELSE 0)
Allowed(l) == Least(cache.index[l].n, (scratch \div 4) + 2)

AttentionInBounds ==
    taint = "none" /\ ctx <= scratch =>
        /\ \A l \in Layer : Scored(l) <= CapRaw + (scratch \div 2) + 2
        /\ \A l \in Dual : Allowed(l) = 0 \/ cache.comp[l].n <= Allowed(l)

(* ds4.c says of the state rebuilt after a prefill that a following decode *)
(* token sees the same rolling compression window.                         *)
GraphWindowSame ==
    Idle /\ taint \in {"none", "window"} => \A l \in Dual : StateExact(cache.state[l], l)
=============================================================================
