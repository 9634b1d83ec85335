----------------------------- MODULE MetalGraph -----------------------------
(***************************************************************************)
(* The KV state of the Metal graph (src/ds4.c): a raw ring for every       *)
(* layer and, for a compressed layer, a compressor with the rows it        *)
(* appended and the window it is filling; a layer of ratio 4 has a second  *)
(* compressor for the index.  A raw row stands for the tokens it depends   *)
(* on, a compressed row for the state it was pooled from; a row computed   *)
(* from a hidden state that read something else is Wrong.                  *)
(***************************************************************************)
EXTENDS Integers, Sequences

CONSTANTS
    Ratio,       \* the compression ratio of each layer, a sequence: 0, 4 or another
    Window,      \* rows the attention sees: 128
    RawCap,      \* rows of the raw ring
    PrefillCap,  \* tokens of the largest batch
    CompCap,     \* rows of a compressor
    TopK,        \* compressed rows seen without asking the index
    NoRow, Wrong

Layer == DOMAIN Ratio
Layers == Len(Ratio)
Unit == {<<l, "attn">> : l \in {k \in Layer : Ratio[k] # 0}}
        \cup {<<l, "index">> : l \in {k \in Layer : Ratio[k] = 4}}
RatioOf(u) == Ratio[u[1]]
StateRows(u) == IF RatioOf(u) = 4 THEN 8 ELSE RatioOf(u)
Empty(u) == [r \in 0..(StateRows(u) - 1) |-> NoRow]

ASSUME GraphAssumption ==
    /\ Ratio \in Seq(Nat) /\ {Window, RawCap, PrefillCap, CompCap, TopK} \subseteq Nat \ {0}

Least(a, b) == IF a < b THEN a ELSE b
Upto(s, n) == SubSeq(s, 1, n)

NewGraph ==
    [raw  |-> [l \in Layer |-> [p \in 0..(RawCap - 1) |-> NoRow]],
     unit |-> [u \in Unit |-> [rows |-> [k \in 0..(CompCap - 1) |-> NoRow], n |-> 0, state |-> Empty(u)]]]

-----------------------------------------------------------------------------
(* What belongs to a history s: the raw row of position p, the compressor  *)
(* state while position p is the last, and the k-th pooled row.            *)
RowOf(s, p) == Upto(s, p + 1)

StateOf(u, s, p) ==
    LET first == p - (p % RatioOf(u)) IN
    [r \in DOMAIN Empty(u) |->
        LET q == first + (IF RatioOf(u) = 4 THEN r - 4 ELSE r) IN
        IF q < 0 \/ q > p THEN NoRow ELSE RowOf(s, q)]

CompRowOf(u, s, k) == StateOf(u, s, (k + 1) * RatioOf(u) - 1)

-----------------------------------------------------------------------------
(* The rows before position pos0 + n that a batch of n tokens at pos0 sees *)
(* of the ring.                                                            *)
RawSpan(pos0, n) ==
    Least(Least(IF n = 1 THEN Window ELSE Window + n, pos0 + n), RawCap)

(* The compressors: a row is written to its place in the window being      *)
(* filled; at the end of a window the state is pooled into the next row,   *)
(* and ratio 4 keeps the finished window as the previous one.              *)
Closes(u, p) == (p + 1) % RatioOf(u) = 0

Stored(u, state, p, row) ==
    [state EXCEPT ![IF RatioOf(u) = 4 THEN 4 + (p % 4) ELSE p % RatioOf(u)] = row]

Update(u, c, p, row) ==
    LET filled == Stored(u, c.state, p, row) IN
    IF ~Closes(u, p) THEN [c EXCEPT !.state = filled]
    ELSE [rows  |-> [c.rows EXCEPT ![c.n] = filled],
          n     |-> c.n + 1,
          state |-> IF RatioOf(u) = 4 THEN [r \in 0..7 |-> filled[4 + (r % 4)]] ELSE filled]

HasRoom(u, c, p) == Closes(u, p) => c.n < CompCap

(* Tokens pos0 .. pos0 + n - 1 one by one; row[p] is the row of position p. *)
Updates(u, c, pos0, n, row) ==
    LET f[k \in 0..n] == IF k = 0 THEN c ELSE Update(u, f[k - 1], pos0 + k - 1, row[pos0 + k - 1])
    IN f[n]

(* A batch that starts at token zero, or whole windows after one, is       *)
(* pooled at once.  The state of ratio 4 is then rebuilt from the last     *)
(* four tokens, aligned or not, as the previous window.                    *)
Refreshed(pos0, n, row) == [r \in 0..7 |-> IF r < 4 THEN row[pos0 + n - 4 + r] ELSE NoRow]

Remainder(u, pos0, n, row) ==
    [r \in DOMAIN Empty(u) |->
        IF r < n % RatioOf(u) THEN row[pos0 + n - (n % RatioOf(u)) + r] ELSE NoRow]

Aligned(u, pos0, n) == pos0 % RatioOf(u) = 0 /\ n % RatioOf(u) = 0

Pooled(u, c, pos0, n, row) ==
    LET seed == IF pos0 = 0 THEN [c EXCEPT !.n = 0, !.state = Empty(u)] ELSE c
    IN [Updates(u, seed, pos0, n, row) EXCEPT
            !.state = IF RatioOf(u) = 4 THEN Refreshed(pos0, n, row) ELSE Remainder(u, pos0, n, row)]

Batched(u, c, pos0, n, row) ==
    IF pos0 = 0 \/ Aligned(u, pos0, n) THEN Pooled(u, c, pos0, n, row) ELSE Updates(u, c, pos0, n, row)

(* A prompt of less than four tokens leaves nothing to rebuild from.       *)
Batchable(u, c, pos0, n) ==
    /\ pos0 = 0 /\ RatioOf(u) = 4 => n >= 4
    /\ (IF pos0 = 0 THEN 0 ELSE c.n) + (pos0 + n) \div RatioOf(u) - pos0 \div RatioOf(u) <= CompCap

-----------------------------------------------------------------------------
(* Whether attention at position p, in a batch of n tokens at pos0, reads  *)
(* the rows of s: its window of the raw ring, which starts inside the      *)
(* span, and every finished window among the count it was given; with more *)
(* than TopK of them the index selects, by its own rows.                   *)
RawRight(ring, s, pos0, n, p) ==
    \A q \in (IF p < Window THEN 0 ELSE p - Window + 1)..p :
        /\ q >= pos0 + n - RawSpan(pos0, n)
        /\ ring[q % RawCap] = RowOf(s, q)

RowsRight(u, c, s, count) ==
    \A k \in 0..(count - 1) : c.rows[k] = CompRowOf(u, s, k)

CompRight(unit, l, s, p, count) ==
    Ratio[l] = 0 \/
    /\ count = (p + 1) \div Ratio[l]
    /\ RowsRight(<<l, "attn">>, unit[<<l, "attn">>], s, count)
    /\ Ratio[l] = 4 /\ count > TopK =>
        /\ unit[<<l, "index">>].n >= count
        /\ RowsRight(<<l, "index">>, unit[<<l, "index">>], s, count)

(* The row of position p, from a hidden state that may have gone wrong.    *)
Hidden(right, s, p) == IF right THEN RowOf(s, p) ELSE Wrong

(* One token into the compressors of a layer, if they have room.           *)
Pushed(unit, l, p, row) == [u \in Unit |-> IF u[1] = l THEN Update(u, unit[u], p, row) ELSE unit[u]]
Fits(unit, l, p) == \A u \in Unit : u[1] = l => HasRoom(u, unit[u], p)

(* Attention of one token reads all that was appended.                     *)
Attends(raw, unit, l, s) ==
    LET p == Len(s) - 1 IN
    /\ RawRight(raw[l], s, p, 1, p)
    /\ CompRight(unit, l, s, p, IF Ratio[l] = 0 THEN 0 ELSE unit[<<l, "attn">>].n)

RawSlot(p) == p % RawCap

(* One token through one layer: its raw row, its compressors, attention.   *)
DecodeLayer(x, l, s) ==
    LET p == Len(s) - 1
        row == Hidden(x.right, s, p)
        raw == [x.g.raw EXCEPT ![l][RawSlot(p)] = row]
        unit == Pushed(x.g.unit, l, p, row)
    IN IF ~x.ok \/ ~Fits(x.g.unit, l, p) THEN [x EXCEPT !.ok = FALSE]
       ELSE [g |-> [raw |-> raw, unit |-> unit], ok |-> TRUE, right |-> x.right /\ Attends(raw, unit, l, s)]

(* The last token of s through the first k layers.                         *)
DecodeTo(g, s, k) ==
    LET f[l \in 0..Layers] ==
            IF l = 0 THEN [g |-> g, ok |-> TRUE, right |-> TRUE] ELSE DecodeLayer(f[l - 1], l, s)
    IN f[k]

Decode(g, s) == DecodeTo(g, s, Layers)

(* A batch stores all its rows at once, the last of those that share a     *)
(* slot stays.                                                             *)
RingAfter(ring, at, row) ==
    [slot \in 0..(RawCap - 1) |->
        LET newest == {p \in at : p % RawCap = slot /\ p + RawCap \notin at} IN
        IF newest = {} THEN ring[slot] ELSE row[CHOOSE p \in newest : TRUE]]

(* From token zero, attention reads the batch itself and the ring is only  *)
(* filled for later; after it, the ring must hold the batch and the window *)
(* before it.                                                              *)
BatchSees(ring, s, pos0, n, p, right) ==
    IF pos0 = 0 THEN \A q \in 0..(n - 1) : q <= p /\ q + Window > p => q \in right
    ELSE RawRight(ring, s, pos0, n, p)

(* The compressed rows a token of a batch sees.                            *)
BatchCount(unit, l, p) ==
    IF Ratio[l] = 0 THEN 0 ELSE Least(unit[<<l, "attn">>].n, (p + 1) \div Ratio[l])

(* A batch of n tokens of s at pos0 through one layer.                     *)
BatchLayer(x, l, s, pos0, n) ==
    LET at == pos0..(pos0 + n - 1)
        row == [p \in at |-> Hidden(p \in x.right, s, p)]
        ring == RingAfter(x.g.raw[l], at, row)
        mine == {u \in Unit : u[1] = l}
        unit == [u \in Unit |-> IF u \in mine THEN Batched(u, x.g.unit[u], pos0, n, row) ELSE x.g.unit[u]]
    IN IF ~x.ok \/ \E u \in mine : ~Batchable(u, x.g.unit[u], pos0, n) THEN [x EXCEPT !.ok = FALSE]
       ELSE [g |-> [raw |-> [x.g.raw EXCEPT ![l] = ring], unit |-> unit],
             ok |-> TRUE,
             right |-> {p \in x.right : BatchSees(ring, s, pos0, n, p, x.right)
                                         /\ CompRight(unit, l, s, p, BatchCount(unit, l, p))}]

(* The first k layers of a batch, and all of them.                         *)
BatchTo(g, s, pos0, n, k) ==
    LET f[l \in 0..Layers] ==
            IF l = 0 THEN [g |-> g, ok |-> n <= PrefillCap, right |-> pos0..(pos0 + n - 1)]
            ELSE BatchLayer(f[l - 1], l, s, pos0, n)
    IN f[k]

Batch(g, s, pos0, n) == BatchTo(g, s, pos0, n, Layers)

(* Two tokens one after the other inside each layer: the exact verifier.   *)
DecodeTwoTo(g, s, k) ==
    LET first == Upto(s, Len(s) - 1)
        f[l \in 0..Layers] ==
            IF l = 0 THEN [g |-> g, ok |-> TRUE, right |-> <<TRUE, TRUE>>, first |-> g.unit]
            ELSE LET prev == f[l - 1]
                     one == DecodeLayer([g |-> prev.g, ok |-> prev.ok, right |-> prev.right[1]], l, first)
                     two == DecodeLayer([g |-> one.g, ok |-> one.ok, right |-> prev.right[2]], l, s)
                 IN [g |-> two.g, ok |-> two.ok, right |-> <<one.right, two.right>>,
                     first |-> [u \in Unit |-> IF u[1] = l THEN one.g.unit[u] ELSE prev.first[u]]]
    IN f[k]

(* The compressors as the first token of a batch left them: copied aside   *)
(* while the batch is stepped token by token, and only then.               *)
FirstOf(g, x, pos0, n, old) ==
    [u \in Unit |->
        IF pos0 = 0 \/ Aligned(u, pos0, n) THEN old[u]
        ELSE Update(u, g.unit[u], pos0, x.g.raw[u[1]][pos0 % RawCap])]

-----------------------------------------------------------------------------
(* The chunks of a long range: a resumed one keeps to the boundaries of a  *)
(* cold prompt, and no chunk exceeds the ring.                             *)
ChunkLen(start, pos0, end) ==
    LET most == IF start = 0 THEN PrefillCap ELSE Least(PrefillCap, RawCap) IN
    Least(end - pos0, IF start = 0 THEN most ELSE Least(most, PrefillCap - (pos0 % PrefillCap)))

(* The graph after each chunk of s from start to its end, until one fails. *)
Chunks(g, s, start) ==
    LET step(prev) ==
            LET n == ChunkLen(start, prev.pos, Len(s))
                done == Batch(prev.x.g, s, prev.pos, n)
            IN [pos |-> prev.pos + n, x |-> done]
        f[k \in 0..Len(s)] ==
            IF k = 0 THEN [pos |-> start, x |-> [g |-> g, ok |-> TRUE, right |-> {}]]
            ELSE LET prev == f[k - 1] IN
                 IF prev.pos = Len(s) \/ ~prev.x.ok THEN prev ELSE step(prev)
    IN f
=============================================================================
