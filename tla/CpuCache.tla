------------------------------ MODULE CpuCache ------------------------------
(***************************************************************************)
(* The reference path of src/ds4.c: the KV cache of the CPU, which slides  *)
(* its raw rows instead of wrapping them, streams every token through its  *)
(* compressors and runs a prompt layer by layer.  It is a function of the  *)
(* tokens; the graph must show the same rows.                              *)
(***************************************************************************)
EXTENDS MetalGraph

CONSTANT Ctx

(* The rows kept and the rows a compressor holds, by the size of the text. *)
CpuRawCap == Least(Window, Ctx)
CpuCompCap(u) == (Ctx \div RatioOf(u)) + 2

NewCpu ==
    [raw  |-> [l \in Layer |-> <<>>],
     unit |-> [u \in Unit |-> [rows |-> <<>>, state |-> Empty(u)]]]

(* Mutant: a full window drops its newest row.                             *)
PushRawOver(raw, row) ==
    IF Len(raw) < CpuRawCap THEN Append(raw, row) ELSE [raw EXCEPT ![CpuRawCap] = row]

PushRaw(raw, row) ==
    IF Len(raw) < CpuRawCap THEN Append(raw, row) ELSE Append(Tail(raw), row)

(* One token through a compressor: ratio 4 writes behind the previous      *)
(* window, and at the end of a window copies it forward and back.          *)
CompressorOne(u, c, p, row) ==
    LET ratio == RatioOf(u)
        filled == [c.state EXCEPT ![(IF ratio = 4 THEN ratio ELSE 0) + (p % ratio)] = row]
        kept == [r \in DOMAIN filled |-> IF r < ratio THEN filled[ratio + r] ELSE filled[r]]
    IN IF (p + 1) % ratio # 0 THEN [c EXCEPT !.state = filled]
       ELSE [rows |-> Append(c.rows, filled), state |-> IF ratio = 4 THEN kept ELSE filled]

(* Whether attention at the last token of s reads the rows of s: all raw   *)
(* rows kept and all compressed ones, selected by the index when many.     *)
CpuRight(raw, unit, l, s) ==
    /\ raw = [i \in 1..Least(CpuRawCap, Len(s)) |-> RowOf(s, Len(s) - Least(CpuRawCap, Len(s)) + i - 1)]
    /\ \A u \in Unit : u[1] = l =>
        unit[u].rows = [k \in 1..(Len(s) \div RatioOf(u)) |-> CompRowOf(u, s, k - 1)]

(* A token through a layer; a compressor that overflows ends the program.  *)
CpuLayer(x, l, s) ==
    LET p == Len(s) - 1
        row == IF x.right THEN RowOf(s, p) ELSE Wrong
        raw == PushRaw(x.c.raw[l], row)
        unit == [u \in Unit |-> IF u[1] = l THEN CompressorOne(u, x.c.unit[u], p, row) ELSE x.c.unit[u]]
    IN [c |-> [raw |-> [x.c.raw EXCEPT ![l] = raw], unit |-> unit],
        ok |-> x.ok /\ \A u \in Unit : Len(unit[u].rows) <= CpuCompCap(u),
        right |-> x.right /\ CpuRight(raw, unit, l, s)]

(* forward_token: the last token of s through every layer.                 *)
CpuForward(c, s) ==
    LET f[l \in 0..Layers] ==
            IF l = 0 THEN [c |-> c, ok |-> TRUE, right |-> TRUE] ELSE CpuLayer(f[l - 1], l, s)
    IN f[Layers]

(* What the window being filled has left over of a prompt is emptied.      *)
Finished(u, state, n) ==
    LET ratio == RatioOf(u)
        from == (IF ratio = 4 THEN ratio ELSE 0) + (n % ratio)
    IN [r \in DOMAIN state |-> IF r >= from THEN NoRow ELSE state[r]]

(* prefill_layer_major: all tokens of a prompt through one layer after the *)
(* other; right[i] says whether the hidden state of token i still is.      *)
CpuPrefill(s) ==
    LET n == Len(s)
        layer(x, l) ==
            LET token[i \in 0..n] ==
                    IF i = 0 THEN x
                    ELSE LET prev == token[i - 1]
                             one == CpuLayer([c |-> prev.c, ok |-> prev.ok, right |-> prev.right[i]], l, Upto(s, i))
                         IN [c |-> one.c, ok |-> one.ok, right |-> [prev.right EXCEPT ![i] = one.right]]
            IN token[n]
        f[l \in 0..Layers] ==
            IF l = 0 THEN [c |-> NewCpu, ok |-> TRUE, right |-> [i \in 1..n |-> TRUE]] ELSE layer(f[l - 1], l)
        all == f[Layers]
    IN [c |-> [all.c EXCEPT !.unit = [u \in Unit |->
                    [all.c.unit[u] EXCEPT !.state = Finished(u, all.c.unit[u].state, n)]]],
        ok |-> all.ok, right |-> all.right[n]]

(* A prompt of the first m tokens of s, the rest decoded one by one.       *)
CpuRun(s, m) ==
    LET f[k \in m..Len(s)] ==
            IF k = m THEN CpuPrefill(Upto(s, m))
            ELSE LET prev == f[k - 1] one == CpuForward(prev.c, Upto(s, k)) IN
                 [one EXCEPT !.ok = prev.ok /\ one.ok, !.right = prev.right /\ one.right]
    IN f[Len(s)]
=============================================================================
