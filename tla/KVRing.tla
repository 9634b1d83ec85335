------------------------------- MODULE KVRing -------------------------------
(***************************************************************************)
(* The ring buffer of the Go port's KV cache (src/pkg/ds4/kvcache.go).     *)
(* PushRawKV, PushCompKV and PushIndexCompKV are the same code on three    *)
(* triples of fields: the rows, the number of live ones and the next slot. *)
(***************************************************************************)
EXTENDS Integers, Sequences

Ring(cap, Row) == [slot : [0..(cap - 1) -> Row], n : 0..cap, write : 0..(cap - 1)]

Fresh(cap, none) == [slot |-> [s \in 0..(cap - 1) |-> none], n |-> 0, write |-> 0]

(* The oldest row is overwritten once the ring is full.                    *)
Push(ring, cap, row) ==
    [slot  |-> [ring.slot EXCEPT ![ring.write] = row],
     n     |-> IF ring.n < cap THEN ring.n + 1 ELSE ring.n,
     write |-> IF ring.write + 1 >= cap THEN 0 ELSE ring.write + 1]

(* The slot of the oldest row, and of row i counted from it.               *)
Start(ring, cap) ==
    IF ring.write < ring.n THEN ring.write - ring.n + cap ELSE ring.write - ring.n

SlotOf(ring, cap, i) ==
    IF Start(ring, cap) + i >= cap THEN Start(ring, cap) + i - cap ELSE Start(ring, cap) + i

(* What attention reads: the live rows, oldest first.                      *)
Window(ring, cap) == [i \in 1..ring.n |-> ring.slot[SlotOf(ring, cap, i - 1)]]
=============================================================================
