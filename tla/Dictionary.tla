----------------------------- MODULE Dictionary -----------------------------
(***************************************************************************)
(* What a radix tree is for: a map from keys to values.  A store that      *)
(* fails for lack of memory adds nothing, but rax.c may drop a key that is *)
(* a proper prefix of the one it could not add.  It may also break the map *)
(* below a node that has moved: the keys under one prefix of the new one   *)
(* are lost then, and the map is only good to be thrown away.              *)
(***************************************************************************)
EXTENDS Integers, Sequences, SequencesExt

CONSTANTS Key, Value
VARIABLES dict, broken

Empty == [k \in {} |-> CHOOSE v \in Value : TRUE]
Without(K) == [q \in DOMAIN dict \ K |-> dict[q]]
Under(p) == {q \in DOMAIN dict : IsPrefix(p, q)}

Init == dict = Empty /\ ~broken

Store(k, v) == dict' = [q \in DOMAIN dict \cup {k} |-> IF q = k THEN v ELSE dict[q]]
Erase(k) == k \in DOMAIN dict /\ dict' = Without({k})
DropPrefix(k) == \E p \in DOMAIN dict : IsStrictPrefix(p, k) /\ dict' = Without({p})
LoseBranch(k) == \E n \in 0..(Len(k) - 1) : dict' = Without(Under(SubSeq(k, 1, n)))
Clear == dict' = Empty

Next == \/ Clear /\ ~broken'
        \/ /\ ~broken /\ ~broken'
           /\ \E k \in Key : Erase(k) \/ DropPrefix(k) \/ \E v \in Value : Store(k, v)
        \/ /\ ~broken /\ broken'
           /\ \E k \in Key : LoseBranch(k)

Spec == Init /\ [][Next]_<<dict, broken>>
=============================================================================
