------------------------------ MODULE RaxTree ------------------------------
(***************************************************************************)
(* The radix tree of rax.c as a value.  A node is named by its path, the   *)
(* characters on the way from the head, so a pointer to a child is a path  *)
(* one edge longer and the parents of a node are the shorter nodes on its  *)
(* path.  What the code keeps of a node is kept: the characters, whether   *)
(* they are one compressed edge, the value when the node is a key, and the *)
(* bitmap of children that are values stored in place (inline leaves).     *)
(* Byte layout and padding are left out.                                   *)
(*                                                                         *)
(* An operation that allocates has a parameter mem, the number of          *)
(* allocations that still succeed, a realloc among them.  A realloc may    *)
(* move the node, which shows only where the link to the node is not       *)
(* written again: moved holds the nodes whose link leads to freed memory.  *)
(* Keys are no longer than RAX_NODE_MAX_SIZE, so that one node can hold    *)
(* what is left of a key.                                                  *)
(***************************************************************************)
EXTENDS Integers, Sequences, FiniteSets, SequencesExt, TLC

CONSTANTS NoKey,        \* iskey = 0
          Null,         \* iskey = 1 and isnull = 1
          NotFound,     \* raxNotFound
          InlineSlots   \* children that may be inline leaves: 13 bits

ASSUME InlineAssumption == InlineSlots \in Nat \ {0}
ASSUME MarksAssumption == Cardinality({NoKey, Null, NotFound}) = 3

LOCAL None == [k \in {} |-> NoKey]

NewNode(val, chars, compr, leaf) ==
  [val |-> val, chars |-> chars, compr |-> compr, leaf |-> leaf]

\* raxNew: an empty head.
NewRax == [node |-> (<<>> :> NewNode(NoKey, <<>>, FALSE, None)), numele |-> 0, numnodes |-> 1,
           moved |-> {}]

Size(n) == Len(n.chars)
IsKey(n) == n.val # NoKey
Children(n) == IF n.compr THEN {1} ELSE 1..Size(n)
IsInlineLeaf(n, k) == k \in DOMAIN n.leaf
SingleChild(n) == ~IsKey(n) /\ (n.compr \/ Size(n) = 1)

\* The characters on the edge to child k, and the path of that child.
Edge(n, k) == IF n.compr THEN n.chars ELSE <<n.chars[k]>>
ChildPath(r, h, k) == h \o Edge(r.node[h], k)

Longest(P) == CHOOSE p \in P : \A q \in P : Len(q) <= Len(p)
OnPath(r, s) == {p \in DOMAIN r.node : IsPrefix(p, s)}
\* The stack of parents raxLowWalk fills, as the set of its items.
Above(r, h) == OnPath(r, h) \ {h}
Parent(r, h) == Longest(Above(r, h))

\* Position of the first child whose edge is greater than c.
FindChildPos(n, c) ==
  LET greater == {k \in 1..Size(n) : n.chars[k] > c}
  IN IF greater = {} THEN Size(n) + 1 ELSE CHOOSE k \in greater : \A g \in greater : k <= g

Put(r, h, n) == [r EXCEPT !.node = (h :> n) @@ @]
DropNodes(r, H) == [r EXCEPT !.node = Restrict(@, DOMAIN @ \ H), !.numnodes = @ - Cardinality(H)]
SetData(r, h, v) == [r EXCEPT !.node[h].val = v]

(***************************************************************************)
(* raxLowWalk: stop is the last node reached, i the number of characters   *)
(* matched, split the position in a compressed node, inl whether the walk  *)
(* ended at an inline leaf, child k of stop.                               *)
(***************************************************************************)
WalkIn(n, h, rest) ==
  LET m == Len(LongestCommonPrefix({n.chars, rest}))
      at == {k \in Children(n) : IsPrefix(Edge(n, k), rest) /\ IsInlineLeaf(n, k)}
  IN CASE at # {} -> LET k == CHOOSE k \in at : TRUE
                     IN [stop |-> h, i |-> Len(h) + Len(Edge(n, k)), split |-> 0, inl |-> TRUE, k |-> k]
       [] at = {} /\ n.compr -> [stop |-> h, i |-> Len(h) + m, split |-> m, inl |-> FALSE, k |-> 0]
       [] OTHER -> [stop |-> h, i |-> Len(h), split |-> 0, inl |-> FALSE, k |-> 0]
LowWalk(r, s) ==
  LET h == Longest(OnPath(r, s)) IN WalkIn(r.node[h], h, SubSeq(s, Len(h) + 1, Len(s)))

\* raxFind.
FoundAt(n, s, w) ==
  IF w.i = Len(s) /\ w.inl THEN n.leaf[w.k]
  ELSE IF w.i # Len(s) \/ w.split # 0 \/ ~IsKey(n) THEN NotFound
  ELSE n.val
FoundBy(r, s, w) == FoundAt(r.node[w.stop], s, w)
RaxFind(r, s) == FoundBy(r, s, LowWalk(r, s))

-----------------------------------------------------------------------------
\* Removal of a child, and of the nodes it leaves useless

\* raxRemoveChildAtPtr: the later bits of the inline bitmap move down.
RemoveChildAt(r, h, k) ==
  LET n == r.node[h]
      m == IF n.compr THEN NewNode(n.val, <<>>, FALSE, None)
           ELSE NewNode(n.val, RemoveAt(n.chars, k), FALSE,
                        [b \in {b \in 1..InlineSlots : IF b < k THEN b \in DOMAIN n.leaf
                                                       ELSE b + 1 \in DOMAIN n.leaf} |->
                            IF b < k THEN n.leaf[b] ELSE n.leaf[b + 1]])
  IN Put(r, h, m)

\* raxRemoveCleanup: free h and the parents that only led to it; the node kept
\* loses a child.  to is where recompression starts, or <<"no">>.
RemoveCleanup(r, h) ==
  LET keep == Longest({p \in Above(r, h) : p = <<>> \/ ~SingleChild(r.node[p])})
      gone == {p \in OnPath(r, h) : Len(p) > Len(keep)}
      k == CHOOSE c \in Children(r.node[keep]) : ChildPath(r, keep, c) \in gone
      q == DropNodes(RemoveChildAt(r, keep, k), gone)
      n == q.node[keep]
  IN IF h = <<>> THEN [r |-> r, at |-> h, try |-> FALSE]
     ELSE [r |-> q, at |-> keep, try |-> Size(n) = 1 /\ ~IsKey(n)]

\* The chain of nodes a recompression joins: from start down, while the next
\* node is a real one with a single child and no key.
Chain(r, start) ==
  LET below == {p \in DOMAIN r.node : IsPrefix(start, p)}
  IN {p \in below : \A q \in below : IsPrefix(q, p) => q = start \/ SingleChild(r.node[q])}

\* The recompression at the end of raxRemove, from node h upwards to the first
\* node of the chain and then down.
Recompress(r, h, mem) ==
  LET top == {p \in OnPath(r, h) : \A q \in OnPath(r, h) :
                  (Len(q) >= Len(p) /\ q # h) => SingleChild(r.node[q])}
      start == CHOOSE p \in top : \A q \in top : Len(p) <= Len(q)
      chain == Chain(r, start)
      last == Longest(chain)
      chars == SubSeq(last, Len(start) + 1, Len(last)) \o r.node[last].chars
      new == NewNode(NoKey, chars, TRUE, r.node[last].leaf)
  IN IF Cardinality(chain) > 1 /\ mem > 0
     THEN Put(DropNodes(r, chain \ {start}), start, new)
     ELSE r

\* What is left of node h after a value or child was taken from it: nothing when
\* it is useless now.  Recompression is tried when the node left has one
\* character (size = 1), whether it is compressed or not.
Tidied(r, h) ==
  IF Size(r.node[h]) = 0 /\ ~IsKey(r.node[h]) THEN RemoveCleanup(r, h)
  ELSE [r |-> r, at |-> h, try |-> Size(r.node[h]) = 1 /\ ~IsKey(r.node[h])]
Joined(c, mem) == IF c.try THEN Recompress(c.r, c.at, mem) ELSE c.r

\* raxRemove.
Taken(r, s, w) ==
  LET fewer == [r EXCEPT !.numele = @ - 1]
  IN IF w.inl THEN RemoveChildAt(fewer, w.stop, w.k) ELSE SetData(fewer, w.stop, NoKey)
RemoveAfter(r, s, w, mem) ==
  IF FoundBy(r, s, w) = NotFound THEN [r |-> r, found |-> FALSE]
  ELSE [r |-> Joined(Tidied(Taken(r, s, w), w.stop), mem), found |-> TRUE]
RaxRemove(r, s, mem) == RemoveAfter(r, s, LowWalk(r, s), mem)

-----------------------------------------------------------------------------
\* Insertion

\* raxMaterializeInlineLeaf: a node of its own for the value in slot k.
Materialize(r, h, k) ==
  LET n == r.node[h]
      q == Put(r, h, [n EXCEPT !.leaf = Restrict(@, DOMAIN @ \ {k})])
  IN [Put(q, ChildPath(r, h, k), NewNode(n.leaf[k], <<>>, FALSE, None)) EXCEPT !.numnodes = @ + 1]

\* Mutant: the test is off by one slot, so the last bit is shifted out.
NeedsSpillEarly(n, pos) == pos < InlineSlots /\ IsInlineLeaf(n, InlineSlots)

\* raxAddChildNoAlloc: the child on the last slot of the bitmap becomes a node
\* when it moves past it; the bits from the new position on move up.
NeedsSpill(n, pos) == pos <= InlineSlots /\ IsInlineLeaf(n, InlineSlots)

AddChildNoAlloc(r, h, c) ==
  LET pos == FindChildPos(r.node[h], c)
      q == IF NeedsSpill(r.node[h], pos) THEN Materialize(r, h, InlineSlots) ELSE r
      n == q.node[h]
      up == [b \in {b \in 1..InlineSlots : IF b < pos THEN b \in DOMAIN n.leaf
                                          ELSE b > pos /\ b - 1 \in DOMAIN n.leaf} |->
                IF b < pos THEN n.leaf[b] ELSE n.leaf[b - 1]]
  IN Put(q, h, [n EXCEPT !.chars = InsertAt(@, pos, c), !.leaf = IF pos <= InlineSlots THEN up ELSE @])
AddChildAllocs(n, c) == IF NeedsSpill(n, FindChildPos(n, c)) THEN 2 ELSE 1

\* What raxGenericInsert leaves: the tree, and the nodes it has grown without
\* writing the link to them, which the realloc may have moved.
Left(r) == [r |-> r, grown |-> {}]

\* The end of a failed insertion: a node without children is made a key and
\* removed, as if it were the node this call had added.
OutOfMemory(r, h) ==
  Left(IF Size(r.node[h]) > 0 THEN r
       ELSE RaxRemove([SetData(r, h, Null) EXCEPT !.numele = @ + 1], h, 0).r)

Added(r) == Left([r EXCEPT !.numele = @ + 1])

\* The last node: a childless h takes all that is left of the key, or becomes
\* the key itself.
Finish(r, h, rest, v, mem) ==
  LET n == r.node[h]
  IN IF mem = 0 /\ (rest # <<>> \/ v # Null) THEN OutOfMemory(r, h)
     ELSE Added(IF rest = <<>> THEN SetData(r, h, v)
                ELSE Put(r, h, [n EXCEPT !.chars = rest, !.compr = Len(rest) > 1, !.leaf = 1 :> v]))

\* The loop that adds the characters not matched: a value in place where the
\* bitmap has a bit for it, a node of its own otherwise.  The last allocation is
\* that of the node for the value on the last slot, if one is needed: when it
\* fails h has grown already, and the call returns without its new address.
Extend(r, h, rest, v, mem) ==
  LET n == r.node[h]
      c == Head(rest)
      inline == Len(rest) = 1 /\ FindChildPos(n, c) <= InlineSlots
      needed == AddChildAllocs(n, c) + (IF inline THEN 0 ELSE 1)
      child == h \o <<c>>
  IN IF Size(n) = 0 THEN Finish(r, h, rest, v, mem)
     ELSE IF mem < needed
     THEN [OutOfMemory(r, h) EXCEPT
             !.grown = IF NeedsSpill(n, FindChildPos(n, c)) /\ mem = needed - 1 THEN {h} ELSE {}]
     ELSE IF inline THEN Added([AddChildNoAlloc(r, h, c) EXCEPT !.node[h].leaf = (FindChildPos(n, c) :> v) @@ @])
     ELSE Finish([Put(AddChildNoAlloc(r, h, c), child, NewNode(NoKey, <<>>, FALSE, None)) EXCEPT !.numnodes = @ + 1],
                 child, Tail(rest), v, mem - needed)

\* Mutant: a split at the first character forgets the value of the old node.
SplitAtMismatchNoValue(r, h, j) ==
  LET n == r.node[h]
      at == h \o SubSeq(n.chars, 1, j)
      after == SubSeq(n.chars, j + 2, Size(n))
      split == NewNode(NoKey, <<n.chars[j + 1]>>, FALSE, IF after = <<>> THEN n.leaf ELSE None)
      trimmed == NewNode(n.val, SubSeq(n.chars, 1, j), j > 1, None)
      postfix == NewNode(NoKey, after, Len(after) > 1, n.leaf)
      r1 == Put(r, at, split)
      r2 == IF j = 0 THEN r1 ELSE [Put(r1, h, trimmed) EXCEPT !.numnodes = @ + 1]
  IN IF after = <<>> THEN r2
     ELSE [Put(r2, at \o <<n.chars[j + 1]>>, postfix) EXCEPT !.numnodes = @ + 1]

\* ALGO 1: the key leaves a compressed node at a mismatch, position j.
SplitAtMismatch(r, h, j) ==
  LET n == r.node[h]
      at == h \o SubSeq(n.chars, 1, j)
      after == SubSeq(n.chars, j + 2, Size(n))
      split == NewNode(IF j = 0 THEN n.val ELSE NoKey, <<n.chars[j + 1]>>, FALSE,
                       IF after = <<>> THEN n.leaf ELSE None)
      trimmed == NewNode(n.val, SubSeq(n.chars, 1, j), j > 1, None)
      postfix == NewNode(NoKey, after, Len(after) > 1, n.leaf)
      r1 == Put(r, at, split)
      r2 == IF j = 0 THEN r1 ELSE [Put(r1, h, trimmed) EXCEPT !.numnodes = @ + 1]
  IN IF after = <<>> THEN r2
     ELSE [Put(r2, at \o <<n.chars[j + 1]>>, postfix) EXCEPT !.numnodes = @ + 1]
SplitAllocs(n, j) == 1 + (IF j > 0 THEN 1 ELSE 0) + (IF Size(n) > j + 1 THEN 1 ELSE 0)

\* ALGO 2: the key ends inside a compressed node.
SplitAtEnd(r, h, j, v) ==
  LET n == r.node[h]
      after == SubSeq(n.chars, j + 1, Size(n))
      q == Put(r, h, NewNode(n.val, SubSeq(n.chars, 1, j), j > 1, None))
  IN [Put(q, h \o SubSeq(n.chars, 1, j), NewNode(v, after, Len(after) > 1, n.leaf))
        EXCEPT !.numnodes = @ + 1]

\* raxGenericInsert after its walk, at node h, with rest of the key left.
InsertAfter(r, h, n, rest, w, v, overwrite, mem) ==
  LET kept == Left(r)
      grow == v # Null /\ (~IsKey(n) \/ (n.val = Null /\ overwrite))
  IN CASE rest = <<>> /\ w.inl ->
            IF overwrite THEN [kept EXCEPT !.r.node[h].leaf[w.k] = v] ELSE kept
       [] rest # <<>> /\ w.inl ->
            IF mem = 0 THEN kept
            ELSE Extend(Materialize(r, h, w.k), ChildPath(r, h, w.k), rest, v, mem - 1)
       [] ~w.inl /\ rest = <<>> /\ w.split = 0 ->
            IF grow /\ mem = 0 THEN kept
            ELSE IF ~IsKey(n) THEN Added(SetData(r, h, v))
            ELSE IF overwrite THEN [kept EXCEPT !.r = SetData(r, h, v)] ELSE kept
       [] ~w.inl /\ n.compr /\ rest # <<>> ->
            IF mem < SplitAllocs(n, w.split) THEN kept
            ELSE Extend(SplitAtMismatch(r, h, w.split), h \o SubSeq(n.chars, 1, w.split), rest, v,
                        mem - SplitAllocs(n, w.split))
       [] ~w.inl /\ rest = <<>> /\ w.split # 0 ->
            IF mem < 2 THEN kept ELSE Added(SplitAtEnd(r, h, w.split, v))
       [] OTHER -> Extend(r, h, rest, v, mem)
RaxInsert(r, s, v, overwrite, mem) ==
  LET w == LowWalk(r, s)
  IN InsertAfter(r, w.stop, r.node[w.stop], SubSeq(s, w.i + 1, Len(s)), w, v, overwrite, mem)
=============================================================================
