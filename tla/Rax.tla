-------------------------------- MODULE Rax --------------------------------
(***************************************************************************)
(* A radix tree of rax.c in use: insertions and removals, and between them *)
(* one ordinary iterator or one defragmentation iterator at a time.  An    *)
(* iterator is only valid while no key is inserted or removed, so it is    *)
(* stopped before the tree changes.  RaxTree holds the tree operations.    *)
(***************************************************************************)
EXTENDS RaxTree

CONSTANTS Keys,       \* keys inserted, removed and looked up
          Probes,     \* strings an iterator seeks, members of Keys or not
          Values,     \* data pointers, Null among them
          MaxMem,     \* allocations that may succeed before one fails
          MaxDrops,   \* bound: keys lost to failed insertions
          MaxSteps,   \* bound: steps of one random walk
          Absent      \* no iterator

VARIABLES rax,      \* the tree
          drops,    \* history: keys a failed insertion removed
          it,       \* raxIterator
          goal,     \* history: what the last seek asked for
          dfg,      \* raxDefragIterator
          seen      \* history: what the defragmentation has yielded

vars == <<rax, drops, it, goal, dfg, seen>>

Root == <<>>
Idle == it = Absent /\ dfg = Absent
Intact == rax.moved = {}
AtKey(i) == i.inl \/ IsKey(rax.node[i.node])
DataOf(n) == IF IsKey(n) THEN n.val ELSE Null     \* raxGetData

\* The keys of a tree and their values, by the nodes and slots that hold them.
Stored(r) ==
  LET nodes == {h \in DOMAIN r.node : IsKey(r.node[h])}
      slots == UNION {{<<h, k>> : k \in DOMAIN r.node[h].leaf} : h \in DOMAIN r.node}
      inl == {ChildPath(r, s[1], s[2]) : s \in slots}
      slot(q) == CHOOSE s \in slots : ChildPath(r, s[1], s[2]) = q
  IN [q \in nodes \cup inl |-> IF q \in nodes THEN r.node[q].val
                               ELSE r.node[slot(q)[1]].leaf[slot(q)[2]]]
\* Those that can be read: no link on the way leads to freed memory.
Reached(r, s) == \A h \in r.moved : ~IsPrefix(h, s)
Contents(r) ==
  LET all == Stored(r)
  IN IF r.moved = {} THEN all ELSE Restrict(all, {q \in DOMAIN all : Reached(r, q)})
Held == DOMAIN Contents(rax)

-----------------------------------------------------------------------------
\* Steps of an iterator.  child is node_child, 0 when it is not known.

AddChars(i, s) == [i EXCEPT !.key = @ \o s]
DelChars(i, c) == [i EXCEPT !.key = SubSeq(@, 1, Len(@) - c)]
\* Mutant: every edge is taken to be one character.
EdgeSizeOne(h) == 1

EdgeSize(h) == IF rax.node[h].compr THEN Size(rax.node[h]) ELSE 1

\* raxIteratorEnterChild.
EnterChild(i, k) ==
  LET n == rax.node[i.node]
      a == AddChars(i, Edge(n, k))
      h == ChildPath(rax, i.node, k)
  IN IF IsInlineLeaf(n, k) THEN [a EXCEPT !.inl = TRUE, !.child = k, !.data = n.leaf[k]]
     ELSE [a EXCEPT !.node = h, !.child = k, !.data = DataOf(rax.node[h])]

\* One level up, or none when the walk starts beside a child of the node
\* itself (noup): the node, and the key without the edge that led down.
Up(i, noup) ==
  LET h == IF noup THEN i.node ELSE Parent(rax, i.node)
  IN DelChars([i EXCEPT !.node = h], EdgeSize(h))

\* The child after (before) the one the iterator comes from, by its index when
\* that is known and by its character otherwise; 0 when there is none.
After(i, h) ==
  LET n == rax.node[h]
      k == IF i.child # 0 THEN i.child + 1 ELSE FindChildPos(n, Last(i.key))
  IN IF k <= Size(n) THEN k ELSE 0
Before(i, h) ==
  LET n == rax.node[h]
      less == {k \in 1..Size(n) : n.chars[k] < Last(i.key)}
  IN IF i.child # 0 THEN i.child - 1
     ELSE IF less = {} THEN 0 ELSE CHOOSE k \in less : \A l \in less : l <= k
\* A parent with another child to visit.
Forks(h, noup) == ~rax.node[h].compr /\ Size(rax.node[h]) > (IF noup THEN 0 ELSE 1)

RECURSIVE Deeper(_, _, _), Climb(_, _, _)
\* raxIteratorNextStep after its early returns: down to the first child, or up
\* to the first parent with a later child.  orig is what the end restores.
Deeper(i, noup, orig) ==
  LET e == EnterChild(i, 1)
  IN IF noup \/ Children(rax.node[i.node]) = {} THEN Climb(i, noup, orig)
     ELSE IF AtKey(e) THEN e ELSE Deeper(e, FALSE, orig)
Climb(i, noup, orig) ==
  IF ~noup /\ i.node = Root THEN [orig EXCEPT !.eof = TRUE]
  ELSE LET u == Up(i, noup)
           k == IF Forks(u.node, noup) THEN After(i, u.node) ELSE 0
           e == EnterChild(u, k)
       IN IF k = 0 THEN Climb([u EXCEPT !.child = 0], FALSE, orig)
          ELSE IF AtKey(e) THEN e ELSE Deeper(e, FALSE, orig)

RECURSIVE SeekGreatest(_), Descend(_, _, _)
\* raxSeekGreatest.
SeekGreatest(i) ==
  LET n == rax.node[i.node]
      e == EnterChild(i, IF n.compr THEN 1 ELSE Size(n))
  IN IF Size(n) = 0 THEN i ELSE IF e.inl THEN e ELSE SeekGreatest(e)
\* raxIteratorPrevStep after its early returns: up to the node, or beside it to
\* the greatest key below the child before.
Below(e, noup) ==
  IF e.inl THEN e ELSE IF noup THEN [SeekGreatest(e) EXCEPT !.child = 0] ELSE SeekGreatest(e)
PrevFrom(u, k, noup) == IF k = 0 THEN [u EXCEPT !.child = 0] ELSE Below(EnterChild(u, k), noup)
DescendAt(at, orig) ==
  IF AtKey(at) THEN [at EXCEPT !.data = IF at.inl THEN @ ELSE DataOf(rax.node[at.node])]
  ELSE Descend(at, FALSE, orig)
Descend(i, noup, orig) ==
  LET u == Up(i, noup)
      k == IF Forks(u.node, noup) THEN Before(i, u.node) ELSE 0
  IN IF ~noup /\ i.node = Root THEN [orig EXCEPT !.eof = TRUE]
     ELSE DescendAt(PrevFrom(u, k, noup), orig)

\* Mutant: the key is not restored when there is no next one.
NextStepNoRestore(i, noup) ==
  IF i.eof THEN i ELSE IF i.just THEN [i EXCEPT !.just = FALSE]
  ELSE LET e == Deeper([i EXCEPT !.inl = FALSE], noup \/ i.inl, i)
       IN IF e.eof THEN [e EXCEPT !.key = <<>>] ELSE e

NextStep(i, noup) ==
  IF i.eof THEN i ELSE IF i.just THEN [i EXCEPT !.just = FALSE]
  ELSE Deeper([i EXCEPT !.inl = FALSE], noup \/ i.inl, i)
PrevStep(i, noup) ==
  IF i.eof THEN i ELSE IF i.just THEN [i EXCEPT !.just = FALSE]
  ELSE Descend([i EXCEPT !.inl = FALSE], noup \/ i.inl, i)

\* raxStart.
Started == [eof |-> TRUE, just |-> FALSE, inl |-> FALSE, key |-> <<>>, node |-> Root, child |-> 0,
            data |-> Null, steps |-> 0, loose |-> FALSE]
Just(i) == [i EXCEPT !.just = TRUE]

\* One step up or down from a place, beside its node or not.
Stepped(up, i, noup) == Just(IF up THEN NextStep(i, noup) ELSE PrevStep(i, noup))
LargestOf(g) == Just(IF g.inl THEN g ELSE [g EXCEPT !.data = DataOf(rax.node[g.node])])
Largest(i) == LargestOf(SeekGreatest(i))

\* The part of raxSeek for > and <, and for >= and <= without an exact match:
\* from the node where the walk stopped one step in the direction asked.
SeekBeside(i, op, s, w) ==
  LET n == rax.node[w.stop]
      at == [i EXCEPT !.node = w.stop, !.key = w.stop]
      up == op \in {">", ">="}
      off == w.i # Len(s)
      smaller == n.chars[w.split + 1] < s[w.i + 1]
      past == off /\ n.compr /\ up = smaller
  IN CASE off /\ n.compr /\ ~up /\ smaller -> Largest(at)
       [] ~off /\ n.compr /\ IsKey(n) /\ w.split # 0 /\ ~up -> Just([at EXCEPT !.data = n.val])
       [] OTHER -> Stepped(up, IF off /\ ~n.compr THEN AddChars(at, <<s[w.i + 1]>>)
                               ELSE IF past THEN AddChars(at, n.chars) ELSE at,
                           past \/ (off /\ ~n.compr))

\* raxSeek on an iterator that has just been started, after its walk to node n.
SeekFrom(op, s, w, n) ==
  LET fresh == [Started EXCEPT !.eof = FALSE]
      inl == [fresh EXCEPT !.node = w.stop, !.key = SubSeq(s, 1, w.i), !.inl = TRUE,
                           !.child = w.k, !.data = n.leaf[w.k]]
      eq == op \in {"=", ">=", "<="}
  IN CASE w.inl /\ w.i = Len(s) -> IF eq THEN Just(inl) ELSE Stepped(op = ">", inl, FALSE)
       [] w.inl /\ w.i # Len(s) ->
            IF op \in {">", ">="} THEN Stepped(TRUE, inl, FALSE)
            ELSE Just([inl EXCEPT !.eof = (op = "=")])
       [] ~w.inl /\ eq /\ w.i = Len(s) /\ w.split = 0 /\ IsKey(n) ->
            Just([fresh EXCEPT !.node = w.stop, !.key = s, !.data = n.val])
       [] OTHER -> IF op = "=" THEN Just([fresh EXCEPT !.eof = TRUE]) ELSE SeekBeside(fresh, op, s, w)
SeekWalked(op, s, w) == SeekFrom(op, s, w, rax.node[w.stop])
SeekKey(op, s) == SeekWalked(op, s, LowWalk(rax, s))
Seek(op, s) ==
  IF rax.numele = 0 THEN Just(Started)
  ELSE IF op = "$" THEN Largest([Started EXCEPT !.eof = FALSE])
  ELSE IF op = "^" THEN SeekKey(">=", <<>>) ELSE SeekKey(op, s)

-----------------------------------------------------------------------------
Init ==
  /\ rax = NewRax
  /\ drops = 0
  /\ it = Absent /\ goal = Absent
  /\ dfg = Absent /\ seen = <<>>

\* raxGenericInsert as raxInsert and raxTryInsert call it; mem is the number of
\* allocations before malloc fails.  A node it grew last may have moved.
Insert(k, v, overwrite, mem) ==
  /\ Idle /\ Intact
  /\ \E x \in {RaxInsert(rax, k, v, overwrite, mem)} :
     /\ drops' = drops + Cardinality(Held \ DOMAIN Stored(x.r))
     /\ drops' <= MaxDrops
     /\ \E H \in SUBSET x.grown : rax' = [x.r EXCEPT !.moved = H]
     /\ UNCHANGED <<it, goal, dfg, seen>>

\* After that the tree has a link to freed memory: what a program does that goes
\* through it is not defined, and the model follows none.  It takes up a program
\* that starts with a new tree.
StartOver ==
  /\ ~Intact
  /\ rax' = NewRax
  /\ drops' = 0
  /\ UNCHANGED <<it, goal, dfg, seen>>

\* raxRemove; mem says whether the node of a recompression can be allocated.
Delete(k, mem) ==
  /\ Idle /\ Intact
  /\ \E x \in {RaxRemove(rax, k, mem)} :
     /\ x.found
     /\ rax' = x.r
     /\ UNCHANGED <<drops, it, goal, dfg, seen>>

\* raxFree and raxNew.
Free ==
  /\ Idle /\ Intact
  /\ rax' = NewRax
  /\ drops' = 0
  /\ UNCHANGED <<it, goal, dfg, seen>>

\* raxSeek on a fresh iterator.  On the last element it asserts that the tree
\* has one, which numele claims after a failed insertion lost the only key.
StartAndSeek(op, s) ==
  /\ Idle /\ Intact
  /\ op = "$" => Held # {} \/ rax.numele = 0
  /\ it' = Seek(op, s)
  /\ goal' = [op |-> op, ele |-> s]
  /\ UNCHANGED <<rax, drops, dfg, seen>>

Iterating == it # Absent /\ it.steps = 0
StepNext ==
  /\ Iterating
  /\ it' = NextStep(it, FALSE)
  /\ goal' = Absent
  /\ UNCHANGED <<rax, drops, dfg, seen>>
StepPrev ==
  /\ Iterating
  /\ it' = PrevStep(it, FALSE)
  /\ goal' = Absent
  /\ UNCHANGED <<rax, drops, dfg, seen>>

\* raxIteratorCurrentParentLink for an inline leaf: the slot, by the character
\* that leads to it when the index is not known.
Slot(i) ==
  LET n == rax.node[i.node]
  IN IF IsInlineLeaf(n, i.child) THEN i.child
     ELSE IF n.compr THEN 1
     ELSE CHOOSE k \in DOMAIN n.leaf : n.chars[k] = Last(i.key)

\* raxIteratorSetData: in the slot of an inline leaf or in the node.
IteratorSetData(v) ==
  /\ Iterating /\ ~it.eof
  /\ IF it.inl
     THEN /\ rax' = [rax EXCEPT !.node[it.node].leaf[Slot(it)] = v]
          /\ it' = [it EXCEPT !.data = v, !.child = Slot(it)]
     ELSE /\ rax' = SetData(rax, it.node, v)
          /\ it' = [it EXCEPT !.data = v]
  /\ UNCHANGED <<drops, goal, dfg, seen>>

\* raxRandomWalk.  With no key but the empty one it would divide by the number
\* of ways on from the head, which is zero.
RandomWalk(steps) ==
  /\ Iterating /\ ~it.eof /\ ~it.just
  /\ Held # {Root}
  /\ it' = [it EXCEPT !.steps = steps]
  /\ goal' = Absent
  /\ UNCHANGED <<rax, drops, dfg, seen>>

\* One turn of its loop.  The steps that are left count the keys met; the walk
\* ends on the last one.  Leaving an inline leaf keeps the child index.
Counted(i) == IF AtKey(i) THEN [i EXCEPT !.steps = @ - 1] ELSE i
Landed(i) == IF AtKey(i) /\ ~i.inl THEN [i EXCEPT !.data = DataOf(rax.node[i.node])] ELSE i
WalkStep ==
  LET n == rax.node[it.node]
      off == DelChars([it EXCEPT !.inl = FALSE, !.loose = TRUE], EdgeSize(it.node))
      up == [Up(it, FALSE) EXCEPT !.child = 0, !.loose = FALSE]
      down(k) == [EnterChild(it, k) EXCEPT !.loose = FALSE]
  IN /\ it # Absent /\ it.steps > 0
     /\ \/ it.inl /\ it' = Landed(Counted(off))
        \/ ~it.inl /\ it.node # Root /\ it' = Landed(Counted(up))
        \/ ~it.inl /\ \E k \in Children(n) : it' = Landed(Counted(down(k)))
     /\ UNCHANGED <<rax, drops, goal, dfg, seen>>

\* raxStop.
Stop ==
  /\ Iterating
  /\ it' = Absent /\ goal' = Absent
  /\ UNCHANGED <<rax, drops, dfg, seen>>

-----------------------------------------------------------------------------
\* Defragmentation: every node and every value that is not Null, in turn

Frame(h) == [node |-> h, child |-> 0, state |-> "node"]
\* raxDefragStart.
DefragStart ==
  /\ Idle /\ Intact
  /\ dfg' = [stack |-> <<Frame(Root)>>, key |-> <<>>, todel |-> 0, item |-> Absent]
  /\ seen' = <<>>
  /\ UNCHANGED <<rax, drops, it, goal>>

RECURSIVE DefragStep(_)
\* The loop of raxDefragNext, up to the next item or the end.
DefragStep(d) ==
  LET f == Last(d.stack)
      n == rax.node[f.node]
      k == f.child + 1
      top(g) == [d EXCEPT !.stack[Len(d.stack)] = g]
      yield(e, kind, h) == [e EXCEPT !.item = <<kind, h>>]
      rest == Front(d.stack)
      popped == [d EXCEPT !.stack = rest,
                          !.key = SubSeq(@, 1, Len(@) - EdgeSize(Last(rest).node))]
      along == [top([f EXCEPT !.child = k]) EXCEPT !.key = @ \o Edge(n, k)]
  IN CASE d.stack = <<>> -> d
       [] f.state = "node" -> yield(top([f EXCEPT !.state = "data"]), "node", f.node)
       [] f.state = "data" /\ n.val \notin {NoKey, Null} ->
            yield(top([f EXCEPT !.state = "children"]), "data", d.key)
       [] f.state = "data" /\ n.val \in {NoKey, Null} -> DefragStep(top([f EXCEPT !.state = "children"]))
       [] f.state = "children" /\ k \notin Children(n) ->
            IF rest = <<>> THEN [d EXCEPT !.stack = <<>>, !.item = Absent] ELSE DefragStep(popped)
       [] f.state = "children" /\ IsInlineLeaf(n, k) /\ n.leaf[k] = Null ->
            DefragStep(top([f EXCEPT !.child = k]))
       [] f.state = "children" /\ IsInlineLeaf(n, k) /\ n.leaf[k] # Null ->
            [yield(along, "data", along.key) EXCEPT !.todel = Len(Edge(n, k))]
       [] OTHER -> DefragStep([along EXCEPT !.stack = Append(@, Frame(ChildPath(rax, f.node, k)))])

\* Mutant: the key of an inline value is not taken back.
DefragNextKeepsKey ==
  /\ dfg # Absent /\ dfg.stack # <<>>
  /\ dfg' = DefragStep([dfg EXCEPT !.todel = 0])
  /\ seen' = IF dfg'.item = Absent THEN seen ELSE Append(seen, dfg'.item)
  /\ UNCHANGED <<rax, drops, it, goal>>

DefragNext ==
  LET d == [dfg EXCEPT !.key = SubSeq(@, 1, Len(@) - dfg.todel), !.todel = 0]
  IN /\ dfg # Absent /\ dfg.stack # <<>>
     /\ dfg' = DefragStep(d)
     /\ seen' = IF dfg'.item = Absent THEN seen ELSE Append(seen, dfg'.item)
     /\ UNCHANGED <<rax, drops, it, goal>>

\* raxDefragReplaceData.  (raxDefragReplaceNode moves a node and changes the
\* link to it, which its path does not show.)
DefragReplaceData(v) ==
  LET f == Last(dfg.stack)
  IN /\ dfg # Absent /\ dfg.stack # <<>> /\ dfg.item # Absent
     /\ dfg.item[1] = "data" /\ v # Null
     /\ rax' = IF dfg.todel > 0 THEN [rax EXCEPT !.node[f.node].leaf[f.child] = v]
               ELSE SetData(rax, f.node, v)
     /\ UNCHANGED <<drops, it, goal, dfg, seen>>

\* raxDefragStop.
DefragStop ==
  /\ dfg # Absent
  /\ dfg' = Absent /\ seen' = <<>>
  /\ UNCHANGED <<rax, drops, it, goal>>

-----------------------------------------------------------------------------
Next ==
  \/ \E k \in Keys, v \in Values, ow \in BOOLEAN, mem \in 0..MaxMem : Insert(k, v, ow, mem)
  \/ \E k \in Keys, mem \in {0, 1} : Delete(k, mem)
  \/ Free \/ StartOver
  \/ \E op \in {">", ">=", "<", "<=", "="}, s \in Probes : StartAndSeek(op, s)
  \/ StartAndSeek("^", Root) \/ StartAndSeek("$", Root)
  \/ StepNext \/ StepPrev \/ Stop
  \/ \E v \in Values : IteratorSetData(v) \/ DefragReplaceData(v)
  \/ \E steps \in 1..MaxSteps : RandomWalk(steps)
  \/ WalkStep
  \/ DefragStart \/ DefragNext \/ DefragStop

Spec == Init /\ [][Next]_vars

-----------------------------------------------------------------------------
\* The order of keys, as memcmp and length give it, and raxCompare
Less(a, b) ==
  \/ IsStrictPrefix(a, b)
  \/ \E j \in 1..Len(a) : /\ j <= Len(b) /\ a[j] < b[j]
                          /\ \A l \in 1..(j - 1) : a[l] = b[l]
Compare(i, op, key) ==
  LET m == IF Len(i.key) < Len(key) THEN Len(i.key) ELSE Len(key)
      same == SubSeq(i.key, 1, m) = SubSeq(key, 1, m)
      gt == op \in {">", ">="}
      eq == op \in {"=", ">=", "<="}
  IN IF ~same THEN op # "=" /\ gt = Less(key, i.key)
     ELSE IF Len(i.key) = Len(key) THEN eq
     ELSE op # "=" /\ gt = (Len(i.key) > Len(key))

TypeOK ==
  /\ drops \in 0..MaxDrops
  /\ \A h \in DOMAIN rax.node : LET n == rax.node[h] IN
       /\ n.val \in Values \cup {NoKey} /\ n.compr \in BOOLEAN
       /\ DOMAIN n.leaf \subseteq Children(n) \cap 1..InlineSlots
       /\ \A k \in DOMAIN n.leaf : n.leaf[k] \in Values
  /\ it # Absent => it.child \in Nat /\ it.steps \in 0..MaxSteps /\ it.data \in Values

\* numnodes and numele count what is there, on every path through insertion
\* (out of memory included) and removal; raxFree asserts the first.  A key that
\* a failed insertion lost stays counted.
CountsExact ==
  /\ rax.numnodes = Cardinality(DOMAIN rax.node)
  /\ rax.numele = Cardinality(DOMAIN Stored(rax)) + drops

\* Splits, removals and recompression leave a tree: every node but the head is
\* the child of one parent, every child that is not a value in place exists,
\* edges are in order, a compressed node has two characters or more, and no
\* node without children is kept that is not a key.  The counts are right.
WellFormed ==
  /\ TypeOK /\ CountsExact
  /\ Root \in DOMAIN rax.node
  /\ \A h \in DOMAIN rax.node : LET n == rax.node[h] IN
       /\ \A k \in Children(n) \ DOMAIN n.leaf : ChildPath(rax, h, k) \in DOMAIN rax.node
       /\ n.compr \/ \A k \in 2..Size(n) : n.chars[k - 1] < n.chars[k]
       /\ n.compr => Size(n) > 1
       /\ Size(n) = 0 => IsKey(n) \/ h = Root
       /\ h # Root => LET p == Parent(rax, h)
                      IN \E k \in Children(rax.node[p]) \ DOMAIN rax.node[p].leaf :
                            ChildPath(rax, p, k) = h

\* A lookup walks to the value a key has in the tree, and to nothing for a
\* string that is not a key, however nodes were split and joined before, unless
\* a link on its way leads to freed memory.  (An iterator changes values only,
\* and its tree is looked at again once it stops.)
FindAgrees ==
  Idle => LET c == Contents(rax) IN
    \A s \in {s \in Probes \cup Keys : Reached(rax, s)} :
      RaxFind(rax, s) = IF s \in DOMAIN c THEN c[s] ELSE NotFound

\* An iterator that stands somewhere names a key and its value: key, rebuilt
\* from the edges walked, and node agree.
IteratorTrue ==
  (it # Absent /\ it.steps = 0 /\ ~it.eof) =>
     /\ it.key \in Held
     /\ it.data = Contents(rax)[it.key]
     /\ IF it.inl THEN it.key = ChildPath(rax, it.node, Slot(it)) ELSE it.key = it.node

\* raxSeek stops at the first key in the direction asked that raxCompare
\* accepts, and at the end when there is none.
SeekRight ==
  goal # Absent =>
    LET op == IF goal.op = "^" THEN ">=" ELSE IF goal.op = "$" THEN "<" ELSE goal.op
        fits(q) == goal.op \in {"^", "$"} \/ Compare([key |-> q], op, goal.ele)
        good == {q \in Held : fits(q)}
    IN IF good = {} THEN it.eof
       ELSE /\ ~it.eof /\ it.key \in good
            /\ \A q \in good : q = it.key \/ (IF op \in {"<", "<="} THEN Less(q, it.key) ELSE Less(it.key, q))

\* Whatever the nodes went through, a lookup, a standing iterator and a seek
\* answer as the set of keys does (raxFind, raxIterator, raxSeek).
ReadsAgree == FindAgrees /\ IteratorTrue /\ SeekRight

\* A step goes to the key next in order, not past one and not twice to the
\* same, and at the last key to the end.  Excepted are steps back after a walk
\* that ended on a node it reached from an inline leaf below it.
Neighbour(up) ==
  LET beyond == {q \in Held : IF up THEN Less(it.key, q) ELSE Less(q, it.key)}
  IN IF it.eof THEN it' = it
     ELSE IF it.just THEN it'.key = it.key /\ ~it'.just
     ELSE IF beyond = {} THEN it'.eof /\ it'.key = it.key
     ELSE /\ ~it'.eof /\ it'.key \in beyond
          /\ \A q \in beyond : q = it'.key \/ (IF up THEN Less(it'.key, q) ELSE Less(q, it'.key))
StepsInOrder == [][(StepNext => Neighbour(TRUE)) /\ (StepPrev /\ ~it.loose => Neighbour(FALSE))]_vars

\* The comment on node_child (rax.h): it is the index of the current node in
\* its parent, or of the inline leaf, or unknown.
NodeChildTrue ==
  (it # Absent /\ it.steps = 0 /\ ~it.eof /\ it.child # 0 /\ ~it.inl) =>
     /\ it.node # Root
     /\ LET p == Parent(rax, it.node)
        IN it.child \in Children(rax.node[p]) /\ ChildPath(rax, p, it.child) = it.node

\* A defragmentation yields every node and every value that is not Null, under
\* its own key, exactly once, also when values are replaced on the way.
DefragComplete ==
  dfg # Absent =>
    LET all == {<<"node", h>> : h \in DOMAIN rax.node}
               \cup {<<"data", q>> : q \in {q \in Held : Contents(rax)[q] # Null}}
    IN /\ ToSet(seen) \subseteq all
       /\ Cardinality(ToSet(seen)) = Len(seen)
       /\ dfg.stack = <<>> => ToSet(seen) = all

\* The comment on raxAddChild (rax.c): "On out of memory NULL is returned, and
\* the old node is still valid", so that no failed insertion leaves a link to
\* memory that its realloc has freed.
OldNodeValid == Intact

\* The tree is a map: each operation has the effect on keys and values its name
\* promises, whatever it does to the nodes.  What a failed insertion can lose
\* is what Dictionary says, the keys below a node it moved included.
Map == INSTANCE Dictionary WITH Key <- Keys, Value <- Values, dict <- Contents(rax),
                                broken <- ~Intact
ImplementsMap == Map!Spec
=============================================================================
