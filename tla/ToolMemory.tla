----------------------------- MODULE ToolMemory -----------------------------
(***************************************************************************)
(* The tool call text memory of ds4_server.c.  The model speaks DSML, the  *)
(* clients speak JSON; for every generated tool call the server remembers  *)
(* the exact DSML block the model sampled, under the random id it gave the *)
(* call.  When a client sends the id back in its history the block is      *)
(* replayed verbatim.  One block may stand for several ids (a message with *)
(* several calls, or the same text sampled twice).                         *)
(*                                                                         *)
(* The memory is an id map, an LRU list, a block map with reference counts *)
(* and a byte count, all under tool_mu.  The worker remembers and loads;   *)
(* client threads load records from the disk cache and attach blocks while *)
(* they parse a request.  What one thread does while it holds tool_mu is   *)
(* split into steps (each put, each eviction, each lookup), so that the    *)
(* invariants are checked inside a critical section too.                   *)
(*                                                                         *)
(* A message's text and the DSML blocks are model values.  The records on  *)
(* disk are a set of (id, block) pairs: a new file appears with all of its *)
(* records by one rename.  The map of an old file is cut and written again *)
(* in place, flush by flush, and a client's reads that such a step falls   *)
(* between may pair an id with another's text (ToolMapFile has the file    *)
(* itself; a splice of two texts counts as one of them).                   *)
(* Where an entry came from (its source) is only logged and left out.      *)
(* --disable-exact-dsml-tool-replay turns every operation into a no-op and *)
(* is not modelled.                                                        *)
(***************************************************************************)
EXTENDS Integers, Sequences, FiniteSets, SequencesExt

CONSTANTS
    Client,      \* client threads
    Worker,      \* the generation thread
    Id,          \* tool call ids
    Block,       \* DSML block texts
    None,        \* no block (NULL), no thread
    MaxEntries,  \* tool_memory_max_entries
    MaxBytes,    \* tool_memory_max_bytes
    EntryBytes,  \* what one entry is charged
    BlockBytes,  \* what each block is charged
    MaxCalls,    \* bound: calls in one assistant message
    MaxAstray    \* bound: ids that overlapped reads pair with another block

ASSUME ThreadAssumption == Worker \notin Client /\ None \notin Client \cup {Worker}
ASSUME BlockAssumption  == None \notin Block /\ IsFiniteSet(Id)
ASSUME SizeAssumption   ==
    /\ MaxEntries \in Nat /\ MaxBytes \in Nat /\ EntryBytes \in Nat
    /\ BlockBytes \in [Block -> Nat] /\ MaxCalls \in Nat /\ MaxAstray \in Nat

VARIABLES
    mem,      \* struct tool_memory
    op,       \* the thread that holds tool_mu and what it has left to do
    disk,     \* the (id, block) records in KV cache files
    pc,       \* where each client thread is
    msg,      \* the call ids of the assistant message it parses
    want,     \* the ids it has still to look for on disk
    overlaps, \* the worker wrote between its reads
    reply,    \* raw_dsml after attach
    sampled,  \* history: the block each id was issued for
    astray,   \* history: ids an overlapped read has paired with another block
    recency   \* history: ids by last use, newest first, evicted ones included

parse == <<pc, msg, want, overlaps, reply>>
past  == <<sampled, astray>>
vars  == <<mem, op, disk, parse, past, recency>>

Thread == Client \cup {Worker}
Calls  == UNION {[1..n -> Id] : n \in 1..MaxCalls}

NoMem  == [lru |-> <<>>, block |-> [i \in Id |-> None],
           users |-> [b \in Block |-> {}], refs |-> [b \in Block |-> 0],
           blocks |-> {}, entries |-> 0, bytes |-> 0]
Memory == [lru : Seq(Id), block : [Id -> Block \cup {None}],
           users : [Block -> SUBSET Id], refs : [Block -> Nat],
           blocks : SUBSET Block, entries : Nat, bytes : Nat]
Free   == [who |-> None, kind |-> "none", todo |-> <<>>, block |-> None, exact |-> TRUE]

-----------------------------------------------------------------------------
(* The list and the maps.                                                  *)

Position(s, x) == CHOOSE i \in 1..Len(s) : s[i] = x
Unlink(s, x)   == RemoveAt(s, Position(s, x))
ToHead(s, x)   == <<x>> \o (IF x \in ToSet(s) THEN Unlink(s, x) ELSE s)

(* Mutant: a lookup leaves the entry where it is in the list.              *)
TouchNoMove(m, i) == m

Touch(m, i) == [m EXCEPT !.lru = ToHead(@, i)]

Minus(a, b) == IF a >= b THEN a - b ELSE 0

(* Mutant: the text of a block that lost its last id stays charged.        *)
RemoveEntryKeepBytes(m, i) ==
    LET b == m.block[i]
    IN  [m EXCEPT !.lru = Unlink(@, i), !.block[i] = None,
                  !.users[b] = @ \ {i}, !.refs[b] = @ - 1,
                  !.blocks = IF m.refs[b] > 1 THEN @ ELSE @ \ {b},
                  !.entries = @ - 1, !.bytes = Minus(@, EntryBytes)]

(* Mutant: removing an id frees its block whoever else refers to it.       *)
RemoveEntryFreesBlock(m, i) ==
    LET b == m.block[i]
    IN  [m EXCEPT !.lru = Unlink(@, i), !.block[i] = None,
                  !.users[b] = @ \ {i}, !.refs[b] = @ - 1,
                  !.blocks = @ \ {b}, !.entries = @ - 1,
                  !.bytes = Minus(Minus(@, EntryBytes), BlockBytes[b])]

RemoveEntry(m, i) ==
    LET b    == m.block[i]
        last == m.refs[b] = 1
        n    == Minus(m.bytes, EntryBytes)
    IN  [lru     |-> Unlink(m.lru, i),
         block   |-> [m.block EXCEPT ![i] = None],
         users   |-> [m.users EXCEPT ![b] = @ \ {i}],
         refs    |-> [m.refs EXCEPT ![b] = @ - 1],
         blocks  |-> IF last THEN m.blocks \ {b} ELSE m.blocks,
         entries |-> Minus(m.entries, 1),
         bytes   |-> IF last THEN Minus(n, BlockBytes[b]) ELSE n]

Insert(m, i, b) ==
    [lru     |-> <<i>> \o m.lru,
     block   |-> [m.block EXCEPT ![i] = b],
     users   |-> [m.users EXCEPT ![b] = @ \cup {i}],
     refs    |-> [m.refs EXCEPT ![b] = @ + 1],
     blocks  |-> m.blocks \cup {b},
     entries |-> m.entries + 1,
     bytes   |-> (m.bytes + EntryBytes) + (IF b \in m.blocks THEN 0 ELSE BlockBytes[b])]

(* Only a read gone astray brings a known id with another block.           *)
Put(m, i, b) ==
    IF m.block[i] = b
    THEN Touch(m, i)
    ELSE Insert(IF m.block[i] = None THEN m ELSE RemoveEntry(m, i), i, b)

Over(m) == (m.entries > MaxEntries \/ m.bytes > MaxBytes) /\ m.lru # <<>>

Used(i) == recency' = ToHead(recency, i)

-----------------------------------------------------------------------------
Init ==
    /\ mem = NoMem
    /\ op = Free
    /\ disk = {}
    /\ pc = [c \in Client |-> "idle"]
    /\ msg = [c \in Client |-> <<>>]
    /\ want = [c \in Client |-> {}]
    /\ overlaps = [c \in Client |-> FALSE]
    /\ reply = [c \in Client |-> None]
    /\ sampled = [i \in Id |-> None]
    /\ astray = {}
    /\ recency = <<>>

LockFree == op.who = None

BeginPut(t, ids, b) ==
    /\ LockFree
    /\ op' = [Free EXCEPT !.who = t, !.kind = "put", !.todo = ids, !.block = b]

(* tool_memory_remember: the calls of one generated message, under fresh   *)
(* ids, with the one block they were parsed from.                          *)
Remember(ids, b) ==
    /\ \A k \in DOMAIN ids : sampled[ids[k]] = None
    /\ \A k, l \in DOMAIN ids : ids[k] = ids[l] => k = l
    /\ BeginPut(Worker, ids, b)
    /\ sampled' = [i \in Id |-> IF \E k \in DOMAIN ids : ids[k] = i THEN b ELSE sampled[i]]
    /\ UNCHANGED <<mem, disk, parse, astray, recency>>

(* kv_tool_map_load_from_pos(NULL) of a KV file the worker just loaded.    *)
WorkerLoads(i, b) ==
    /\ <<i, b>> \in disk
    /\ BeginPut(Worker, <<i>>, b)
    /\ UNCHANGED <<mem, disk, parse, past, recency>>

(* tool_memory_put_locked, one call of the list.                           *)
PutStep ==
    /\ op.kind = "put" /\ op.todo # <<>> /\ ~Over(mem)
    /\ mem' = Put(mem, Head(op.todo), op.block)
    /\ Used(Head(op.todo))
    /\ op' = [op EXCEPT !.todo = Tail(@)]
    /\ UNCHANGED <<disk, parse, past>>

(* tool_memory_prune_locked, one turn of its loop.                         *)
PruneStep ==
    /\ op.kind = "put" /\ Over(mem)
    /\ mem' = RemoveEntry(mem, mem.lru[Len(mem.lru)])
    /\ UNCHANGED <<op, disk, parse, past, recency>>

PutDone ==
    /\ op.kind = "put" /\ op.todo = <<>> /\ ~Over(mem)
    /\ op' = Free
    /\ UNCHANGED <<mem, disk, parse, past, recency>>

-----------------------------------------------------------------------------
(* A client thread parses a chat request: it looks on disk for the ids of  *)
(* its messages, each record found being a put of its own, and then        *)
(* attaches blocks to the messages in one critical section.                *)

Parse(c, ids) ==
    /\ pc[c] = "idle"
    /\ pc' = [pc EXCEPT ![c] = "restore"]
    /\ msg' = [msg EXCEPT ![c] = ids]
    /\ want' = [want EXCEPT ![c] = {ids[k] : k \in DOMAIN ids}]
    /\ overlaps' = [overlaps EXCEPT ![c] = FALSE]
    /\ reply' = [reply EXCEPT ![c] = None]
    /\ UNCHANGED <<mem, op, disk, past, recency>>

(* A complete record; other files may hold the id too.                     *)
RestoreFound(c, i, b) ==
    /\ pc[c] = "restore" /\ i \in want[c] /\ <<i, b>> \in disk
    /\ BeginPut(c, <<i>>, b)
    /\ want' \in {want, [want EXCEPT ![c] = @ \ {i}]}
    /\ UNCHANGED <<mem, disk, pc, msg, overlaps, reply, past, recency>>

(* A record that begins in the old map and ends in the new one, with the   *)
(* text of another id.                                                     *)
RestoreTorn(c, i, b) ==
    /\ pc[c] = "restore" /\ i \in want[c] /\ overlaps[c]
    /\ sampled[i] \notin {None, b} /\ \E j \in Id : sampled[j] = b
    /\ Cardinality(astray \cup {i}) <= MaxAstray
    /\ BeginPut(c, <<i>>, b)
    /\ want' \in {want, [want EXCEPT ![c] = @ \ {i}]}
    /\ astray' = astray \cup {i}
    /\ UNCHANGED <<mem, disk, pc, msg, overlaps, reply, sampled, recency>>

(* No record is left that holds the id, or a rewrite hides those there are. *)
RestoreMissing(c, i) ==
    /\ pc[c] = "restore" /\ i \in want[c]
    /\ overlaps[c] \/ \A b \in Block : <<i, b>> \notin disk
    /\ want' = [want EXCEPT ![c] = @ \ {i}]
    /\ UNCHANGED <<mem, op, disk, pc, msg, overlaps, reply, past, recency>>

BeginAttach(c) ==
    /\ pc[c] = "restore" /\ want[c] = {} /\ LockFree
    /\ op' = [Free EXCEPT !.who = c, !.kind = "attach", !.todo = msg[c]]
    /\ pc' = [pc EXCEPT ![c] = "attach"]
    /\ overlaps' = [overlaps EXCEPT ![c] = FALSE]
    /\ UNCHANGED <<mem, disk, msg, want, reply, past, recency>>

(* Mutant: the calls of a message need not come from one block.            *)
LookupStepAnyBlock ==
    /\ op.kind = "attach" /\ op.todo # <<>>
    /\ LET i == Head(op.todo)
           b == mem.block[i]
       IN  IF b = None
           THEN /\ op' = [op EXCEPT !.todo = Tail(@), !.exact = FALSE]
                /\ UNCHANGED <<mem, recency>>
           ELSE /\ op' = [op EXCEPT !.todo = Tail(@), !.block = IF @ = None THEN b ELSE @]
                /\ mem' = Touch(mem, i) /\ Used(i)
    /\ UNCHANGED <<disk, parse, past>>

(* Mutant: the first block found counts as a mismatch with none.           *)
LookupStepFirstMismatch ==
    /\ op.kind = "attach" /\ op.todo # <<>>
    /\ LET i == Head(op.todo)
           b == mem.block[i]
       IN  IF b = None
           THEN /\ op' = [op EXCEPT !.todo = Tail(@), !.exact = FALSE]
                /\ UNCHANGED <<mem, recency>>
           ELSE /\ op' = [op EXCEPT !.todo = Tail(@), !.block = b,
                                    !.exact = @ /\ op.block = b]
                /\ mem' = Touch(mem, i) /\ Used(i)
    /\ UNCHANGED <<disk, parse, past>>

(* tool_memory_lookup_locked for the next call of the message.             *)
LookupStep ==
    /\ op.kind = "attach" /\ op.todo # <<>>
    /\ LET i == Head(op.todo)
           b == mem.block[i]
       IN  IF b = None
           THEN /\ op' = [op EXCEPT !.todo = Tail(@), !.exact = FALSE]
                /\ UNCHANGED <<mem, recency>>
           ELSE /\ op' = [op EXCEPT !.todo = Tail(@),
                                    !.block = IF @ = None THEN b ELSE @,
                                    !.exact = @ /\ op.block \in {None, b}]
                /\ mem' = Touch(mem, i) /\ Used(i)
    /\ UNCHANGED <<disk, parse, past>>

AttachDone(c) ==
    /\ op.kind = "attach" /\ op.who = c /\ op.todo = <<>>
    /\ reply' = [reply EXCEPT ![c] = IF op.exact THEN op.block ELSE None]
    /\ op' = Free
    /\ pc' = [pc EXCEPT ![c] = "done"]
    /\ UNCHANGED <<mem, disk, msg, want, overlaps, past, recency>>

Answered(c) ==
    /\ pc[c] = "done"
    /\ pc' = [pc EXCEPT ![c] = "idle"]
    /\ msg' = [msg EXCEPT ![c] = <<>>]
    /\ reply' = [reply EXCEPT ![c] = None]
    /\ UNCHANGED <<mem, op, disk, want, overlaps, past, recency>>

-----------------------------------------------------------------------------
(* A step on a file that takes or loses its name as a whole leaves the     *)
(* reads of a client alone; a step of kv_cache_rewrite_tool_map overlaps   *)
(* those in progress.                                                      *)
MayOverlap ==
    overlaps' \in {overlaps} \cup
        (IF Cardinality(astray) < MaxAstray
         THEN {[c \in Client |-> overlaps[c] \/ pc[c] = "restore"]} ELSE {})

(* kv_tool_map_write, of a new file or again of an old one: its text holds *)
(* the blocks bs, and every id of those blocks gets a record.              *)
StoreMap(bs) ==
    /\ LockFree
    /\ disk' = disk \cup UNION {mem.users[b] \X {b} : b \in bs}
    /\ MayOverlap
    /\ UNCHANGED <<mem, op, pc, msg, want, reply, past, recency>>

(* The file with this record is evicted, or cut for a new map.             *)
RecordLost(i, b) ==
    /\ <<i, b>> \in disk
    /\ disk' = disk \ {<<i, b>>}
    /\ MayOverlap
    /\ UNCHANGED <<mem, op, pc, msg, want, reply, past, recency>>

(* The server stops or dies and starts again with the files it has.        *)
Restart ==
    /\ mem' = NoMem
    /\ op' = Free
    /\ pc' = [c \in Client |-> "idle"]
    /\ msg' = [c \in Client |-> <<>>]
    /\ want' = [c \in Client |-> {}]
    /\ overlaps' = [c \in Client |-> FALSE]
    /\ reply' = [c \in Client |-> None]
    /\ recency' = <<>>
    /\ UNCHANGED <<disk, past>>

Next ==
    \/ \E ids \in Calls, b \in Block : Remember(ids, b)
    \/ \E i \in Id, b \in Block : WorkerLoads(i, b) \/ RecordLost(i, b)
    \/ PutStep \/ PruneStep \/ PutDone
    \/ \E c \in Client :
        \/ \E ids \in Calls : Parse(c, ids)
        \/ \E i \in Id, b \in Block : RestoreFound(c, i, b) \/ RestoreTorn(c, i, b)
        \/ \E i \in Id : RestoreMissing(c, i)
        \/ BeginAttach(c) \/ AttachDone(c) \/ Answered(c)
    \/ LookupStep
    \/ \E bs \in SUBSET mem.blocks : StoreMap(bs)
    \/ Restart

Spec == Init /\ [][Next]_vars

-----------------------------------------------------------------------------
TypeOK ==
    /\ mem \in Memory
    /\ op \in [who : Thread \cup {None}, kind : {"none", "put", "attach"}, todo : Seq(Id),
               block : Block \cup {None}, exact : BOOLEAN]
    /\ disk \in SUBSET (Id \X Block)
    /\ pc \in [Client -> {"idle", "restore", "attach", "done"}]
    /\ msg \in [Client -> Seq(Id)]
    /\ want \in [Client -> SUBSET Id]
    /\ overlaps \in [Client -> BOOLEAN]
    /\ reply \in [Client -> Block \cup {None}]
    /\ astray \in SUBSET Id
    /\ sampled \in [Id -> Block \cup {None}]
    /\ recency \in Seq(Id)

(* The LRU list, the id map and the block map describe the same entries:   *)
(* the list holds each known id once, a block's entry list and its         *)
(* reference count are the ids that map to it, a block is in the block map *)
(* exactly while some id maps to it, and m->entries is the list's length.  *)
(* A block freed too early, or an entry left in one of the structures,     *)
(* breaks it.                                                              *)
Agree(m) ==
    /\ IsInjective(m.lru)
    /\ ToSet(m.lru) = {i \in Id : m.block[i] # None}
    /\ \A b \in Block : /\ m.users[b] = {i \in Id : m.block[i] = b}
                        /\ m.refs[b] = Cardinality(m.users[b])
                        /\ b \in m.blocks <=> m.users[b] # {}
    /\ m.entries = Len(m.lru)

IndexesAgree == Agree(mem)

(* The incremental byte count is the sum it stands for, every block text   *)
(* counted once: prune compares it with the budget, and a drift would      *)
(* empty the memory or let it grow for ever.                               *)
BytesExact ==
    mem.bytes = Len(mem.lru) * EntryBytes + SumFunctionOnSet(BlockBytes, mem.blocks)

(* Whenever tool_mu is free, both budgets hold, as counted and in fact.    *)
WithinBudget ==
    /\ BytesExact
    /\ LockFree => mem.entries <= MaxEntries /\ mem.bytes <= MaxBytes

(* What is kept is what was used last: the list is a prefix of the ids by  *)
(* last use, so no id was evicted while an older one stayed, whichever of  *)
(* the two budgets forced the eviction.                                    *)
KeepsMostRecent == IsPrefix(mem.lru, recency)

(* A block attached to a client's message is the one the model sampled for *)
(* every call of that message, after any sequence of evictions, restarts   *)
(* and loads from disk, but for ids that a read which a rewrite overlapped *)
(* has paired with another text: that text is replayed, written to disk    *)
(* and loaded again like a sampled one.                                    *)
ReplayIsVerbatim ==
    \A c \in Client : reply[c] # None =>
        \A k \in DOMAIN msg[c] :
            sampled[msg[c][k]] = reply[c] \/ msg[c][k] \in astray

(* The critical section of attach answers from the memory as it was on     *)
(* entry: a message is replayed exactly when all its ids are known and map *)
(* to one block.  Lookups of one call never cost another call its entry.   *)
AttachAnswers ==
    [][\A c \in Client : (pc[c] = "attach" /\ pc'[c] = "done") =>
          (reply'[c] # None <=>
              \E b \in Block : \A k \in DOMAIN msg[c] : mem.block[msg[c][k]] = b)]_vars
=============================================================================
