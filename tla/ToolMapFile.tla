---------------------------- MODULE ToolMapFile ----------------------------
(***************************************************************************)
(* The tool map at the end of one KV cache file (ds4_server.c): a header   *)
(* with a record count, then for every tool call id its DSML block.  The   *)
(* worker writes it again in place whenever a prefix that is already on    *)
(* disk is stored once more; client threads read it while they parse a     *)
(* request, with no lock between the two, and put what they read in the    *)
(* tool memory, from where the next rewrite takes it.  The process may die *)
(* at any point of the rewrite.                                            *)
(*                                                                         *)
(* Records have one size (ids have one length, so this is the case of      *)
(* blocks of one length), and a record is two cells, its id and its text.  *)
(* stdio fetches the map into the reader's buffer in two refills that meet *)
(* at any cell; a write is flushed in two pieces likewise.                 *)
(***************************************************************************)
EXTENDS Integers, Sequences, FiniteSets, SequencesExt, FiniteSetsExt

CONSTANTS
    CallId,      \* tool call ids
    Text,        \* the blocks in the text of the file, in text order
    NoBlock

ASSUME TextAssumption == Text \in Seq(ToSet(Text)) /\ NoBlock \notin CallId \cup ToSet(Text)

VARIABLES
    issued,    \* the block each id was issued for
    users,     \* block->entries: the ids of each block, newest first
    file,      \* KV_EXT_TOOL_MAP, and the map: a record count (0: no map) and the cells
    worker,    \* the rewrite: where it is and the cells it has left to write
    reader,    \* a client thread: where it is, the count and cells it fetched, and
               \* whether a rewrite overlapped the fetch
    torn       \* history: ids that an overlapped read paired with another block

mapVars == <<issued, users, file, worker, reader, torn>>

Blocks == ToSet(Text)

(* kv_tool_map_write: the entries of every block of the text, in order.    *)
Records == FlattenSeq([n \in DOMAIN Text |->
               [k \in DOMAIN users[Text[n]] |-> <<users[Text[n]][k], Text[n]>>]])
Cells   == FlattenSeq([k \in DOMAIN Records |-> Records[k]])

Idle       == [pc |-> "idle", count |-> 0, cells |-> <<>>]
NotReading == [pc |-> "idle", count |-> 0, cells |-> <<>>, overlapped |-> FALSE]

MapInit ==
    /\ issued = [i \in CallId |-> NoBlock]
    /\ users = [b \in Blocks |-> <<>>]
    /\ file = [flag |-> FALSE, count |-> 0, cells |-> <<>>]
    /\ worker = Idle
    /\ reader = NotReading
    /\ torn = {}

-----------------------------------------------------------------------------
(* The tool memory (its lists only; ToolMemory has the rest): a generated  *)
(* call gets a fresh id for its block, an id is evicted.                   *)

Issue(i, b) ==
    /\ issued[i] = NoBlock
    /\ issued' = [issued EXCEPT ![i] = b]
    /\ users' = [users EXCEPT ![b] = <<i>> \o @]
    /\ UNCHANGED <<file, worker, reader, torn>>

Evict(i, b) ==
    /\ \E k \in DOMAIN users[b] :
        users[b][k] = i /\ users' = [users EXCEPT ![b] = RemoveAt(@, k)]
    /\ UNCHANGED <<issued, file, worker, reader, torn>>

-----------------------------------------------------------------------------
(* A client that is between two refills reads some of the old map and some *)
(* of what follows.                                                        *)
Overlaps == reader' = IF reader.pc = "read" THEN [reader EXCEPT !.overlapped = TRUE] ELSE reader

(* Mutant: the worker writes over the old map and cuts the rest off later. *)
TruncateLater ==
    /\ worker.pc = "idle"
    /\ Records # <<>>
    /\ worker' = [Idle EXCEPT !.pc = "cut"]
    /\ Overlaps
    /\ UNCHANGED <<issued, users, file, torn>>

(* kv_cache_rewrite_tool_map: cut the file at the end of the payload, then *)
(* write what the tool memory knows now, all of it under tool_mu.          *)
Truncate ==
    /\ worker.pc = "idle"
    /\ Records # <<>>
    /\ worker' = [Idle EXCEPT !.pc = "cut"]
    /\ file' = [file EXCEPT !.count = 0, !.cells = <<>>]
    /\ Overlaps
    /\ UNCHANGED <<issued, users, torn>>

(* The first piece that reaches the file; no record at all when the memory *)
(* has forgotten the blocks since it was asked whether it knows any.       *)
WriteFirst(n) ==
    /\ worker.pc = "cut"
    /\ n \in 0..Len(Cells)
    /\ worker' = [pc |-> "write", count |-> Len(Records), cells |-> SubSeq(Cells, n + 1, Len(Cells))]
    /\ file' = IF Records = <<>> THEN file
               ELSE [file EXCEPT !.count = Len(Records),
                                 !.cells = SubSeq(Cells, 1, n) \o SubSeq(@, n + 1, Len(@))]
    /\ UNCHANGED <<issued, users, reader, torn>>

WriteRest ==
    /\ worker.pc = "write"
    /\ worker' = IF worker.count = 0 THEN Idle ELSE [Idle EXCEPT !.pc = "flag"]
    /\ file' = IF worker.count = 0 THEN file
               ELSE [file EXCEPT !.cells = SubSeq(@, 1, (2 * worker.count) - Len(worker.cells))
                                           \o worker.cells]
    /\ UNCHANGED <<issued, users, reader, torn>>

(* The header goes last, with the flag that makes the map visible.         *)
SetFlag ==
    /\ worker.pc = "flag"
    /\ worker' = Idle
    /\ file' = [file EXCEPT !.flag = TRUE]
    /\ UNCHANGED <<issued, users, reader, torn>>

(* A write fails (a full disk): the worker closes the file as it is.       *)
RewriteFails ==
    /\ worker.pc # "idle"
    /\ worker' = Idle
    /\ UNCHANGED <<issued, users, file, reader, torn>>

(* A crash: what was flushed stays, the tool memory is lost.               *)
Crash ==
    /\ worker' = Idle
    /\ reader' = NotReading
    /\ users' = [b \in Blocks |-> <<>>]
    /\ UNCHANGED <<issued, file, torn>>

-----------------------------------------------------------------------------
(* kv_tool_map_load_from_pos: the count and the first cells, then the      *)
(* rest; a short read ends the loop at the last complete record.  The load *)
(* of the worker itself, between two requests, is a read no rewrite        *)
(* overlaps.                                                               *)
ReadFirst(n) ==
    /\ reader.pc = "idle"
    /\ file.flag /\ file.count # 0
    /\ n \in 0..Len(file.cells)
    /\ reader' = [pc |-> "read", count |-> file.count, cells |-> SubSeq(file.cells, 1, n),
                  overlapped |-> worker.pc # "idle"]
    /\ UNCHANGED <<issued, users, file, worker, torn>>

Fetched ==
    LET n == Len(reader.cells) IN reader.cells \o SubSeq(file.cells, n + 1, Len(file.cells))

ReadRest ==
    /\ reader.pc = "read"
    /\ LET n == Min({reader.count, Len(Fetched) \div 2})
       IN  reader' = IF n = 0 THEN NotReading
                     ELSE [pc |-> "put", count |-> n, cells |-> Fetched,
                           overlapped |-> reader.overlapped]
    /\ UNCHANGED <<issued, users, file, worker, torn>>

(* tool_memory_put: a known id moves to the block it is put with.          *)
Without(s, i) == IF i \in ToSet(s) THEN RemoveAt(s, CHOOSE k \in DOMAIN s : s[k] = i) ELSE s

PutIn(i, b) ==
    IF b \in Blocks /\ i \in ToSet(users[b]) THEN users
    ELSE [d \in Blocks |-> IF d = b THEN <<i>> \o users[d] ELSE Without(users[d], i)]

(* The next record is put in the memory if the client looks for its id.    *)
PutRecord ==
    /\ reader.pc = "put"
    /\ LET i == reader.cells[1]
           b == reader.cells[2]
       IN  \/ UNCHANGED <<users, torn>>
           \/ /\ i \in CallId
              /\ users' = PutIn(i, b)
              /\ torn' = IF reader.overlapped /\ b # issued[i] THEN torn \cup {i} ELSE torn
    /\ reader' = IF reader.count = 1 THEN NotReading
                 ELSE [reader EXCEPT !.count = @ - 1, !.cells = Tail(Tail(@))]
    /\ UNCHANGED <<issued, file, worker>>

MapNext ==
    \/ \E i \in CallId, b \in Blocks : Issue(i, b) \/ Evict(i, b)
    \/ Truncate \/ WriteRest \/ SetFlag \/ RewriteFails \/ Crash
    \/ ReadRest \/ PutRecord
    \/ \E n \in 0..(2 * Cardinality(CallId)) : WriteFirst(n) \/ ReadFirst(n)

MapSpec == MapInit /\ [][MapNext]_mapVars

-----------------------------------------------------------------------------
MapTypeOK ==
    /\ issued \in [CallId -> Blocks \cup {NoBlock}]
    /\ users \in [Blocks -> Seq(CallId)]
    /\ file.flag \in BOOLEAN
    /\ file.cells \in Seq(CallId \cup Blocks)
    /\ file.count \in 0..Cardinality(CallId)
    /\ worker.pc \in {"idle", "cut", "write", "flag"}
    /\ reader.pc \in {"idle", "read", "put"}
    /\ torn \in SUBSET CallId

(* The memory pairs each id with the block it was issued for, and so does  *)
(* a client's replayed message, after evictions, failed writes and crashes *)
(* and when what it holds was itself read from disk.  The one exception is *)
(* a read that a rewrite overlaps: an id it has once paired with another   *)
(* block may come back with that block for good, because the next rewrite  *)
(* writes what the memory holds.                                           *)
RestoredIsGenuine ==
    \A b \in Blocks : \A i \in ToSet(users[b]) : issued[i] = b \/ i \in torn

(* No read is torn: an id comes back from disk with the text it was        *)
(* sampled with.  Clients and worker share no lock on the file, and it     *)
(* does not hold.                                                          *)
NoneTorn == torn = {}
=============================================================================
