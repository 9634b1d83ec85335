----------------------------- MODULE DiskCache -----------------------------
(***************************************************************************)
(* The disk KV cache of ds4_server.c: snapshots of the live session, one   *)
(* file per token prefix, named by the SHA1 of its tokens and here by the  *)
(* tokens themselves.  A store is a routine of several steps, between      *)
(* which the process may die: the checks, the removal of an incompatible   *)
(* file, the write of a temporary file and its rename, and the evictions   *)
(* that bring the directory back under its budget.                         *)
(*                                                                         *)
(* Of the reason a file was written for only "continued" has consequences. *)
(* A file is as long as its tokens, Overhead and its tool map together.    *)
(* What the map holds is the tool memory's affair (ToolMapFile): here it   *)
(* is as long as it likes, and may be written again with another length    *)
(* when its prefix is stored once more.  Among files of least value the    *)
(* code takes the one used longest ago; here any of them goes.             *)
(* Temporary files a crash leaves behind are never counted nor removed and *)
(* are not modelled.  Nor are unreadable files, which the code skips and   *)
(* overwrites.                                                             *)
(***************************************************************************)
EXTENDS LiveSession, FiniteSetsExt

CONSTANTS
    MinTokens, ColdMax, Interval, Trim, Align,   \* kv_cache_options
    Budget,        \* budget_bytes
    RejectQuant,   \* --kv-cache-reject-different-quant
    Overhead,      \* bytes of a file besides its tokens and its tool map
    MaxMap,        \* bound: bytes of a tool map
    MaxHits,       \* bound: where the hit counter saturates
    MaxExcess      \* bound: bytes over the budget that unlinks and rewrites leave

ASSUME OptionAssumption ==
    /\ MinTokens \in Nat \ {0} /\ ColdMax \in Nat /\ Interval \in Nat
    /\ Trim \in Nat /\ Align \in Nat /\ Budget \in Nat /\ RejectQuant \in BOOLEAN
    /\ Overhead \in Nat \ {0} /\ MaxMap \in Nat /\ MaxHits \in Nat /\ MaxExcess \in Nat

VARIABLES
    file,       \* [token prefix -> header and payload] for the files there are
    store,      \* kv_cache_store_live_prefix: the step it is at and its result
    lastStore,  \* continued_last_store_tokens
    excess      \* history: bytes that failing unlinks left over the budget, and that
                \* rewritten tool maps have added since

cache == <<file, store, lastStore, excess>>

Reasons == {"none", "cold", "continued", "evict", "shutdown"}
Entry   == [ctx : Nat, cap : Nat, quant : {2, 4}, continued : BOOLEAN, hits : Nat,
            map : 0..MaxMap, graph : Rows, logits : Rows]
Store   == [step : {"off", "check", "write", "evict"}, name : Tokens, live : Tokens,
            reason : Reasons, result : {"none", "refused", "failed", "kept", "stored"},
            dropped : SUBSET Tokens]

CacheTypeOK ==
    /\ DOMAIN file \subseteq Tokens /\ \A n \in DOMAIN file : file[n] \in Entry
    /\ store \in Store /\ lastStore \in Nat /\ excess \in Nat

Storing == store.step # "off"
NoStore == [step |-> "off", name |-> <<>>, live |-> <<>>, reason |-> "none",
            result |-> "none", dropped |-> {}]

Stores(name, reason) ==
    [NoStore EXCEPT !.step = "check", !.name = name, !.live = checkpoint, !.reason = reason]

Without(name) == [n \in DOMAIN file \ {name} |-> file[n]]

-----------------------------------------------------------------------------
(* Which files this server may use, by their headers.                      *)
Compatible(e) == (RejectQuant => e.quant = config.quant) /\ e.ctx <= config.ctx

(* Which payloads ds4_session_load_payload accepts.                        *)
Loadable(n, e) == Compatible(e) /\ Len(n) < config.ctx /\ e.cap = config.cap

Candidates(p) ==
    {n \in DOMAIN file : IsPrefix(n, p) /\ Len(n) >= MinTokens /\ Compatible(file[n])}

Longest(names) == {n \in names : \A m \in names : Len(m) <= Len(n)}

(* kv_cache_store_len: where a cold prompt is cut for its snapshot.        *)
StoreLen(n) ==
    LET stable == IF Align > 0 THEN (n - Trim) - ((n - Trim) % Align) ELSE n - Trim
    IN  IF n > MinTokens + Trim /\ stable >= MinTokens THEN stable ELSE n

-----------------------------------------------------------------------------
(* Eviction: (hits + 1) tokens per byte, a continued snapshot that is a    *)
(* strict prefix of the live session at 0.02 (0.25 once hit) of it times   *)
(* its depth.  Values are fractions <<numerator, denominator>>.            *)
Bytes == [n \in DOMAIN file |-> Len(n) + Overhead + file[n].map]

DirBytes == SumFunctionOnSet(Bytes, DOMAIN file)

LivePrefix(n, live) ==
    file[n].continued /\ IsStrictPrefix(n, live)

(* Mutant: continued snapshots are judged like all others.                 *)
ValueFlat(n, live) == <<(file[n].hits + 1) * Len(n), Bytes[n]>>

Value(n, live) ==
    LET plain == (file[n].hits + 1) * Len(n)
    IN  IF ~LivePrefix(n, live) THEN <<plain, Bytes[n]>>
        ELSE <<(plain * (IF file[n].hits > 0 THEN 25 ELSE 2)) * Len(n),
               (Bytes[n] * 100) * Len(live)>>

AtMost(v, w) == v[1] * w[2] <= w[1] * v[2]

Victims(live) ==
    {n \in DOMAIN file : \A m \in DOMAIN file : AtMost(Value(n, live), Value(m, live))}

-----------------------------------------------------------------------------
Returns(result, dropped) ==
    store' = [NoStore EXCEPT !.result = result, !.dropped = dropped]

(* kv_cache_note_store, for the stores whose callers do it on success.     *)
Noted ==
    lastStore' = IF store.reason \in {"cold", "continued"} /\ lastStore < Len(store.name)
                 THEN Len(store.name) ELSE lastStore

(* Only the exact live checkpoint is ever written.                         *)
Refused == Len(store.name) < MinTokens \/ checkpoint # store.name \/ ~valid

(* Mutant: a checkpoint whose graph was lost is written all the same.      *)
StoreCheckInvalid ==
    /\ store.step = "check"
    /\ \/ /\ Len(store.name) < MinTokens \/ checkpoint # store.name
          /\ Returns("refused", {})
          /\ UNCHANGED <<file, lastStore>>
       \/ /\ ~(Len(store.name) < MinTokens \/ checkpoint # store.name)
          /\ store' = [store EXCEPT !.step = "write"]
          /\ UNCHANGED <<file, lastStore>>
    /\ UNCHANGED excess

(* kv_cache_rewrite_tool_map.  It may stop in the middle, but a cut map is *)
(* a shorter one.                                                          *)
RewriteMap(size) ==
    LET old   == file[store.name].map
        added == IF size > old THEN size - old ELSE 0
    IN  /\ added = 0 \/ excess + added <= MaxExcess
        /\ excess' = excess + added
        /\ file' = [file EXCEPT ![store.name] = [@ EXCEPT !.map = size]]

StoreCheck ==
    /\ store.step = "check"
    /\ \/ /\ Refused
          /\ Returns("refused", {})
          /\ UNCHANGED <<file, lastStore, excess>>
       \/ /\ ~Refused /\ store.name \in DOMAIN file /\ Compatible(file[store.name])
          /\ Returns("kept", {}) /\ Noted
          /\ \E size \in 0..MaxMap : RewriteMap(size)
       \/ /\ ~Refused /\ store.name \in DOMAIN file /\ ~Compatible(file[store.name])
          /\ file' \in {file, Without(store.name)}
          /\ store' = [store EXCEPT !.step = "write"]
          /\ UNCHANGED <<lastStore, excess>>
       \/ /\ ~Refused /\ store.name \notin DOMAIN file
          /\ store' = [store EXCEPT !.step = "write"]
          /\ UNCHANGED <<file, lastStore, excess>>

Snapshot(size) ==
    [ctx |-> config.ctx, cap |-> config.cap, quant |-> config.quant,
     continued |-> store.reason = "continued", hits |-> 0, map |-> size,
     graph |-> graph, logits |-> logits]

(* The complete temporary file takes the name in one step.                 *)
StoreRename ==
    /\ store.step = "write"
    /\ \E size \in 0..MaxMap :
        file' = [n \in DOMAIN file \cup {store.name} |->
                   IF n = store.name THEN Snapshot(size) ELSE file[n]]
    /\ store' = [store EXCEPT !.step = "evict"]
    /\ UNCHANGED <<lastStore, excess>>

StoreFails ==
    /\ store.step = "write"
    /\ Returns("failed", {})
    /\ UNCHANGED <<file, lastStore, excess>>

EvictOne ==
    /\ store.step = "evict" /\ DirBytes > Budget
    /\ \E n \in Victims(store.live) :
        /\ file' = Without(n)
        /\ store' = [store EXCEPT !.dropped = @ \cup {n}]
    /\ UNCHANGED <<lastStore, excess>>

EvictStuck ==
    /\ store.step = "evict"
    /\ excess' \in 1..MaxExcess /\ DirBytes = Budget + excess'
    /\ Returns("stored", store.dropped) /\ Noted
    /\ UNCHANGED file

(* Mutant: the budget may be passed by one byte for ever.                  *)
EvictDoneLate ==
    /\ store.step = "evict" /\ DirBytes <= Budget + 1
    /\ Returns("stored", store.dropped) /\ Noted
    /\ excess' = 0
    /\ UNCHANGED file

EvictDone ==
    /\ store.step = "evict" /\ DirBytes <= Budget
    /\ Returns("stored", store.dropped) /\ Noted
    /\ excess' = 0
    /\ UNCHANGED file

(* kv_cache_open of a new process evicts before anything else.             *)
Reopen ==
    /\ store' = [NoStore EXCEPT !.step = "evict"]
    /\ lastStore' = 0
    /\ excess' = 0
    /\ UNCHANGED file

StoreStep ==
    /\ StoreCheck \/ StoreRename \/ StoreFails \/ EvictOne \/ EvictStuck \/ EvictDone
    /\ UNCHANGED session

-----------------------------------------------------------------------------
(* kv_cache_maybe_store_continued.                                         *)
Continued(tokens, last) ==
    IF Interval > 0 /\ Len(tokens) >= MinTokens /\ Len(tokens) - last >= Interval
    THEN [NoStore EXCEPT !.step = "check", !.name = tokens, !.live = tokens,
                         !.reason = "continued"]
    ELSE NoStore

Touched(n) ==
    [file EXCEPT ![n] = [file[n] EXCEPT !.hits = Least(file[n].hits + 1, MaxHits)]]

(* kv_cache_try_load_tokens.  No file fits, or it cannot be opened.        *)
LoadNothing ==
    /\ store' = NoStore
    /\ UNCHANGED <<session, file, lastStore, excess>>

LoadFails(p) ==
    /\ Candidates(p) # {}
    /\ Invalidate
    /\ graph' = Mixed /\ logits' = Mixed
    /\ store' = NoStore
    /\ UNCHANGED <<config, progress, sync, file, lastStore, excess>>

(* A long file is consumed; the hit counter of another is raised.  Either  *)
(* may fail without consequence.                                           *)
LoadHits(p) ==
    /\ \E n \in Longest(Candidates(p)) :
        /\ Loadable(n, file[n])
        /\ checkpoint' = n /\ valid' = TRUE
        /\ graph' = file[n].graph /\ logits' = file[n].logits
        /\ lastStore' = Len(n)
        /\ file' \in {file, IF ColdMax > 0 /\ Len(n) > ColdMax THEN Without(n) ELSE Touched(n)}
    /\ store' = NoStore
    /\ UNCHANGED <<config, progress, sync, excess>>
=============================================================================
