---------------------------- MODULE LiveSession ----------------------------
(***************************************************************************)
(* The engine's live session (ds4.c): one token checkpoint and the graph   *)
(* state that must belong to it, the KV rows and the logits of the last    *)
(* token.  ds4_session_sync brings the session to a prompt in one of four  *)
(* ways, by a whole prefill, in chunks, by resuming in chunks or token by  *)
(* token, and any evaluation may fail in the middle.                       *)
(*                                                                         *)
(* KV rows and logits are represented by the token sequence they were      *)
(* computed from; Mixed is a graph left half written.  The module has no   *)
(* specification of its own: GenerateJob drives it.                        *)
(***************************************************************************)
EXTENDS Integers, Sequences, FiniteSets, SequencesExt

CONSTANTS
    Token,      \* token ids, end of sentence excluded
    Mixed,      \* what a graph holds after a failed evaluation
    Configs,    \* what the server may be started with: [ctx, cap, raw, quant]
    ResumeMin   \* DS4_METAL_RESUME_PREFILL_MIN

ASSUME MixedAssumption  == Mixed \notin Seq(Token)
ASSUME ConfigAssumption ==
    /\ Configs \subseteq [ctx : Nat, cap : Nat \ {0}, raw : Nat \ {0}, quant : {2, 4}]
    /\ ResumeMin \in Nat \ {0}

VARIABLES
    config,      \* context size, prefill chunk, raw ring size, quantization
    checkpoint,  \* s->checkpoint
    valid,       \* s->checkpoint_valid
    graph,       \* the tokens whose KV rows the graph holds
    logits,      \* the tokens whose next-token distribution s->logits is
    progress,    \* the tokens the progress callback takes as cached, -1: no callback
    sync         \* ds4_session_sync: how, to which prompt, from where, how far, result

session == <<config, checkpoint, valid, graph, logits, progress, sync>>

Tokens == Seq(Token)
Rows   == Tokens \cup {Mixed}
Modes  == {"off", "chunks", "tokens", "whole"}
Sync   == [mode : Modes, prompt : Tokens, from : Nat, at : Nat, ok : BOOLEAN]

SessionTypeOK ==
    /\ config \in Configs
    /\ checkpoint \in Tokens /\ valid \in BOOLEAN
    /\ graph \in Rows /\ logits \in Rows
    /\ progress \in Nat \cup {-1} /\ sync \in Sync

Synced(ok)  == [mode |-> "off", prompt |-> <<>>, from |-> 0, at |-> 0, ok |-> ok]
Upto(s, n)  == SubSeq(s, 1, n)
Least(a, b) == IF a < b THEN a ELSE b

Syncing == sync.mode # "off"

InitSession ==
    /\ config \in Configs
    /\ checkpoint = <<>> /\ valid = FALSE
    /\ graph = Mixed /\ logits = Mixed
    /\ progress = -1
    /\ sync = Synced(TRUE)

-----------------------------------------------------------------------------
(* Where ds4_session_sync starts.                                          *)

Extends(p) == valid /\ IsPrefix(checkpoint, p)
Fits(p)    == Len(p) > 0 /\ Len(p) < config.ctx

Way(p) ==
    IF Extends(p)
    THEN IF Len(p) - Len(checkpoint) >= ResumeMin THEN "chunks" ELSE "tokens"
    ELSE IF config.cap < Len(p) THEN "chunks" ELSE "whole"

(* Mutant: the checkpoint is resumed without a look at its tokens.         *)
StartBlind(p) ==
    sync' = IF ~Fits(p) THEN Synced(FALSE)
            ELSE LET n == IF valid /\ Len(checkpoint) <= Len(p) THEN Len(checkpoint) ELSE 0
                 IN  [mode |-> IF n > 0 THEN "tokens" ELSE Way(p), prompt |-> p, from |-> n,
                      at |-> n, ok |-> FALSE]

Start(p) ==
    sync' = IF ~Fits(p) THEN Synced(FALSE)
            ELSE LET n == IF Extends(p) THEN Len(checkpoint) ELSE 0
                 IN  [mode |-> Way(p), prompt |-> p, from |-> n, at |-> n, ok |-> FALSE]

(* Mutant: the distance to the boundary is taken from the ring's width.    *)
ChunkEndOfRing ==
    LET cap   == IF sync.from = 0 THEN config.cap ELSE Least(config.cap, config.raw)
        mod   == sync.at % config.cap
        local == IF sync.from = 0 \/ mod = 0 THEN cap ELSE cap - mod
    IN  Least(sync.at + local, Len(sync.prompt))

(* Chunks end at multiples of the prefill cap, so that compressor rows are *)
(* completed in the same order as by a cold prompt.                        *)
ChunkEnd ==
    LET cap   == IF sync.from = 0 THEN config.cap ELSE Least(config.cap, config.raw)
        mod   == sync.at % config.cap
        local == IF sync.from = 0 \/ mod = 0 THEN cap ELSE Least(cap, config.cap - mod)
    IN  Least(sync.at + local, Len(sync.prompt))

-----------------------------------------------------------------------------
(* The steps of a sync that touch the graph.                               *)

Broken ==
    /\ graph' = Mixed /\ logits' = Mixed
    /\ valid' = FALSE
    /\ sync' = Synced(FALSE)
    /\ UNCHANGED <<config, checkpoint, progress>>

(* The rows of one chunk go behind the rows there are; at position zero    *)
(* the graph starts anew.                                                  *)
ChunkRows ==
    (IF sync.at = 0 THEN <<>> ELSE graph) \o SubSeq(sync.prompt, sync.at + 1, ChunkEnd)

(* Mutant: the checkpoint is published before the logits are read back.    *)
ChunkStaleLogits ==
    /\ sync.mode = "chunks" /\ sync.at < Len(sync.prompt)
    /\ sync' = [sync EXCEPT !.at = ChunkEnd]
    /\ graph' = ChunkRows
    /\ IF progress >= 0
       THEN checkpoint' = Upto(sync.prompt, ChunkEnd) /\ valid' = TRUE
       ELSE UNCHANGED <<checkpoint, valid>>
    /\ UNCHANGED <<config, progress, logits>>

(* One chunk, and what ds4_session_note_prefill_progress records of it     *)
(* before it passes the event on; without a callback nothing is recorded   *)
(* and no logits are computed until the end.                               *)
Chunk ==
    /\ sync.mode = "chunks" /\ sync.at < Len(sync.prompt)
    /\ sync' = [sync EXCEPT !.at = ChunkEnd]
    /\ graph' = ChunkRows
    /\ IF progress >= 0
       THEN /\ logits' = ChunkRows
            /\ checkpoint' = Upto(sync.prompt, ChunkEnd)
            /\ valid' = TRUE
       ELSE UNCHANGED <<logits, checkpoint, valid>>
    /\ UNCHANGED <<config, progress>>

Finished(rows) ==
    /\ graph' = rows /\ logits' = rows
    /\ checkpoint' = sync.prompt /\ valid' = TRUE
    /\ sync' = Synced(TRUE)
    /\ UNCHANGED <<config, progress>>

WholePrefill == sync.mode = "whole" /\ Finished(sync.prompt)
ChunksDone   == sync.mode = "chunks" /\ sync.at = Len(sync.prompt) /\ Finished(graph)

EvalToken ==
    /\ sync.mode = "tokens" /\ Len(checkpoint) < Len(sync.prompt)
    /\ LET t == sync.prompt[Len(checkpoint) + 1]
       IN  /\ checkpoint' = Append(checkpoint, t)
           /\ graph' = Append(graph, t)
           /\ logits' = Append(graph, t)
    /\ UNCHANGED <<config, valid, progress, sync>>

TokensDone ==
    /\ sync.mode = "tokens" /\ Len(checkpoint) = Len(sync.prompt)
    /\ sync' = Synced(TRUE)
    /\ UNCHANGED <<config, checkpoint, valid, graph, logits, progress>>

(* A step fails; a token by token sync has a step only while tokens are    *)
(* missing.                                                                *)
SyncFails ==
    /\ Syncing
    /\ ~(sync.mode = "tokens" /\ Len(checkpoint) = Len(sync.prompt))
    /\ Broken

-----------------------------------------------------------------------------
Invalidate == checkpoint' = <<>> /\ valid' = FALSE

(* ds4_session_eval, or a speculative evaluation that accepts ts.          *)
Eval(ts) ==
    /\ checkpoint' = checkpoint \o ts
    /\ graph' = graph \o ts
    /\ logits' = graph \o ts
    /\ UNCHANGED <<config, valid, progress, sync>>

EvalFails ==
    /\ graph' = Mixed /\ logits' = Mixed
    /\ valid' = FALSE
    /\ UNCHANGED <<config, checkpoint, progress, sync>>
=============================================================================
