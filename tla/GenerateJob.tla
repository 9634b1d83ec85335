---------------------------- MODULE GenerateJob ----------------------------
(***************************************************************************)
(* The worker of ds4_server.c executing requests one after the other on    *)
(* the live session, with the disk cache behind it: generate_job with its  *)
(* prefill and progress callback, the decode loop, the canonicalization of *)
(* a tool call's checkpoint, and the final snapshot; the snapshot of a     *)
(* regular shutdown; a crash at any step and a restart with the files that *)
(* are there, perhaps under another configuration.                         *)
(*                                                                         *)
(* Text is not modelled: that a token ends the answer, completes a stop    *)
(* string, opens or closes a tool call, or cannot be written to the client *)
(* is a choice, as is the token sequence of a canonical transcript.        *)
(***************************************************************************)
EXTENDS DiskCache

CONSTANTS
    Prompts,    \* prompts requests come with
    Canonical,  \* token sequences of canonical transcripts
    Sampled,    \* bound: tokens the model samples
    MaxAccept,  \* tokens one evaluation may accept
    LogEvery    \* completions between two snapshots of the decode loop

ASSUME JobAssumption ==
    /\ Prompts \subseteq Tokens /\ Canonical \subseteq Tokens /\ Sampled \subseteq Token
    /\ MaxAccept \in Nat \ {0} /\ LogEvery \in Nat \ {0}

VARIABLES
    pc,       \* where generate_job is
    prompt,   \* j->req.prompt
    cached,   \* tokens of the prompt found in memory or on disk
    coldLen,  \* cold_store_len
    left,     \* accepted tokens the decode loop has not looked at
    toolCall, \* saw_tool_start
    failed,   \* finish is "error"
    canon     \* the canonical transcript of a turn with tool calls

jobVars == <<prompt, cached, coldLen, left, toolCall, failed, canon>>
vars    == <<session, cache, pc, jobVars>>

Ready == ~Storing /\ ~Syncing

Init ==
    /\ InitSession
    /\ file = <<>> /\ store = NoStore /\ lastStore = 0 /\ excess = 0
    /\ pc = "idle"
    /\ prompt = <<>> /\ cached = 0 /\ coldLen = 0 /\ left = 0
    /\ toolCall = FALSE /\ failed = FALSE /\ canon = <<>>

Scope(p, n) ==
    /\ prompt' = p /\ cached' = n /\ coldLen' = 0 /\ left' = 0
    /\ toolCall' = FALSE /\ failed' = FALSE /\ canon' = <<>>

At(here, there) == pc = here /\ Ready /\ pc' = there

-----------------------------------------------------------------------------
(* Mutant: the old conversation is not saved before it is replaced.        *)
BeginUnsaved(p) ==
    /\ pc = "idle" /\ Ready
    /\ Scope(p, IF Extends(p) THEN Len(checkpoint) ELSE 0)
    /\ lastStore' = IF cached' = 0 THEN 0 ELSE lastStore
    /\ pc' = IF cached' = 0 THEN "load" ELSE "prefill"
    /\ store' = NoStore
    /\ UNCHANGED <<session, file, excess>>

(* A request.  The live session serves it if it is a prefix of the prompt; *)
(* otherwise the session is about to be replaced and is saved first.       *)
Begin(p) ==
    /\ pc = "idle" /\ Ready
    /\ Scope(p, IF Extends(p) THEN Len(checkpoint) ELSE 0)
    /\ lastStore' = IF cached' = 0 THEN 0 ELSE lastStore
    /\ pc' = IF cached' = 0 THEN "load" ELSE "prefill"
    /\ store' = IF cached' = 0 /\ Len(checkpoint) >= MinTokens
                THEN Stores(checkpoint, "evict") ELSE NoStore
    /\ UNCHANGED <<session, file, excess>>

Load ==
    /\ At("load", "prefill")
    /\ \/ LoadNothing /\ cached' = 0
       \/ LoadFails(prompt) /\ cached' = 0
       \/ LoadHits(prompt) /\ cached' = Len(checkpoint')
    /\ UNCHANGED <<prompt, coldLen, left, toolCall, failed, canon>>

(* The callback of a sync that resumes in chunks is called once before the *)
(* first chunk.                                                            *)
FirstEvent(base) ==
    store' = IF sync'.mode = "chunks" /\ sync'.from > base
             THEN Continued(checkpoint, lastStore) ELSE NoStore

ColdLen ==
    IF cached = 0 /\ Len(prompt) >= MinTokens /\ ColdMax > 0 /\ Len(prompt) <= ColdMax
    THEN StoreLen(Len(prompt)) ELSE 0

(* Prefill starts: to the boundary of a cold snapshot first, if there is   *)
(* one inside the prompt.                                                  *)
Prefill ==
    /\ pc = "prefill" /\ Ready
    /\ progress' = cached
    /\ coldLen' = ColdLen
    /\ IF ColdLen >= MinTokens /\ ColdLen < Len(prompt)
       THEN pc' = "coldSynced" /\ Start(Upto(prompt, ColdLen))
       ELSE pc' = "synced" /\ Start(prompt)
    /\ FirstEvent(cached)
    /\ cached' = 0   \* from here on the progress callback has it
    /\ UNCHANGED <<config, checkpoint, valid, graph, logits, file, lastStore, excess,
                   prompt, left, toolCall, failed, canon>>

(* A chunk and its progress event, which may snapshot the prefix reached.  *)
ChunkStep ==
    /\ ~Storing
    /\ Chunk
    /\ store' = IF progress >= 0 /\ sync'.at > progress
                THEN Continued(checkpoint', lastStore) ELSE NoStore
    /\ UNCHANGED <<file, lastStore, excess, pc, jobVars>>

SyncStep ==
    /\ ~Storing
    /\ WholePrefill \/ ChunksDone \/ EvalToken \/ TokensDone
    /\ UNCHANGED <<cache, pc, jobVars>>

SyncBreaks ==
    /\ ~Storing
    /\ SyncFails
    /\ UNCHANGED <<cache, pc, jobVars>>

(* The request fails with 500: the session stays as the sync left it.      *)
PrefillFailed ==
    /\ pc \in {"coldSynced", "synced"} /\ Ready /\ ~sync.ok
    /\ pc' = "idle" /\ progress' = -1
    /\ Scope(<<>>, 0)
    /\ UNCHANGED <<config, checkpoint, valid, graph, logits, sync, cache>>

ColdSynced ==
    /\ At("coldSynced", "coldStored") /\ sync.ok
    /\ store' = Stores(Upto(prompt, coldLen), "cold")
    /\ UNCHANGED <<session, file, lastStore, excess, jobVars>>

ColdStored ==
    /\ At("coldStored", "synced")
    /\ Start(prompt)
    /\ FirstEvent(progress)
    /\ UNCHANGED <<config, checkpoint, valid, graph, logits, progress,
                   file, lastStore, excess, jobVars>>

PromptSynced ==
    /\ At("synced", "sample") /\ sync.ok
    /\ progress' = -1
    /\ store' = IF coldLen = Len(prompt) THEN Stores(prompt, "cold") ELSE NoStore
    /\ coldLen' = 0   \* not read any more
    /\ UNCHANGED <<config, checkpoint, valid, graph, logits, sync, file, lastStore, excess,
                   prompt, cached, left, toolCall, failed, canon>>

-----------------------------------------------------------------------------
(* The decode loop.                                                        *)
Ends(error) ==
    /\ At("sample", "finish")
    /\ failed' = error
    /\ UNCHANGED <<cache, prompt, cached, coldLen, left, toolCall, canon>>

(* The stream headers cannot be sent.                                      *)
HeadersFail ==
    /\ At("sample", "idle") /\ checkpoint = prompt
    /\ Scope(<<>>, 0)
    /\ UNCHANGED <<session, cache>>

(* End of sentence, the request's max_tokens, the context, a stop signal.  *)
SampleEnds ==
    /\ \E error \in BOOLEAN : Ends(error)
    /\ UNCHANGED session

DecodeFails == Ends(TRUE) /\ EvalFails

Decode(ts) ==
    /\ At("sample", "emit")
    /\ Len(checkpoint) + Len(ts) <= config.ctx
    /\ Eval(ts)
    /\ left' = Len(ts)
    /\ UNCHANGED <<cache, prompt, cached, coldLen, toolCall, failed, canon>>

Completion == (Len(checkpoint) - Len(prompt)) - left

(* The loop breaks at an end of sentence among the accepted tokens, or     *)
(* because the client is gone.                                             *)
EmitBreaks ==
    /\ At("emit", "finish")
    /\ failed' \in BOOLEAN
    /\ UNCHANGED <<session, cache, prompt, cached, coldLen, left, toolCall, canon>>

(* One token goes out; every LogEvery of them a snapshot is due, unless a  *)
(* tool call has started.                                                  *)
Emit ==
    /\ At("emit", "emitted")
    /\ left' = left - 1
    /\ toolCall' \in {toolCall, TRUE}
    /\ store' = IF (Completion + 1) % LogEvery = 0 /\ ~toolCall'
                THEN Continued(checkpoint, lastStore) ELSE NoStore
    /\ UNCHANGED <<session, file, lastStore, excess, prompt, cached, coldLen, failed, canon>>

(* A stop string: the client's text ends before tokens the session holds.  *)
HitStop ==
    /\ At("emitted", "finish")
    /\ Invalidate
    /\ UNCHANGED <<config, graph, logits, progress, sync, cache, jobVars>>

ToolCallEnds ==
    /\ At("emitted", "finish") /\ toolCall
    /\ UNCHANGED <<session, cache, jobVars>>

NextToken ==
    /\ At("emitted", IF left = 0 THEN "sample" ELSE "emit")
    /\ UNCHANGED <<session, cache, jobVars>>

-----------------------------------------------------------------------------
(* After the loop: an unterminated tool call or a shutdown makes the turn  *)
(* an error; what the last interval produced is saved.                     *)
Finish ==
    /\ At("finish", "parse")
    /\ failed' \in {failed, TRUE}
    /\ store' = IF Completion % LogEvery # 0 /\ ~failed' /\ ~toolCall
                THEN Continued(checkpoint, lastStore) ELSE NoStore
    /\ UNCHANGED <<session, file, lastStore, excess, prompt, cached, coldLen, left,
                   toolCall, canon>>

(* The answer has no tool call, or cannot be parsed.                       *)
ParsePlain ==
    /\ At("parse", "reply")
    /\ failed' \in {failed, TRUE}
    /\ UNCHANGED <<session, cache, prompt, cached, coldLen, left, toolCall, canon>>

(* It has tool calls: the transcript the client will send back is          *)
(* rendered and tokenized.                                                 *)
ParseCalls(c) ==
    /\ At("parse", "canon")
    /\ canon' = c /\ failed' = FALSE
    /\ UNCHANGED <<session, cache, prompt, cached, coldLen, left, toolCall>>

(* Canonicalization leaves the session alone when the transcript is what   *)
(* it holds, differs within the prompt, or does not fit.                   *)
CanonSkipped ==
    /\ At("canon", "reply")
    /\ \/ valid /\ checkpoint = canon
       \/ ~valid \/ ~IsPrefix(prompt, canon) \/ ~IsPrefix(prompt, checkpoint)
       \/ ~Fits(canon)
    /\ UNCHANGED <<session, cache, jobVars>>

Canonicalizes ==
    /\ valid /\ IsPrefix(prompt, canon) /\ IsPrefix(prompt, checkpoint) /\ Fits(canon)

(* The transcript goes on where the session ends.                          *)
CanonExtends ==
    /\ At("canon", "canonSynced")
    /\ Canonicalizes /\ IsStrictPrefix(checkpoint, canon)
    /\ Start(canon)
    /\ store' = NoStore
    /\ UNCHANGED <<config, checkpoint, valid, graph, logits, progress,
                   file, lastStore, excess, jobVars>>

(* It parts from the session earlier: an older snapshot is loaded, or the  *)
(* session is invalidated to be built from the first token.                *)
CanonRebuilds ==
    /\ At("canon", "canonSync")
    /\ Canonicalizes /\ ~IsPrefix(checkpoint, canon)
    /\ \/ LoadHits(canon)
       \/ LoadFails(canon)
       \/ /\ Invalidate
          /\ UNCHANGED <<config, graph, logits, progress, sync, cache>>
    /\ UNCHANGED jobVars

CanonSync ==
    /\ At("canonSync", "canonSynced")
    /\ Start(canon)
    /\ store' = NoStore
    /\ UNCHANGED <<config, checkpoint, valid, graph, logits, progress,
                   file, lastStore, excess, jobVars>>

CanonSynced ==
    /\ At("canonSynced", "reply")
    /\ UNCHANGED <<session, cache, jobVars>>

(* The answer is complete; a last snapshot may be due.                     *)
Reply ==
    /\ At("reply", "idle")
    /\ store' = IF ~failed THEN Continued(checkpoint, lastStore) ELSE NoStore
    /\ Scope(<<>>, 0)
    /\ UNCHANGED <<session, file, lastStore, excess>>

-----------------------------------------------------------------------------
(* The process ends in order, or at any step; a new one opens the cache.   *)
Shutdown ==
    /\ At("idle", "exit")
    /\ store' = IF Len(checkpoint) >= MinTokens THEN Stores(checkpoint, "shutdown") ELSE NoStore
    /\ UNCHANGED <<session, file, lastStore, excess, jobVars>>

Restart ==
    /\ config' \in Configs
    /\ checkpoint' = <<>> /\ valid' = FALSE
    /\ graph' = Mixed /\ logits' = Mixed
    /\ progress' = -1 /\ sync' = Synced(TRUE)
    /\ Reopen
    /\ pc' = "idle"
    /\ Scope(<<>>, 0)

StoreRoutine == StoreStep /\ UNCHANGED <<pc, jobVars>>

Accepted == UNION {[1..n -> Sampled] : n \in 1..MaxAccept}

Work ==
    \/ StoreRoutine
    \/ Load \/ Prefill \/ ChunkStep \/ SyncStep \/ PrefillFailed
    \/ ColdSynced \/ ColdStored \/ PromptSynced
    \/ HeadersFail \/ SampleEnds
    \/ \E ts \in Accepted : Decode(ts)
    \/ EmitBreaks \/ Emit \/ HitStop \/ ToolCallEnds \/ NextToken
    \/ Finish \/ ParsePlain \/ \E c \in Canonical : ParseCalls(c)
    \/ CanonSkipped \/ CanonExtends \/ CanonRebuilds \/ CanonSync \/ CanonSynced
    \/ Reply

(* An evaluation fails.                                                    *)
Fault == SyncBreaks \/ DecodeFails

Next ==
    \/ \E p \in Prompts : Begin(p)
    \/ Work
    \/ Fault
    \/ Shutdown
    \/ Restart

Spec == Init /\ [][Next]_vars

(* The worker runs on; requests, signals, crashes and failing evaluations  *)
(* come as they like.                                                      *)
FairSpec == Spec /\ WF_vars(Work)
-----------------------------------------------------------------------------
TypeOK ==
    /\ SessionTypeOK /\ CacheTypeOK
    /\ pc \in {"idle", "load", "prefill", "coldSynced", "coldStored", "synced", "sample",
               "emit", "emitted", "finish", "parse", "canon", "canonSync", "canonSynced",
               "reply", "exit"}
    /\ prompt \in Tokens /\ cached \in Nat /\ coldLen \in Nat /\ left \in Nat
    /\ toolCall \in BOOLEAN /\ failed \in BOOLEAN /\ canon \in Tokens

(* Whenever somebody may look at a valid session, a snapshot, the sampler  *)
(* or the next request, the KV rows and the logits are those of exactly    *)
(* the tokens of the checkpoint: after failed evaluations, in the middle   *)
(* of a chunked prefill, after a load and after a rewritten tool call.     *)
Coherent ==
    (Storing \/ ~Syncing) /\ valid => graph = checkpoint /\ logits = checkpoint

(* A file holds the graph state of the tokens it is named after, and none  *)
(* is shorter than the minimum: whatever prompt finds it by name resumes   *)
(* from its own past.                                                      *)
FilesGenuine ==
    \A n \in DOMAIN file : file[n].graph = n /\ file[n].logits = n /\ Len(n) >= MinTokens

(* Tokens are sampled from a valid session that holds the request's whole  *)
(* prompt and what was generated since, and never more than the context,   *)
(* whether the prompt came from memory, from disk, cold or in two parts.   *)
PromptReady ==
    pc \in {"sample", "emit", "emitted"} =>
        valid /\ IsPrefix(prompt, checkpoint) /\ Len(checkpoint) <= config.ctx

(* A conversation about to be replaced by another request is on disk in a  *)
(* form this server can load, unless writing it failed or the budget has   *)
(* evicted it again.                                                       *)
EvictedIsSaved ==
    pc = "load" /\ ~Storing /\ valid /\ Len(checkpoint) >= MinTokens =>
        \/ store.result = "failed"
        \/ checkpoint \in store.dropped
        \/ checkpoint \in DOMAIN file /\ Compatible(file[checkpoint])
                                     /\ file[checkpoint].cap = config.cap

(* Outside a store the files fit the budget, but for what failing unlinks  *)
(* left at the last eviction and what rewritten tool maps have added since: *)
(* nothing else adds bytes without an eviction.                            *)
OnBudget == ~Storing => DirBytes <= Budget + excess

(* Under pressure the crash fallbacks of the running conversation go       *)
(* first: no other file is evicted while an unused continued snapshot of   *)
(* a prefix of the live session remains.                                   *)
ContinuedGoesFirst ==
    [][\A n \in DOMAIN file :
          (store.step = "evict" /\ n \notin DOMAIN file' /\ ~LivePrefix(n, store.live)) =>
              \A m \in DOMAIN file : LivePrefix(m, store.live) => file[m].hits > 0]_vars

(* Every request comes to an end and leaves the worker free for the next:  *)
(* a prefill in chunks gets on from wherever it resumes, with a ring of    *)
(* rows narrower than a chunk too, and no store waits for ever.            *)
JobEnds == pc \notin {"idle", "exit"} ~> pc = "idle" /\ Ready

(* "Use hits+1 for eviction value so a just-written checkpoint does not    *)
(* get deleted immediately just because its persisted hit counter is still *)
(* 0": the eviction after a store spares the file it wrote as long as a    *)
(* file of the same size and kind differs from it in its hits only.        *)
FreshSurvives ==
    [][\A n \in DOMAIN file :
          (store.step = "evict" /\ n = store.name /\ n \notin DOMAIN file') =>
              \A m \in DOMAIN file :
                  Len(m) = Len(n) /\ Bytes[m] = Bytes[n] /\ file[m].continued = file[n].continued
                      => file[m].hits = file[n].hits]_vars
=============================================================================
