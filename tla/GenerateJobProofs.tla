------------------------- MODULE GenerateJobProofs -------------------------
(***************************************************************************)
(* What a session, a snapshot and a sampled token stand for, proved for    *)
(* every configuration: the KV rows are those of the checkpoint whenever   *)
(* it is valid and somebody looks, files hold what their names say, and    *)
(* sampling starts from the request's own prompt.  The files keep to the   *)
(* budget outside an eviction, a conversation replaced by another is on    *)
(* disk first, and fallbacks are evicted before it.                        *)
(*                                                                         *)
(* Coherence is not inductive.  SyncPath (LiveSessionProofs) says what     *)
(* each way of a sync has established so far, StorePath that a store only  *)
(* looks at the moments that are safe, JobPath what the request may rely   *)
(* on where it is.                                                         *)
(***************************************************************************)
EXTENDS GenerateJob, LiveSessionProofs

StorePath ==
    /\ Storing /\ Syncing => sync.mode = "chunks" /\ (sync.at = sync.from \/ progress >= 0)
    /\ store.step = "write" =>
        valid /\ checkpoint = store.name /\ Len(store.name) >= MinTokens

JobPath ==
    /\ Syncing => pc \in {"coldSynced", "synced", "canonSynced"}
    /\ pc = "coldSynced" => coldLen \in 0..Len(prompt)
    /\ pc = "synced" /\ Syncing => sync.prompt = prompt
    /\ pc = "synced" /\ ~Syncing /\ sync.ok =>
        valid /\ checkpoint = prompt /\ Len(prompt) <= config.ctx
    /\ pc = "emit" => left > 0

Inv == TypeOK /\ SyncPath /\ StorePath /\ FilesGenuine /\ JobPath /\ PromptReady

-----------------------------------------------------------------------------
(* Types of the pieces.                                                    *)

JobTypeOK ==
    /\ pc \in {"idle", "load", "prefill", "coldSynced", "coldStored", "synced", "sample",
               "emit", "emitted", "finish", "parse", "canon", "canonSync", "canonSynced",
               "reply", "exit"}
    /\ prompt \in Tokens /\ cached \in Nat /\ coldLen \in Nat /\ left \in Nat
    /\ toolCall \in BOOLEAN /\ failed \in BOOLEAN /\ canon \in Tokens

(* The type invariant has three parts.                                     *)
LEMMA TypeParts == TypeOK <=> SessionTypeOK /\ CacheTypeOK /\ JobTypeOK
BY DEF TypeOK, JobTypeOK

(* The store records the callers make.                                     *)
LEMMA StoreTypes ==
    /\ NoStore \in Store
    /\ \A tokens \in Tokens, last \in Nat :
          Continued(tokens, last) \in Store /\ Continued(tokens, last).step \in {"off", "check"}
    /\ \A name \in Tokens, reason \in Reasons :
          checkpoint \in Tokens =>
              Stores(name, reason) \in Store /\ Stores(name, reason).step = "check"
<1>1. <<>> \in Tokens /\ {} \in SUBSET Tokens
  BY DEF Tokens
<1>2. NoStore \in Store
  BY <1>1 DEF NoStore, Store, Reasons
<1>3. ASSUME NEW tokens \in Tokens, NEW last \in Nat
      PROVE  Continued(tokens, last) \in Store /\ Continued(tokens, last).step \in {"off", "check"}
  BY <1>1, <1>2 DEF Continued, NoStore, Store, Reasons
<1>4. ASSUME NEW name \in Tokens, NEW reason \in Reasons, checkpoint \in Tokens
      PROVE  Stores(name, reason) \in Store /\ Stores(name, reason).step = "check"
  BY <1>1, <1>2, <1>4 DEF Stores, NoStore, Store, Reasons
<1> QED BY <1>2, <1>3, <1>4

(* The session's own part.                                                 *)
LEMMA InvSession == Inv => SessionInv
BY DEF Inv, SessionInv, TypeOK

(* Where a snapshot may be taken, the rows are those of the checkpoint.    *)
LEMMA InvCoherent == Inv => Coherent
BY DEF Inv, Coherent, SyncPath, StorePath, Exact, Syncing, Storing, TypeOK, SessionTypeOK, Sync, Modes

-----------------------------------------------------------------------------
-----------------------------------------------------------------------------
(* The disk cache.                                                         *)

(* Entries that differ at most in their hits, their map and their reason.  *)
Alike(d, e) ==
    /\ d.ctx = e.ctx /\ d.cap = e.cap /\ d.quant = e.quant
    /\ d.graph = e.graph /\ d.logits = e.logits

Growth(a, b) == IF b > a THEN b - a ELSE 0

(* A rewritten map changes nothing else, and is paid for in excess.        *)
LEMMA MapWritten ==
    ASSUME CacheTypeOK, store.name \in DOMAIN file, NEW size \in 0..MaxMap, RewriteMap(size)
    PROVE  /\ DOMAIN file' = DOMAIN file
           /\ \A n \in DOMAIN file : /\ file'[n] \in Entry /\ Alike(file'[n], file[n])
                                     /\ n # store.name => file'[n] = file[n]
           /\ file'[store.name].map = size
           /\ excess' \in Nat /\ excess' = excess + Growth(file[store.name].map, size)
<1> DEFINE name == store.name
           old  == file[name]
           new  == [old EXCEPT !.map = size]
<1>1. old \in Entry /\ excess \in Nat /\ MaxMap \in Nat /\ \A n \in DOMAIN file : file[n] \in Entry
  BY OptionAssumption DEF CacheTypeOK
<1>2. new \in Entry /\ Alike(new, old) /\ new.map = size
  BY <1>1 DEF Entry, Alike
<1>3. file' = [file EXCEPT ![name] = new] /\ excess' = excess + Growth(old.map, size)
  BY DEF RewriteMap, Growth
<1>4. Growth(old.map, size) \in Nat
  BY <1>1 DEF Entry, Growth
<1> HIDE DEF new
<1>5. /\ DOMAIN file' = DOMAIN file /\ file'[name] = new
      /\ \A n \in DOMAIN file : n # name => file'[n] = file[n]
  BY <1>3
<1>6. \A n \in DOMAIN file : file'[n] \in Entry /\ Alike(file'[n], file[n])
  BY <1>1, <1>2, <1>5 DEF Alike
<1> QED BY <1>1, <1>2, <1>3, <1>4, <1>5, <1>6

(* A step of a store: what it writes is the session it found coherent.     *)
LEMMA StoreKeeps ==
    ASSUME Inv, StoreRoutine
    PROVE  Inv'
<1>1. UNCHANGED <<config, checkpoint, valid, graph, logits, progress, sync, pc,
                  prompt, cached, coldLen, left, toolCall, failed, canon>>
  BY DEF StoreRoutine, StoreStep, session, jobVars
<1>2. SessionTypeOK' /\ JobTypeOK' /\ SyncPath' /\ JobPath' /\ PromptReady'
  BY <1>1, TypeParts DEF Inv, SessionTypeOK, JobTypeOK, SyncPath, JobPath, PromptReady, Exact,
     Syncing, Fits
<1>whole. CacheTypeOK' /\ StorePath' /\ FilesGenuine' => Inv'
  BY <1>2 DEF Inv, TypeOK, JobTypeOK
<1>3. /\ DOMAIN file \subseteq Tokens /\ \A n \in DOMAIN file : file[n] \in Entry
      /\ store \in Store /\ lastStore \in Nat /\ excess \in Nat
      /\ checkpoint \in Tokens /\ valid \in BOOLEAN /\ graph \in Rows /\ logits \in Rows
      /\ config.ctx \in Nat /\ config.cap \in Nat /\ config.quant \in {2, 4}
  BY ConfigAssumption DEF Inv, TypeOK, SessionTypeOK, CacheTypeOK
<1>4. /\ store.name \in Tokens /\ store.live \in Tokens /\ store.reason \in Reasons
      /\ store.dropped \in SUBSET Tokens /\ Len(store.name) \in Nat
  BY <1>3 DEF Store, Tokens
<1>5. FilesGenuine /\ StorePath
  BY DEF Inv
<1>6. \A result \in {"none", "refused", "failed", "kept", "stored"}, dropped \in SUBSET Tokens :
          Returns(result, dropped) => store' \in Store /\ store'.step = "off"
  <2>1. TAKE result \in {"none", "refused", "failed", "kept", "stored"}, dropped \in SUBSET Tokens
  <2>2. HAVE Returns(result, dropped)
  <2>3. <<>> \in Tokens
    BY DEF Tokens
  <2> QED BY <2>1, <2>2, <2>3 DEF Returns, NoStore, Store, Reasons
<1>7. Noted => lastStore' \in Nat
  BY <1>3, <1>4 DEF Noted
<1>8. ASSUME NEW n PROVE
          /\ DOMAIN Without(n) \subseteq DOMAIN file
          /\ \A m \in DOMAIN Without(n) : Without(n)[m] = file[m]
  BY DEF Without
<1>9. ASSUME file' = file \/ \E n : file' = Without(n)
      PROVE  /\ DOMAIN file' \subseteq Tokens /\ \A n \in DOMAIN file' : file'[n] \in Entry
             /\ FilesGenuine'
  <2>1. DOMAIN file' \subseteq DOMAIN file /\ \A m \in DOMAIN file' : file'[m] = file[m]
    BY <1>8, <1>9
  <2> QED BY <1>3, <1>5, <2>1 DEF FilesGenuine
<1>10. ASSUME store' \in Store, store'.step \in {"off", "evict"}, Storing' => Storing
       PROVE  StorePath'
  BY <1>1, <1>5, <1>10 DEF StorePath, Syncing
<1>11. ASSUME store' = [store EXCEPT !.step = "write"], Storing, ~Refused
       PROVE  store' \in Store /\ StorePath'
  <2>1. /\ store' \in Store /\ store'.step = "write" /\ store'.name = store.name
    BY <1>3, <1>11 DEF Store
  <2>2. valid /\ checkpoint = store.name /\ Len(store.name) >= MinTokens
    BY <1>4, <1>11, OptionAssumption DEF Refused
  <2> QED BY <1>1, <1>5, <1>11, <2>1, <2>2 DEF StorePath, Syncing
<1>12. CASE StoreCheck
  <2>1. CASE Refused /\ Returns("refused", {}) /\ UNCHANGED <<file, lastStore, excess>>
    <3>1. store' \in Store /\ store'.step = "off"
      BY <1>6, <2>1
    <3> QED BY <1>3, <1>9, <1>10, <2>1, <3>1, <1>whole DEF CacheTypeOK, Storing
  <2>2. CASE /\ store.name \in DOMAIN file /\ Returns("kept", {}) /\ Noted
             /\ \E size \in 0..MaxMap : RewriteMap(size)
    <3>1. store' \in Store /\ store'.step = "off"
      BY <1>6, <2>2
    <3>2. PICK size \in 0..MaxMap : RewriteMap(size)
      BY <2>2
    <3>3. /\ DOMAIN file' = DOMAIN file /\ excess' \in Nat
          /\ \A n \in DOMAIN file : file'[n] \in Entry /\ Alike(file'[n], file[n])
      BY <2>2, <3>2, MapWritten DEF Inv, TypeOK
    <3>4. DOMAIN file' \subseteq Tokens /\ \A n \in DOMAIN file' : file'[n] \in Entry
      BY <1>3, <3>3
    <3>5. FilesGenuine'
      BY <1>5, <3>3 DEF FilesGenuine, Alike
    <3> QED BY <1>3, <1>7, <1>10, <2>2, <3>1, <3>3, <3>4, <3>5, <1>whole DEF CacheTypeOK, Storing
  <2>3. CASE /\ ~Refused /\ file' \in {file, Without(store.name)}
             /\ store' = [store EXCEPT !.step = "write"] /\ UNCHANGED <<lastStore, excess>>
    <3>1. Storing
      BY <1>12 DEF StoreCheck, Storing
    <3>2. store' \in Store /\ StorePath'
      BY <1>11, <2>3, <3>1
    <3>3. file' = file \/ \E n : file' = Without(n)
      BY <2>3
    <3> QED BY <1>3, <1>9, <2>3, <3>2, <3>3, <1>whole DEF CacheTypeOK
  <2> QED BY <1>12, <2>1, <2>2, <2>3 DEF StoreCheck
<1>13. CASE StoreRename
  <2>0. PICK size \in 0..MaxMap :
           file' = [n \in DOMAIN file \cup {store.name} |->
                      IF n = store.name THEN Snapshot(size) ELSE file[n]]
    BY <1>13 DEF StoreRename
  <2>1. /\ store.step = "write" /\ store' = [store EXCEPT !.step = "evict"]
        /\ UNCHANGED <<lastStore, excess>>
    BY <1>13 DEF StoreRename
  <2>2. valid /\ checkpoint = store.name /\ Len(store.name) >= MinTokens
    BY <1>5, <2>1 DEF StorePath
  <2>3. graph = store.name /\ logits = store.name
    BY <2>1, <2>2, InvCoherent DEF Coherent, Storing
  <2>4. /\ Snapshot(size) \in Entry
        /\ Snapshot(size).graph = graph /\ Snapshot(size).logits = logits
    BY <1>3, OptionAssumption DEF Snapshot, Entry
  <2>5. /\ DOMAIN file' = DOMAIN file \cup {store.name}
        /\ \A n \in DOMAIN file' : file'[n] = IF n = store.name THEN Snapshot(size) ELSE file[n]
    BY <2>0
  <2>6. DOMAIN file' \subseteq Tokens /\ \A n \in DOMAIN file' : file'[n] \in Entry
    BY <1>3, <1>4, <2>4, <2>5
  <2>7. FilesGenuine'
    BY <1>5, <2>2, <2>3, <2>4, <2>5 DEF FilesGenuine
  <2>8. store' \in Store /\ store'.step = "evict"
    BY <1>3, <2>1 DEF Store
  <2>9. StorePath'
    BY <1>10, <2>1, <2>8 DEF Storing
  <2> QED BY <1>3, <2>1, <2>6, <2>7, <2>8, <2>9, <1>whole DEF CacheTypeOK
<1>14. CASE StoreFails
  <2>1. Returns("failed", {}) /\ UNCHANGED <<file, lastStore, excess>>
    BY <1>14 DEF StoreFails
  <2>2. store' \in Store /\ store'.step = "off"
    BY <1>6, <2>1
  <2> QED BY <1>3, <1>9, <1>10, <2>1, <2>2, <1>whole DEF CacheTypeOK, Storing
<1>15. CASE EvictOne
  <2>1. PICK n \in Victims(store.live) :
            file' = Without(n) /\ store' = [store EXCEPT !.dropped = store.dropped \cup {n}]
    BY <1>15 DEF EvictOne
  <2>2. store.step = "evict" /\ UNCHANGED <<lastStore, excess>>
    BY <1>15 DEF EvictOne
  <2>3. n \in Tokens
    BY <1>3, <2>1 DEF Victims
  <2>4. store' \in Store /\ store'.step = "evict"
    BY <1>3, <1>4, <2>1, <2>2, <2>3 DEF Store
  <2>5. StorePath'
    BY <1>10, <2>2, <2>4 DEF Storing
  <2> QED BY <1>3, <1>9, <2>1, <2>2, <2>4, <2>5, <1>whole DEF CacheTypeOK
<1>16. CASE EvictStuck \/ EvictDone
  <2>1. Returns("stored", store.dropped) /\ Noted /\ excess' \in Nat /\ file' = file
    BY <1>16, OptionAssumption DEF EvictStuck, EvictDone
  <2>2. store' \in Store /\ store'.step = "off"
    BY <1>4, <1>6, <2>1
  <2> QED BY <1>3, <1>7, <1>9, <1>10, <2>1, <2>2, <1>whole DEF CacheTypeOK, Storing
<1> QED BY <1>12, <1>13, <1>14, <1>15, <1>16 DEF StoreRoutine, StoreStep

(* A load, successful or not, leaves a coherent session.                   *)
LEMMA LoadKeeps ==
    ASSUME Inv, ~Syncing, NEW p \in Tokens, LoadNothing \/ LoadFails(p) \/ LoadHits(p)
    PROVE  /\ SessionTypeOK' /\ CacheTypeOK' /\ SyncPath' /\ FilesGenuine'
           /\ store' = NoStore /\ sync' = sync
<1>1. /\ DOMAIN file \subseteq Tokens /\ \A n \in DOMAIN file : file[n] \in Entry
      /\ lastStore \in Nat /\ excess \in Nat
      /\ config \in Configs /\ checkpoint \in Tokens /\ valid \in BOOLEAN
      /\ graph \in Rows /\ logits \in Rows /\ progress \in Nat \cup {-1} /\ sync \in Sync
  BY DEF Inv, TypeOK, SessionTypeOK, CacheTypeOK
<1>2. FilesGenuine /\ SyncPath /\ Exact
  BY DEF Inv, SyncPath, Syncing
<1>3. NoStore \in Store /\ <<>> \in Tokens
  BY StoreTypes DEF Tokens
<1>4. CASE LoadNothing
  BY <1>1, <1>2, <1>3, <1>4 DEF LoadNothing, session, SessionTypeOK, CacheTypeOK, SyncPath, Exact,
     FilesGenuine, Syncing, Fits
<1>5. CASE LoadFails(p)
  <2>1. /\ checkpoint' = <<>> /\ valid' = FALSE /\ graph' = Mixed /\ logits' = Mixed
        /\ store' = NoStore /\ UNCHANGED <<config, progress, sync, file, lastStore, excess>>
    BY <1>5 DEF LoadFails, Invalidate
  <2>2. Exact'
    BY <2>1 DEF Exact
  <2>3. SyncPath'
    BY <1>2, <2>1, <2>2 DEF SyncPath, Syncing, Fits
  <2> QED BY <1>1, <1>2, <1>3, <2>1, <2>3 DEF SessionTypeOK, CacheTypeOK, FilesGenuine, Rows
<1>6. CASE LoadHits(p)
  <2>1. PICK n \in Longest(Candidates(p)) :
        /\ checkpoint' = n /\ valid' = TRUE
        /\ graph' = file[n].graph /\ logits' = file[n].logits
        /\ lastStore' = Len(n)
        /\ file' \in {file, IF ColdMax > 0 /\ Len(n) > ColdMax THEN Without(n) ELSE Touched(n)}
    BY <1>6 DEF LoadHits
  <2>2. store' = NoStore /\ UNCHANGED <<config, progress, sync, excess>>
    BY <1>6 DEF LoadHits
  <2>3. n \in DOMAIN file /\ n \in Tokens /\ Len(n) \in Nat
    BY <1>1, <2>1 DEF Longest, Candidates, Tokens
  <2>4. graph' = n /\ logits' = n
    BY <1>2, <2>1, <2>3 DEF FilesGenuine
  <2>5. SessionTypeOK'
    BY <1>1, <2>1, <2>2, <2>3, <2>4 DEF SessionTypeOK, Rows
  <2>6. Exact'
    BY <2>1, <2>4 DEF Exact
  <2>7. SyncPath'
    BY <1>2, <2>2, <2>6 DEF SyncPath, Syncing, Fits
  <2>8. /\ DOMAIN file' \subseteq DOMAIN file
        /\ \A m \in DOMAIN file' : file'[m] \in Entry /\ file'[m].graph = file[m].graph
                                                      /\ file'[m].logits = file[m].logits
    <3>1. CASE file' = file
      BY <1>1, <3>1
    <3>2. CASE file' = Without(n)
      BY <1>1, <3>2 DEF Without
    <3>3. CASE file' = Touched(n)
      <4> DEFINE e == [file[n] EXCEPT !.hits = Least(file[n].hits + 1, MaxHits)]
      <4>1. e \in Entry /\ e.graph = file[n].graph /\ e.logits = file[n].logits
        <5>1. Least(file[n].hits + 1, MaxHits) \in Nat
          BY <1>1, <2>3, OptionAssumption DEF Least, Entry
        <5> QED BY <1>1, <2>3, <5>1 DEF Entry
      <4>2. /\ DOMAIN file' = DOMAIN file
            /\ \A m \in DOMAIN file' : file'[m] = IF m = n THEN e ELSE file[m]
        BY <2>3, <3>3 DEF Touched
      <4> HIDE DEF e
      <4> QED BY <1>1, <4>1, <4>2
    <3> QED BY <2>1, <3>1, <3>2, <3>3
  <2>9. CacheTypeOK' /\ FilesGenuine'
    BY <1>1, <1>2, <1>3, <2>1, <2>2, <2>3, <2>8 DEF CacheTypeOK, FilesGenuine
  <2> QED BY <2>2, <2>5, <2>7, <2>9
<1> QED BY <1>4, <1>5, <1>6

(* A step that leaves the session as it is and only asks for a store.      *)
LEMMA QuietKeeps ==
    ASSUME Inv, ~Syncing,
           UNCHANGED <<config, checkpoint, valid, graph, logits, sync, file, excess>>,
           progress' \in Nat \cup {-1}, lastStore' \in Nat,
           store' \in Store, store'.step \in {"off", "check"}
    PROVE  /\ SessionTypeOK' /\ CacheTypeOK' /\ SyncPath' /\ StorePath' /\ FilesGenuine'
           /\ ~Syncing'
<1>1. SyncPath /\ sync.mode = "off" /\ FilesGenuine
  BY DEF Inv, Syncing
<1>2. SessionTypeOK' /\ CacheTypeOK' /\ FilesGenuine'
  BY <1>1, TypeParts DEF Inv, SessionTypeOK, CacheTypeOK, FilesGenuine
<1>3. sync'.mode = "off"
  BY <1>1
<1>4. SyncPath' /\ ~Syncing'
  BY <1>1, <1>3 DEF SyncPath, Exact, Syncing, Fits
<1>5. StorePath'
  BY <1>4 DEF StorePath
<1> QED BY <1>2, <1>4, <1>5

-----------------------------------------------------------------------------
(* The job.                                                                *)

(* The steps that only look at the session and ask for a store.            *)
Quiet ==
    \/ \E p \in Prompts : Begin(p)
    \/ PrefillFailed \/ ColdSynced \/ PromptSynced \/ HeadersFail \/ SampleEnds
    \/ EmitBreaks \/ Emit \/ ToolCallEnds \/ NextToken \/ Finish \/ ParsePlain
    \/ \E c \in Canonical : ParseCalls(c)
    \/ CanonSkipped \/ CanonSynced \/ Reply \/ Shutdown

(* What they leave alone.                                                  *)
LEMMA QuietFrame ==
    ASSUME Inv, Quiet
    PROVE  /\ ~Syncing /\ ~Storing
           /\ UNCHANGED <<config, checkpoint, valid, graph, logits, sync, file, excess>>
           /\ progress' \in Nat \cup {-1} /\ lastStore' \in Nat
           /\ store' \in Store /\ store'.step \in {"off", "check"}
<1>1. /\ checkpoint \in Tokens /\ lastStore \in Nat /\ progress \in Nat \cup {-1}
      /\ store \in Store /\ prompt \in Tokens /\ coldLen \in Nat
  BY DEF Inv, TypeOK, SessionTypeOK, CacheTypeOK
<1>2. /\ NoStore \in Store /\ NoStore.step = "off"
      /\ Continued(checkpoint, lastStore) \in Store
      /\ Continued(checkpoint, lastStore).step \in {"off", "check"}
      /\ \A name \in Tokens, reason \in {"evict", "shutdown", "cold"} :
            Stores(name, reason) \in Store /\ Stores(name, reason).step = "check"
  BY <1>1, StoreTypes DEF NoStore, Reasons
<1>3. ~Storing => store.step \in {"off", "check"}
  BY DEF Storing
<1>4. CASE \E p \in Prompts : Begin(p)
  BY <1>1, <1>2, <1>4 DEF Begin, Ready, session
<1>5. CASE PrefillFailed
  BY <1>1, <1>3, <1>5 DEF PrefillFailed, Ready, cache
<1>6. CASE ColdSynced
  <2>1. Upto(prompt, coldLen) \in Tokens
    BY <1>1, <1>6, UptoTokens DEF ColdSynced, At, Inv, JobPath
  <2> QED BY <1>1, <1>2, <1>6, <2>1 DEF ColdSynced, At, Ready, session
<1>7. CASE PromptSynced
  BY <1>1, <1>2, <1>7 DEF PromptSynced, At, Ready
<1>8. CASE HeadersFail \/ EmitBreaks \/ ToolCallEnds \/ NextToken \/ ParsePlain \/ CanonSkipped \/ CanonSynced
  BY <1>1, <1>3, <1>8 DEF HeadersFail, EmitBreaks, ToolCallEnds, NextToken, ParsePlain, CanonSkipped,
     CanonSynced, At, Ready, session, cache
<1>9. CASE SampleEnds
  BY <1>1, <1>3, <1>9 DEF SampleEnds, Ends, At, Ready, session, cache
<1>10. CASE \E c \in Canonical : ParseCalls(c)
  BY <1>1, <1>3, <1>10 DEF ParseCalls, At, Ready, session, cache
<1>11. CASE Emit \/ Finish \/ Reply
  BY <1>1, <1>2, <1>11 DEF Emit, Finish, Reply, At, Ready, session
<1>12. CASE Shutdown
  BY <1>1, <1>2, <1>12 DEF Shutdown, At, Ready, session
<1> QED BY <1>4, <1>5, <1>6, <1>7, <1>8, <1>9, <1>10, <1>11, <1>12 DEF Quiet

(* And what they establish for the request.                                *)
LEMMA QuietKeepsJob ==
    ASSUME Inv, Quiet
    PROVE  Inv'
<1>1. /\ SessionTypeOK' /\ CacheTypeOK' /\ SyncPath' /\ StorePath' /\ FilesGenuine'
      /\ ~Syncing'
  BY QuietFrame, QuietKeeps
<1>2. /\ ~Syncing /\ UNCHANGED <<config, checkpoint, valid, sync>>
  BY QuietFrame
<1>3. /\ JobTypeOK /\ JobPath /\ PromptReady /\ checkpoint \in Tokens /\ Prompts \subseteq Tokens
      /\ Canonical \subseteq Tokens /\ <<>> \in Tokens /\ Len(checkpoint) \in Nat
      /\ prompt \in Seq(Token)
  BY TypeParts, JobAssumption DEF Inv, SessionTypeOK, JobTypeOK, Tokens
<1>4. SUFFICES JobTypeOK' /\ JobPath' /\ PromptReady'
  BY <1>1 DEF Inv, TypeOK, JobTypeOK
<1>5. CASE \E p \in Prompts : Begin(p)
  <2>1. PICK p \in Prompts : Begin(p)
    BY <1>5
  <2>2. prompt' = p /\ cached' = (IF Extends(p) THEN Len(checkpoint) ELSE 0) /\ coldLen' = 0
        /\ left' = 0 /\ toolCall' = FALSE /\ failed' = FALSE /\ canon' = <<>>
    BY <2>1 DEF Begin, Scope
  <2>3. pc' = IF cached' = 0 THEN "load" ELSE "prefill"
    BY <2>1 DEF Begin
  <2>4. JobTypeOK'
    BY <1>3, <2>2, <2>3 DEF JobTypeOK
  <2>5. JobPath' /\ PromptReady'
    BY <1>1, <2>3 DEF JobPath, PromptReady
  <2> QED BY <2>4, <2>5
<1>6. CASE PrefillFailed \/ HeadersFail \/ Reply
  <2>1. pc' = "idle" /\ Scope(<<>>, 0)
    BY <1>6 DEF PrefillFailed, HeadersFail, Reply, At
  <2>2. prompt' = <<>> /\ cached' = 0 /\ coldLen' = 0 /\ left' = 0
        /\ toolCall' = FALSE /\ failed' = FALSE /\ canon' = <<>>
    BY <2>1 DEF Scope
  <2>3. JobTypeOK'
    BY <1>3, <2>1, <2>2 DEF JobTypeOK
  <2>4. JobPath' /\ PromptReady'
    BY <1>1, <2>1 DEF JobPath, PromptReady
  <2> QED BY <2>3, <2>4
<1>7. CASE ColdSynced
  BY <1>1, <1>3, <1>7 DEF ColdSynced, At, jobVars, JobTypeOK, JobPath, PromptReady
<1>8. CASE PromptSynced
  <2>1. pc = "synced" /\ sync.ok /\ pc' = "sample" /\ prompt' = prompt
    BY <1>8 DEF PromptSynced, At
  <2>2. valid /\ checkpoint = prompt /\ Len(prompt) <= config.ctx
    BY <1>2, <1>3, <2>1 DEF JobPath
  <2>3. IsPrefix(prompt, checkpoint)
    BY <1>3, <2>2, PrefixReflexive
  <2>4. PromptReady'
    BY <1>2, <2>1, <2>2, <2>3 DEF PromptReady
  <2> QED BY <1>1, <1>3, <1>8, <2>4 DEF PromptSynced, At, JobTypeOK, JobPath
<1>9. CASE SampleEnds
  BY <1>1, <1>3, <1>9 DEF SampleEnds, Ends, At, JobTypeOK, JobPath, PromptReady
<1>10. CASE EmitBreaks \/ ParsePlain \/ Finish
  BY <1>1, <1>3, <1>10 DEF EmitBreaks, ParsePlain, Finish, At, JobTypeOK, JobPath, PromptReady
<1>11. CASE Emit
  <2>1. pc = "emit" /\ pc' = "emitted" /\ prompt' = prompt
    BY <1>11 DEF Emit, At
  <2>2. PromptReady' /\ JobPath'
    BY <1>1, <1>2, <1>3, <2>1 DEF PromptReady, JobPath
  <2>3. left > 0 /\ left' = left - 1 /\ toolCall' \in {toolCall, TRUE}
        /\ UNCHANGED <<prompt, cached, coldLen, failed, canon>>
    BY <1>3, <1>11, <2>1 DEF Emit, JobPath
  <2>4. toolCall' \in BOOLEAN
    BY <1>3, <2>3, Zenon DEF JobTypeOK
  <2>5. left' \in Nat
    BY <1>3, <2>3 DEF JobTypeOK
  <2>6. JobTypeOK'
    BY <1>3, <2>1, <2>3, <2>4, <2>5 DEF JobTypeOK
  <2> QED BY <2>2, <2>6
<1>12. CASE ToolCallEnds \/ CanonSkipped \/ CanonSynced \/ Shutdown
  BY <1>1, <1>3, <1>12 DEF ToolCallEnds, CanonSkipped, CanonSynced, Shutdown, At, jobVars, JobTypeOK,
     JobPath, PromptReady
<1>13. CASE NextToken
  <2>1. pc = "emitted" /\ pc' \in {"sample", "emit"} /\ UNCHANGED jobVars
    BY <1>13 DEF NextToken, At
  <2>2. pc' = "emit" => left # 0
    BY <1>13 DEF NextToken, At
  <2>3. PromptReady' /\ JobPath'
    BY <1>1, <1>2, <1>3, <2>1, <2>2 DEF PromptReady, JobPath, JobTypeOK, jobVars
  <2> QED BY <1>3, <2>1, <2>3 DEF JobTypeOK, jobVars
<1>14. CASE \E c \in Canonical : ParseCalls(c)
  BY <1>1, <1>3, <1>14 DEF ParseCalls, At, JobTypeOK, JobPath, PromptReady
<1> QED BY <1>5, <1>6, <1>7, <1>8, <1>9, <1>10, <1>11, <1>12, <1>13, <1>14 DEF Quiet

(* The steps that begin a sync.                                            *)
LEMMA BeginsSync ==
    ASSUME Inv, Prefill \/ ColdStored \/ CanonExtends \/ CanonSync
    PROVE  Inv'
<1>1. /\ checkpoint \in Tokens /\ lastStore \in Nat /\ progress \in Nat \cup {-1}
      /\ config \in Configs /\ graph \in Rows /\ logits \in Rows /\ valid \in BOOLEAN
      /\ DOMAIN file \subseteq Tokens /\ \A n \in DOMAIN file : file[n] \in Entry
      /\ excess \in Nat /\ prompt \in Tokens /\ canon \in Tokens /\ cached \in Nat
      /\ Len(prompt) \in Nat /\ JobTypeOK
  BY TypeParts DEF Inv, TypeOK, SessionTypeOK, CacheTypeOK, Tokens
<1>2. /\ NoStore \in Store /\ NoStore.step = "off"
      /\ Continued(checkpoint, lastStore) \in Store
      /\ Continued(checkpoint, lastStore).step \in {"off", "check"}
  BY <1>1, StoreTypes DEF NoStore
<1>3. FilesGenuine /\ JobPath /\ PromptReady
  BY DEF Inv
<1>4. /\ ~Syncing
      /\ UNCHANGED <<config, checkpoint, valid, graph, logits, file, lastStore, excess>>
      /\ progress' \in Nat \cup {-1}
  BY <1>1 DEF Prefill, ColdStored, CanonExtends, CanonSync, At, Ready
<1>5. /\ store' \in Store /\ store'.step \in {"off", "check"}
      /\ Storing' => sync'.mode = "chunks"
  BY <1>2 DEF Prefill, ColdStored, CanonExtends, CanonSync, FirstEvent, Storing
<1>6. ColdLen \in Nat /\ (ColdLen < Len(prompt) => ColdLen \in 0..Len(prompt))
  <2>1. StoreLen(Len(prompt)) \in Nat
    <3> DEFINE stable == IF Align > 0
                         THEN (Len(prompt) - Trim) - ((Len(prompt) - Trim) % Align)
                         ELSE Len(prompt) - Trim
    <3>1. stable \in Int
      BY <1>1, OptionAssumption
    <3>2. StoreLen(Len(prompt)) = IF Len(prompt) > MinTokens + Trim /\ stable >= MinTokens
                                  THEN stable ELSE Len(prompt)
      BY DEF StoreLen
    <3> HIDE DEF stable
    <3> QED BY <1>1, <3>1, <3>2, OptionAssumption
  <2> QED BY <1>1, <2>1 DEF ColdLen
<1>7. \E p \in Tokens :
         /\ Start(p)
         /\ pc' \in {"coldSynced", "synced", "canonSynced"}
         /\ pc' = "synced" => p = prompt'
         /\ pc' = "coldSynced" => coldLen' \in 0..Len(prompt')
         /\ JobTypeOK'
  <2>1. CASE Prefill
    <3>1. /\ coldLen' = ColdLen /\ cached' = 0
          /\ UNCHANGED <<prompt, left, toolCall, failed, canon>>
          /\ IF ColdLen >= MinTokens /\ ColdLen < Len(prompt)
             THEN pc' = "coldSynced" /\ Start(Upto(prompt, ColdLen))
             ELSE pc' = "synced" /\ Start(prompt)
      BY <2>1 DEF Prefill
    <3>2. JobTypeOK'
      BY <1>1, <1>6, <3>1 DEF JobTypeOK
    <3>3. CASE pc' = "coldSynced" /\ Start(Upto(prompt, ColdLen)) /\ ColdLen < Len(prompt)
      <4>1. Upto(prompt, ColdLen) \in Tokens
        BY <1>1, <1>6, <3>3, UptoTokens
      <4> QED BY <1>6, <3>1, <3>2, <3>3, <4>1
    <3>4. CASE pc' = "synced" /\ Start(prompt)
      BY <1>1, <3>1, <3>2, <3>4
    <3> QED BY <3>1, <3>3, <3>4
  <2>2. CASE ColdStored
    <3>1. Start(prompt) /\ pc' = "synced" /\ UNCHANGED jobVars
      BY <2>2 DEF ColdStored, At
    <3> QED BY <1>1, <3>1 DEF JobTypeOK, jobVars
  <2>3. CASE CanonExtends \/ CanonSync
    <3>1. Start(canon) /\ pc' = "canonSynced" /\ UNCHANGED jobVars
      BY <2>3 DEF CanonExtends, CanonSync, At
    <3> QED BY <1>1, <3>1 DEF JobTypeOK, jobVars
  <2> QED BY <2>1, <2>2, <2>3
<1>8. PICK p \in Tokens :
         /\ Start(p)
         /\ pc' \in {"coldSynced", "synced", "canonSynced"}
         /\ pc' = "synced" => p = prompt'
         /\ pc' = "coldSynced" => coldLen' \in 0..Len(prompt')
         /\ JobTypeOK'
  BY <1>7
<1>9. /\ sync' \in Sync /\ SyncPath'
      /\ Syncing' => sync'.prompt = p /\ sync'.at = sync'.from
      /\ ~Syncing' => ~sync'.ok
  BY <1>4, <1>8, InvSession, StartKeeps
<1>10. SessionTypeOK' /\ CacheTypeOK' /\ FilesGenuine'
  BY <1>1, <1>3, <1>4, <1>5, <1>9 DEF SessionTypeOK, CacheTypeOK, FilesGenuine
<1>11. StorePath'
  BY <1>5, <1>9 DEF StorePath
<1>12. JobPath' /\ PromptReady'
  BY <1>8, <1>9 DEF JobPath, PromptReady
<1> QED BY <1>8, <1>9, <1>10, <1>11, <1>12 DEF Inv, TypeOK, JobTypeOK

(* The steps of a sync, with the snapshot a chunk may ask for.             *)
LEMMA SyncKeeps ==
    ASSUME Inv, ChunkStep \/ SyncStep \/ SyncBreaks
    PROVE  Inv'
<1>1. JobTypeOK /\ CacheTypeOK /\ FilesGenuine /\ JobPath /\ PromptReady /\ ~Storing /\ sync \in Sync
  BY TypeParts DEF Inv, ChunkStep, SyncStep, SyncBreaks, SessionTypeOK
<1>2. UNCHANGED <<file, lastStore, excess, pc, prompt, cached, coldLen, left, toolCall, failed, canon>>
  BY DEF ChunkStep, SyncStep, SyncBreaks, cache, jobVars
<1>3. JobTypeOK' /\ FilesGenuine'
  BY <1>1, <1>2 DEF JobTypeOK, FilesGenuine
<1>4. CASE ChunkStep
  <2>1. /\ SessionTypeOK' /\ SyncPath'
        /\ Syncing' /\ sync'.mode = "chunks" /\ sync'.prompt = sync.prompt
        /\ progress' = progress /\ config' = config /\ Syncing
    BY <1>4, InvSession, ChunkKeeps DEF ChunkStep, Chunk, Syncing
  <2>2. /\ store' = IF progress >= 0 /\ sync'.at > progress
                    THEN Continued(checkpoint', lastStore) ELSE NoStore
    BY <1>4 DEF ChunkStep
  <2>3. checkpoint' \in Tokens /\ lastStore \in Nat
    BY <1>1, <2>1 DEF SessionTypeOK, CacheTypeOK
  <2>4. store' \in Store /\ store'.step \in {"off", "check"} /\ (Storing' => progress' >= 0)
    BY <2>1, <2>2, <2>3, StoreTypes DEF NoStore, Storing
  <2>5. CacheTypeOK' /\ StorePath'
    BY <1>1, <1>2, <2>1, <2>4 DEF CacheTypeOK, StorePath
  <2>6. pc \in {"coldSynced", "synced", "canonSynced"}
    BY <1>1, <2>1 DEF JobPath
  <2>7. JobPath' /\ PromptReady'
    BY <1>1, <1>2, <2>1, <2>6 DEF JobPath, PromptReady
  <2> QED BY <1>3, <2>1, <2>5, <2>7 DEF Inv, TypeOK, JobTypeOK
<1>5. CASE SyncStep \/ SyncBreaks
  <2>1. /\ SessionTypeOK' /\ SyncPath'
        /\ Syncing /\ config' = config
        /\ Syncing' => sync' = sync
        /\ ~Syncing' /\ sync'.ok =>
              valid' /\ checkpoint' = sync.prompt /\ Len(sync.prompt) <= config.ctx
    BY <1>5, InvSession, SyncStepKeeps DEF SyncStep, SyncBreaks
  <2>2. store' = store
    BY <1>5 DEF SyncStep, SyncBreaks, cache
  <2>3. CacheTypeOK' /\ ~Storing'
    BY <1>1, <1>2, <2>2 DEF CacheTypeOK, Storing
  <2>4. StorePath'
    BY <2>3 DEF StorePath, Storing
  <2>5. pc \in {"coldSynced", "synced", "canonSynced"} /\ (pc = "synced" => sync.prompt = prompt)
    BY <1>1, <2>1 DEF JobPath
  <2>6. JobPath' /\ PromptReady'
    BY <1>1, <1>2, <2>1, <2>5 DEF JobPath, PromptReady
  <2> QED BY <1>3, <2>1, <2>3, <2>4, <2>6 DEF Inv, TypeOK, JobTypeOK
<1> QED BY <1>4, <1>5

(* The steps that change the session outside a sync.                       *)
LEMMA SessionKeeps ==
    ASSUME Inv, Load \/ DecodeFails \/ (\E ts \in Accepted : Decode(ts)) \/ HitStop \/ CanonRebuilds
    PROVE  Inv'
<1>1. /\ JobTypeOK /\ CacheTypeOK /\ FilesGenuine /\ JobPath /\ PromptReady /\ SyncPath
      /\ config \in Configs /\ checkpoint \in Seq(Token) /\ valid \in BOOLEAN /\ graph \in Rows
      /\ logits \in Rows /\ progress \in Nat \cup {-1} /\ sync \in Sync
      /\ prompt \in Seq(Token) /\ canon \in Tokens /\ prompt \in Tokens
  BY TypeParts DEF Inv, SessionTypeOK, JobTypeOK, Tokens
<1>2. ~Syncing /\ ~Storing /\ sync.mode = "off"
  BY DEF Load, DecodeFails, Ends, Decode, HitStop, CanonRebuilds, At, Ready, Syncing
<1>3. <<>> \in Tokens /\ NoStore \in Store /\ NoStore.step = "off"
  BY StoreTypes DEF Tokens, NoStore
<1>4. ASSUME sync' = sync, UNCHANGED <<config, progress, file, lastStore, excess>>,
             store' = store \/ store' = NoStore,
             Exact', checkpoint' \in Tokens, graph' \in Rows, logits' \in Rows, valid' \in BOOLEAN
      PROVE  SessionTypeOK' /\ CacheTypeOK' /\ SyncPath' /\ StorePath' /\ FilesGenuine' /\ ~Syncing'
  <2>1. SessionTypeOK' /\ CacheTypeOK' /\ FilesGenuine'
    BY <1>1, <1>3, <1>4 DEF SessionTypeOK, CacheTypeOK, FilesGenuine
  <2>2. ~Syncing' /\ ~Storing'
    BY <1>2, <1>3, <1>4 DEF Syncing, Storing
  <2>3. SyncPath'
    BY <1>1, <1>2, <1>4 DEF SyncPath, Syncing
  <2>4. StorePath'
    BY <2>2 DEF StorePath, Storing
  <2> QED BY <2>1, <2>2, <2>3, <2>4
<1>5. CASE Load
  <2>1. /\ pc' = "prefill" /\ UNCHANGED <<prompt, coldLen, left, toolCall, failed, canon>>
        /\ LoadNothing \/ LoadFails(prompt) \/ LoadHits(prompt)
    BY <1>5 DEF Load, At
  <2>2. /\ SessionTypeOK' /\ CacheTypeOK' /\ SyncPath' /\ FilesGenuine'
        /\ store' = NoStore /\ sync' = sync
    BY <1>1, <1>2, <2>1, LoadKeeps
  <2>3. cached' \in Nat
    <3>1. checkpoint' \in Seq(Token)
      BY <2>2 DEF SessionTypeOK, Tokens
    <3>2. cached' = 0 \/ cached' = Len(checkpoint')
      BY <1>5 DEF Load
    <3> QED BY <3>1, <3>2
  <2>4. JobTypeOK'
    BY <1>1, <2>1, <2>3 DEF JobTypeOK
  <2>5. ~Syncing' /\ ~Storing'
    BY <1>2, <1>3, <2>2 DEF Syncing, Storing
  <2>6. StorePath' /\ JobPath' /\ PromptReady'
    BY <2>1, <2>5 DEF StorePath, JobPath, PromptReady, Storing
  <2> QED BY <2>2, <2>4, <2>6 DEF Inv, TypeOK, JobTypeOK
<1>6. CASE DecodeFails
  <2>1. /\ pc' = "finish" /\ failed' = TRUE
        /\ graph' = Mixed /\ logits' = Mixed /\ valid' = FALSE
        /\ UNCHANGED <<config, checkpoint, progress, sync, cache, prompt, cached, coldLen, left,
                       toolCall, canon>>
    BY <1>6 DEF DecodeFails, Ends, EvalFails, At
  <2>2. Exact' /\ graph' \in Rows /\ logits' \in Rows /\ checkpoint' \in Tokens
    BY <1>1, <2>1 DEF Exact, Rows, Tokens
  <2>3. SessionTypeOK' /\ CacheTypeOK' /\ SyncPath' /\ StorePath' /\ FilesGenuine' /\ ~Syncing'
    BY <1>4, <2>1, <2>2 DEF cache
  <2>4. JobTypeOK' /\ JobPath' /\ PromptReady'
    BY <1>1, <2>1, <2>3 DEF JobTypeOK, JobPath, PromptReady
  <2> QED BY <2>3, <2>4 DEF Inv, TypeOK, JobTypeOK
<1>7. CASE \E ts \in Accepted : Decode(ts)
  <2>1. PICK ts \in Accepted : Decode(ts)
    BY <1>7
  <2>2. ts \in Seq(Token) /\ Len(ts) \in Nat \ {0}
    <3>1. PICK k \in 1..MaxAccept : ts \in [1..k -> Sampled]
      BY <2>1 DEF Accepted
    <3>2. k \in Nat \ {0} /\ Sampled \subseteq Token
      BY JobAssumption
    <3>3. ts \in [1..k -> Token]
      BY <3>1, <3>2
    <3> QED BY <3>2, <3>3, SMTT(30)
  <2>3. /\ pc = "sample" /\ pc' = "emit" /\ Len(checkpoint) + Len(ts) <= config.ctx
        /\ checkpoint' = checkpoint \o ts /\ graph' = graph \o ts /\ logits' = graph \o ts
        /\ left' = Len(ts)
        /\ UNCHANGED <<config, valid, progress, sync, cache, prompt, cached, coldLen, toolCall,
                       failed, canon>>
    BY <2>1 DEF Decode, At, Eval
  <2>4. valid /\ IsPrefix(prompt, checkpoint)
    BY <1>1, <2>3 DEF PromptReady
  <2>5. graph = checkpoint
    BY <1>1, <1>2, <2>4 DEF SyncPath, Exact
  <2>6. /\ IsPrefix(prompt, checkpoint') /\ checkpoint' \in Seq(Token)
        /\ Len(checkpoint') = Len(checkpoint) + Len(ts)
    BY <1>1, <2>2, <2>3, <2>4, PrefixKept
  <2>7. Exact' /\ checkpoint' \in Tokens /\ graph' \in Rows /\ logits' \in Rows
    BY <2>3, <2>5, <2>6 DEF Exact, Rows, Tokens
  <2>8. SessionTypeOK' /\ CacheTypeOK' /\ SyncPath' /\ StorePath' /\ FilesGenuine' /\ ~Syncing'
    BY <1>1, <1>4, <2>3, <2>7 DEF cache
  <2>9. JobTypeOK'
    BY <1>1, <2>2, <2>3 DEF JobTypeOK
  <2>10. JobPath' /\ PromptReady'
    BY <2>2, <2>3, <2>4, <2>6, <2>8 DEF JobPath, PromptReady
  <2> QED BY <2>8, <2>9, <2>10 DEF Inv, TypeOK, JobTypeOK
<1>8. CASE HitStop
  <2>1. /\ pc' = "finish" /\ checkpoint' = <<>> /\ valid' = FALSE
        /\ UNCHANGED <<config, graph, logits, progress, sync, cache, jobVars>>
    BY <1>8 DEF HitStop, At, Invalidate
  <2>2. Exact' /\ graph' \in Rows /\ logits' \in Rows /\ checkpoint' \in Tokens
    BY <1>1, <1>3, <2>1 DEF Exact
  <2>3. SessionTypeOK' /\ CacheTypeOK' /\ SyncPath' /\ StorePath' /\ FilesGenuine' /\ ~Syncing'
    BY <1>4, <2>1, <2>2 DEF cache
  <2>4. JobTypeOK' /\ JobPath' /\ PromptReady'
    BY <1>1, <2>1, <2>3 DEF JobTypeOK, JobPath, PromptReady, jobVars
  <2> QED BY <2>3, <2>4 DEF Inv, TypeOK, JobTypeOK
<1>9. CASE CanonRebuilds
  <2>1. pc' = "canonSync" /\ UNCHANGED jobVars
    BY <1>9 DEF CanonRebuilds, At
  <2>2. /\ SessionTypeOK' /\ CacheTypeOK' /\ SyncPath' /\ StorePath' /\ FilesGenuine'
        /\ ~Syncing'
    <3>1. CASE LoadHits(canon) \/ LoadFails(canon)
      <4>1. /\ SessionTypeOK' /\ CacheTypeOK' /\ SyncPath' /\ FilesGenuine'
            /\ store' = NoStore /\ sync' = sync
        BY <1>1, <1>2, <3>1, LoadKeeps
      <4>2. ~Syncing' /\ ~Storing'
        BY <1>2, <1>3, <4>1 DEF Syncing, Storing
      <4> QED BY <4>1, <4>2 DEF StorePath, Storing
    <3>2. CASE Invalidate /\ UNCHANGED <<config, graph, logits, progress, sync, cache>>
      <4>1. Exact' /\ graph' \in Rows /\ logits' \in Rows /\ checkpoint' \in Tokens /\ valid' = FALSE
        BY <1>1, <1>3, <3>2 DEF Exact, Invalidate
      <4> QED BY <1>4, <3>2, <4>1 DEF cache
    <3> QED BY <1>9, <3>1, <3>2 DEF CanonRebuilds
  <2>3. JobTypeOK' /\ JobPath' /\ PromptReady'
    BY <1>1, <2>1, <2>2 DEF JobTypeOK, JobPath, PromptReady, jobVars
  <2> QED BY <2>2, <2>3 DEF Inv, TypeOK, JobTypeOK
<1> QED BY <1>5, <1>6, <1>7, <1>8, <1>9

(* A crash leaves the files and nothing else.                              *)
LEMMA RestartKeeps ==
    ASSUME Inv, Restart
    PROVE  Inv'
<1>1. <<>> \in Tokens /\ Len(<<>>) = 0 /\ NoStore \in Store
  BY StoreTypes DEF Tokens
<1>2. CacheTypeOK /\ FilesGenuine
  BY TypeParts DEF Inv
<1>3. /\ config' \in Configs /\ checkpoint' = <<>> /\ valid' = FALSE /\ graph' = Mixed /\ logits' = Mixed
      /\ progress' = -1 /\ sync' = Synced(TRUE) /\ pc' = "idle" /\ Scope(<<>>, 0)
      /\ store' = [NoStore EXCEPT !.step = "evict"] /\ lastStore' = 0 /\ excess' = 0
      /\ file' = file
  BY DEF Restart, Reopen
<1>4. /\ sync' \in Sync /\ sync'.mode = "off" /\ sync'.from = 0 /\ sync'.at = 0
      /\ Len(sync'.prompt) = 0
  BY <1>1, <1>3 DEF Synced, Sync, Modes
<1>5. store' \in Store /\ store'.step = "evict"
  BY <1>1, <1>3 DEF Store
<1>6. SessionTypeOK'
  BY <1>1, <1>3, <1>4 DEF SessionTypeOK, Rows
<1>7. CacheTypeOK' /\ FilesGenuine'
  BY <1>2, <1>3, <1>5 DEF CacheTypeOK, FilesGenuine
<1>8. JobTypeOK'
  BY <1>1, <1>3 DEF Scope, JobTypeOK
<1>9. SyncPath' /\ ~Syncing'
  <2>1. Exact' /\ ~Syncing'
    BY <1>3, <1>4 DEF Exact, Syncing
  <2>2. sync'.from <= sync'.at /\ sync'.at <= Len(sync'.prompt)
    BY <1>4
  <2> QED BY <1>4, <2>1, <2>2 DEF SyncPath, Syncing
<1>10. StorePath' /\ JobPath' /\ PromptReady'
  BY <1>3, <1>5, <1>9 DEF StorePath, JobPath, PromptReady
<1> QED BY <1>6, <1>7, <1>8, <1>9, <1>10 DEF Inv, TypeOK, JobTypeOK

-----------------------------------------------------------------------------
(* The invariant holds at the start and is kept by every step.             *)
LEMMA InvInit == Init => Inv
<1>1. SUFFICES ASSUME Init PROVE Inv
  OBVIOUS
<1>2. <<>> \in Tokens /\ Len(<<>>) = 0 /\ NoStore \in Store /\ NoStore.step = "off"
  BY StoreTypes DEF Tokens, NoStore
<1>3. /\ config \in Configs /\ checkpoint = <<>> /\ valid = FALSE /\ graph = Mixed /\ logits = Mixed
      /\ progress = -1 /\ sync = Synced(TRUE)
  BY <1>1 DEF Init, InitSession
<1>4. sync \in Sync /\ sync.mode = "off" /\ sync.from = 0 /\ sync.at = 0 /\ Len(sync.prompt) = 0
  BY <1>2, <1>3 DEF Synced, Sync, Modes
<1>5. SessionTypeOK
  BY <1>2, <1>3, <1>4 DEF SessionTypeOK, Rows
<1>6. DOMAIN file = {}
  BY <1>1 DEF Init
<1>7. CacheTypeOK /\ FilesGenuine
  BY <1>1, <1>2, <1>6 DEF Init, CacheTypeOK, FilesGenuine
<1>8. JobTypeOK
  BY <1>1, <1>2 DEF Init, JobTypeOK
<1>9. SyncPath /\ ~Syncing
  <2>1. Exact /\ ~Syncing
    BY <1>3, <1>4 DEF Exact, Syncing
  <2>2. sync.from <= sync.at /\ sync.at <= Len(sync.prompt)
    BY <1>4
  <2> QED BY <1>4, <2>1, <2>2 DEF SyncPath, Syncing
<1>10. StorePath /\ JobPath /\ PromptReady
  BY <1>1, <1>2, <1>9 DEF Init, StorePath, JobPath, PromptReady
<1> QED BY <1>5, <1>7, <1>8, <1>9, <1>10 DEF Inv, TypeOK, JobTypeOK

LEMMA InvNext == Inv /\ [Next]_vars => Inv'
<1>1. SUFFICES ASSUME Inv, [Next]_vars PROVE Inv'
  OBVIOUS
<1>2. CASE UNCHANGED vars
  BY <1>1, <1>2 DEF vars, session, cache, jobVars, Inv, TypeOK, SessionTypeOK, CacheTypeOK, SyncPath,
     StorePath, FilesGenuine, JobPath, PromptReady, Exact, Syncing, Storing, Fits
<1>3. CASE StoreRoutine
  BY <1>1, <1>3, StoreKeeps
<1>4. CASE Quiet
  BY <1>1, <1>4, QuietKeepsJob
<1>5. CASE Prefill \/ ColdStored \/ CanonExtends \/ CanonSync
  BY <1>1, <1>5, BeginsSync
<1>6. CASE ChunkStep \/ SyncStep \/ SyncBreaks
  BY <1>1, <1>6, SyncKeeps
<1>7. CASE Load \/ DecodeFails \/ (\E ts \in Accepted : Decode(ts)) \/ HitStop \/ CanonRebuilds
  BY <1>1, <1>7, SessionKeeps
<1>8. CASE Restart
  BY <1>1, <1>8, RestartKeeps
<1> QED BY <1>1, <1>2, <1>3, <1>4, <1>5, <1>6, <1>7, <1>8 DEF Next, Work, Fault, Quiet

THEOREM Invariance == Spec => []Inv
BY InvInit, InvNext, PTL DEF Spec

(* Session, cache and request are well typed whatever fails.               *)
THEOREM TypeCorrect == Spec => []TypeOK
<1>1. Inv => TypeOK
  BY DEF Inv
<1> QED BY <1>1, Invariance, PTL

(* For every prompt, chunk size, ring size and configuration: where a      *)
(* snapshot, the sampler or the next request may look, a valid session has *)
(* the rows and logits of exactly its checkpoint.                          *)
THEOREM SessionCoherent == Spec => []Coherent
BY InvCoherent, Invariance, PTL

(* Every file holds the state of the tokens it is named after, through     *)
(* crashes at any step, failed writes and changes of configuration.        *)
THEOREM CacheGenuine == Spec => []FilesGenuine
<1>1. Inv => FilesGenuine
  BY DEF Inv
<1> QED BY <1>1, Invariance, PTL

(* Every chunk of a prefill gets on, and none passes the end of the prompt *)
(* or, if the prefill was resumed, a multiple of the prefill cap, wherever *)
(* it resumes and however narrow the ring of raw rows is.                  *)
ChunksAdvance ==
    [][ChunkStep =>
          /\ sync.at < sync'.at /\ sync'.at <= Len(sync.prompt)
          /\ sync.from # 0 => sync'.at <= sync.at + (config.cap - (sync.at % config.cap))]_vars

THEOREM ChunkProgress == Spec => ChunksAdvance
<1>1. ASSUME Inv, ChunkStep
      PROVE  /\ sync.at < sync'.at /\ sync'.at <= Len(sync.prompt)
             /\ sync.from # 0 => sync'.at <= sync.at + (config.cap - (sync.at % config.cap))
  <2>1. SessionInv /\ sync \in Sync
    BY <1>1, InvSession DEF SessionInv, SessionTypeOK
  <2>2. sync.at < Len(sync.prompt) /\ sync'.at = ChunkEnd
    BY <1>1, <2>1 DEF ChunkStep, Chunk, Sync
  <2> QED BY <2>1, <2>2, ChunkEndIs
<1>2. Inv /\ [Next]_vars =>
        (ChunkStep =>
          /\ sync.at < sync'.at /\ sync'.at <= Len(sync.prompt)
          /\ sync.from # 0 => sync'.at <= sync.at + (config.cap - (sync.at % config.cap)))
  BY <1>1
<1> QED BY <1>2, Invariance, PTL DEF Spec, ChunksAdvance

(* Sampling starts from, and stays on, the request's own prompt.           *)
THEOREM OwnPrompt == Spec => []PromptReady
<1>1. Inv => PromptReady
  BY DEF Inv
<1> QED BY <1>1, Invariance, PTL
-----------------------------------------------------------------------------
(* The bytes in a directory of files.                                      *)
Directory(f) == DOMAIN f \subseteq Tokens /\ \A n \in DOMAIN f : f[n] \in Entry

BytesOf(f) == [n \in DOMAIN f |-> Len(n) + Overhead + f[n].map]
Total(f)   == SumFunctionOnSet(BytesOf(f), DOMAIN f)

LEMMA BytesIs ==
    ASSUME NEW f, Directory(f)
    PROVE  /\ BytesOf(f) \in [DOMAIN f -> Nat]
           /\ \A n \in DOMAIN f : /\ BytesOf(f)[n] = Len(n) + Overhead + f[n].map
                                 /\ Len(n) \in Nat /\ f[n].map \in Nat /\ Overhead \in Nat
<1>1. \A n \in DOMAIN f : Len(n) \in Nat /\ f[n].map \in Nat /\ Overhead \in Nat
  BY OptionAssumption DEF Directory, Tokens, Entry
<1> QED BY <1>1 DEF BytesOf

(* One file, and the rest.                                                 *)
LEMMA TotalWithout ==
    ASSUME NEW f, Directory(f), IsFiniteSet(DOMAIN f)
    PROVE  /\ Total(f) \in Nat
           /\ \A n \in DOMAIN f :
                 /\ IsFiniteSet(DOMAIN f \ {n})
                 /\ SumFunctionOnSet(BytesOf(f), DOMAIN f \ {n}) \in Nat
                 /\ Total(f) = BytesOf(f)[n] + SumFunctionOnSet(BytesOf(f), DOMAIN f \ {n})
<1> DEFINE D == DOMAIN f
           B == BytesOf(f)
<1>1. B \in [D -> Nat]
  BY BytesIs
<1>2. Total(f) = SumFunctionOnSet(B, D)
  BY DEF Total
<1>3. IsFiniteSet(D) /\ D \in SUBSET D
  OBVIOUS
<1> HIDE DEF B, D
<1>4. SumFunctionOnSet(B, D) \in Nat
  BY <1>1, <1>3, SumPick
<1>5. ASSUME NEW n \in D
      PROVE  /\ IsFiniteSet(D \ {n}) /\ SumFunctionOnSet(B, D \ {n}) \in Nat
             /\ SumFunctionOnSet(B, D) = B[n] + SumFunctionOnSet(B, D \ {n})
  <2> DEFINE R == D \ {n}
  <2>1. IsFiniteSet(R) /\ R \in SUBSET D
    BY <1>3, FS_RemoveElement
  <2>2. SumFunctionOnSet(B, D) = B[n] + SumFunctionOnSet(B, R)
    BY <1>1, <1>3, SumWithout
  <2> HIDE DEF R
  <2>3. SumFunctionOnSet(B, R) \in Nat
    BY <1>1, <2>1, SumPick
  <2> QED BY <2>1, <2>2, <2>3 DEF R
<1> QED BY <1>2, <1>4, <1>5 DEF B, D

(* The rest of two directories that agree on it.                           *)
LEMMA RestSame ==
    ASSUME NEW f, NEW g, Directory(f), Directory(g), NEW R \in SUBSET DOMAIN f,
           R \in SUBSET DOMAIN g, IsFiniteSet(R), \A n \in R : f[n].map = g[n].map
    PROVE  SumFunctionOnSet(BytesOf(f), R) = SumFunctionOnSet(BytesOf(g), R)
<1> DEFINE B == BytesOf(f)
           C == BytesOf(g)
<1>1. B \in [DOMAIN f -> Nat] /\ C \in [DOMAIN g -> Nat] /\ \A n \in R : B[n] = C[n]
  BY BytesIs
<1> HIDE DEF B, C
<1>2. SumFunctionOnSet(B, R) = SumFunctionOnSet(C, R)
  BY <1>1, SumSame
<1> QED BY <1>2 DEF B, C

(* A directory with a file less is smaller.                                *)
LEMMA TotalFewer ==
    ASSUME NEW f, NEW g, Directory(f), Directory(g), IsFiniteSet(DOMAIN f), NEW n \in DOMAIN f,
           DOMAIN g = DOMAIN f \ {n}, \A m \in DOMAIN g : f[m].map = g[m].map
    PROVE  IsFiniteSet(DOMAIN g) /\ Total(g) <= Total(f)
<1> DEFINE R == DOMAIN f \ {n}
<1>1. /\ IsFiniteSet(R) /\ SumFunctionOnSet(BytesOf(f), R) \in Nat
      /\ Total(f) = BytesOf(f)[n] + SumFunctionOnSet(BytesOf(f), R) /\ BytesOf(f)[n] \in Nat
  BY TotalWithout, BytesIs
<1>2. R \in SUBSET DOMAIN f /\ R = DOMAIN g /\ \A m \in R : f[m].map = g[m].map
  OBVIOUS
<1> HIDE DEF R
<1>3. SumFunctionOnSet(BytesOf(f), R) = SumFunctionOnSet(BytesOf(g), R)
  BY <1>1, <1>2, RestSame
<1>4. Total(g) = SumFunctionOnSet(BytesOf(g), R)
  BY <1>2 DEF Total
<1> QED BY <1>1, <1>2, <1>3, <1>4

(* Where one file's map has another length, so has the directory.          *)
LEMMA TotalSame ==
    ASSUME NEW f, NEW g, Directory(f), Directory(g), IsFiniteSet(DOMAIN f), NEW n \in DOMAIN f,
           DOMAIN g = DOMAIN f, \A m \in DOMAIN f : m # n => f[m].map = g[m].map
    PROVE  Total(g) <= Total(f) + Growth(f[n].map, g[n].map)
<1> DEFINE R == DOMAIN f \ {n}
<1>1. /\ IsFiniteSet(R) /\ SumFunctionOnSet(BytesOf(f), R) \in Nat
      /\ Total(f) = BytesOf(f)[n] + SumFunctionOnSet(BytesOf(f), R)
      /\ Total(g) = BytesOf(g)[n] + SumFunctionOnSet(BytesOf(g), R)
  BY TotalWithout
<1>2. R \in SUBSET DOMAIN f /\ R \in SUBSET DOMAIN g /\ \A m \in R : f[m].map = g[m].map
  OBVIOUS
<1>3. /\ BytesOf(f)[n] = Len(n) + Overhead + f[n].map
      /\ BytesOf(g)[n] = Len(n) + Overhead + g[n].map
      /\ Len(n) \in Nat /\ f[n].map \in Nat /\ g[n].map \in Nat /\ Overhead \in Nat
  BY BytesIs
<1> HIDE DEF R
<1>4. SumFunctionOnSet(BytesOf(f), R) = SumFunctionOnSet(BytesOf(g), R)
  BY <1>1, <1>2, RestSame
<1>5. Growth(f[n].map, g[n].map) \in Nat /\ g[n].map <= f[n].map + Growth(f[n].map, g[n].map)
  BY <1>3 DEF Growth
<1> DEFINE k == SumFunctionOnSet(BytesOf(f), R)
           l == Len(n)
           a == f[n].map
           b == g[n].map
           c == Growth(f[n].map, g[n].map)
<1>6. /\ k \in Nat /\ l \in Nat /\ a \in Nat /\ b \in Nat /\ c \in Nat /\ Overhead \in Nat
      /\ b <= a + c /\ Total(f) = (l + Overhead + a) + k /\ Total(g) = (l + Overhead + b) + k
  BY <1>1, <1>3, <1>4, <1>5
<1> HIDE DEF k, l, a, b, c
<1>7. Total(g) <= Total(f) + c
  BY <1>6
<1> QED BY <1>7 DEF c

-----------------------------------------------------------------------------
(* What the steps outside the store routine do to the files: at most one   *)
(* goes, or one's hit counter is raised.                                   *)
Elsewhere ==
    \/ Quiet
    \/ Prefill \/ ColdStored \/ CanonExtends \/ CanonSync
    \/ ChunkStep \/ SyncStep \/ SyncBreaks
    \/ Load \/ DecodeFails \/ (\E ts \in Accepted : Decode(ts)) \/ HitStop \/ CanonRebuilds

FilesChange ==
    \/ file' = file
    \/ \E n : file' = Without(n)
    \/ \E n \in DOMAIN file : file' = Touched(n)

LEMMA AnyStep == [Next]_vars => StoreRoutine \/ Restart \/ Elsewhere \/ UNCHANGED vars
BY DEF Next, Work, Fault, Elsewhere, Quiet

LEMMA LoadChanges ==
    ASSUME NEW p \in Tokens, LoadNothing \/ LoadFails(p) \/ LoadHits(p)
    PROVE  FilesChange /\ UNCHANGED <<config, excess>> /\ store' = NoStore
<1>1. CASE LoadNothing
  BY <1>1 DEF LoadNothing, FilesChange, session
<1>2. CASE LoadFails(p)
  BY <1>2 DEF LoadFails, FilesChange
<1>3. CASE LoadHits(p)
  <2>1. PICK n \in Longest(Candidates(p)) :
           file' \in {file, IF ColdMax > 0 /\ Len(n) > ColdMax THEN Without(n) ELSE Touched(n)}
    BY <1>3 DEF LoadHits
  <2>2. n \in DOMAIN file
    BY <2>1 DEF Longest, Candidates
  <2>3. FilesChange
    BY <2>1, <2>2 DEF FilesChange
  <2> QED BY <1>3, <2>3 DEF LoadHits
<1> QED BY <1>1, <1>2, <1>3

LEMMA ElsewhereFrame ==
    ASSUME Inv, Elsewhere
    PROVE  /\ ~Storing /\ FilesChange /\ UNCHANGED <<config, excess>>
           /\ store'.step \in {"off", "check"}
           /\ pc' = "load" => \E p \in Prompts : Begin(p)
<1>1. /\ checkpoint \in Tokens /\ lastStore \in Nat /\ prompt \in Tokens /\ canon \in Tokens
      /\ checkpoint' \in Tokens
  BY BeginsSync, SyncKeeps, QuietKeepsJob, SessionKeeps DEF Elsewhere, Inv, TypeOK, SessionTypeOK, CacheTypeOK
<1>2. /\ NoStore.step = "off"
      /\ Continued(checkpoint, lastStore).step \in {"off", "check"}
      /\ Continued(checkpoint', lastStore).step \in {"off", "check"}
  BY <1>1, StoreTypes DEF NoStore
<1>3. CASE Quiet
  <2>1. /\ ~Storing /\ file' = file /\ UNCHANGED <<config, excess>> /\ store'.step \in {"off", "check"}
    BY <1>3, QuietFrame
  <2>2. pc' = "load" => \E p \in Prompts : Begin(p)
    BY <1>3 DEF Quiet, PrefillFailed, ColdSynced, PromptSynced, HeadersFail, SampleEnds, Ends,
       EmitBreaks, Emit, ToolCallEnds, NextToken, Finish, ParsePlain, ParseCalls, CanonSkipped,
       CanonSynced, Reply, Shutdown, At
  <2> QED BY <2>1, <2>2 DEF FilesChange
<1>4. CASE Prefill \/ ColdStored \/ CanonExtends \/ CanonSync
  BY <1>2, <1>4 DEF Prefill, ColdStored, CanonExtends, CanonSync, At, Ready, FirstEvent, FilesChange
<1>5. CASE ChunkStep
  <2>1. pc' # "load"
    <3>1. Syncing /\ pc' = pc
      BY <1>5 DEF ChunkStep, Chunk, Syncing
    <3> QED BY <3>1 DEF Inv, JobPath
  <2> QED BY <1>2, <1>5, <2>1 DEF ChunkStep, Chunk, FilesChange
<1>6. CASE SyncStep \/ SyncBreaks
  <2>1. /\ Syncing /\ config' = config
    BY <1>6, InvSession, SyncStepKeeps DEF SyncStep, SyncBreaks
  <2>2. pc' # "load"
    BY <1>6, <2>1 DEF SyncStep, SyncBreaks, Inv, JobPath
  <2> QED BY <1>6, <2>1, <2>2 DEF SyncStep, SyncBreaks, cache, Storing, FilesChange
<1>7. CASE Load
  <2>1. LoadNothing \/ LoadFails(prompt) \/ LoadHits(prompt)
    BY <1>7 DEF Load
  <2>2. FilesChange /\ UNCHANGED <<config, excess>> /\ store' = NoStore
    BY <1>1, <2>1, LoadChanges
  <2> QED BY <1>2, <1>7, <2>2 DEF Load, At, Ready
<1>8. CASE CanonRebuilds
  <2>1. ~Storing /\ pc' = "canonSync"
    BY <1>8 DEF CanonRebuilds, At, Ready
  <2>2. CASE LoadHits(canon) \/ LoadFails(canon)
    <3>1. FilesChange /\ UNCHANGED <<config, excess>> /\ store' = NoStore
      BY <1>1, <2>2, LoadChanges
    <3> QED BY <1>2, <2>1, <3>1
  <2>3. CASE UNCHANGED <<config, graph, logits, progress, sync, cache>>
    BY <2>1, <2>3 DEF cache, Storing, FilesChange
  <2> QED BY <1>8, <2>2, <2>3 DEF CanonRebuilds
<1>9. CASE DecodeFails \/ (\E ts \in Accepted : Decode(ts)) \/ HitStop
  BY <1>9 DEF DecodeFails, Ends, EvalFails, Decode, Eval, HitStop, At, Ready, cache, Storing, FilesChange
<1> QED BY <1>3, <1>4, <1>5, <1>6, <1>7, <1>8, <1>9 DEF Elsewhere

-----------------------------------------------------------------------------
(* The budget.  Until a store comes to its evictions, all it adds to the   *)
(* directory is a longer map.                                              *)
BudgetInv ==
    /\ IsFiniteSet(DOMAIN file)
    /\ store.step # "evict" => DirBytes <= Budget + excess

LEMMA DirIs == DirBytes = Total(file) /\ DirBytes' = Total(file')
BY DEF DirBytes, Total, Bytes, BytesOf

(* Taking files away, or raising a counter, adds no bytes.                 *)
LEMMA ChangeBytes ==
    ASSUME Directory(file), Directory(file'), IsFiniteSet(DOMAIN file), FilesChange
    PROVE  IsFiniteSet(DOMAIN file') /\ Total(file') <= Total(file)
<1>1. Total(file) \in Nat
  BY TotalWithout
<1>2. CASE file' = file
  BY <1>1, <1>2
<1>3. CASE \E n : file' = Without(n)
  <2>1. PICK n : file' = Without(n)
    BY <1>3
  <2>2. DOMAIN file' = DOMAIN file \ {n} /\ \A m \in DOMAIN file' : file[m] = file'[m]
    BY <2>1 DEF Without
  <2>3. CASE n \in DOMAIN file
    BY <2>2, <2>3, TotalFewer
  <2>4. CASE n \notin DOMAIN file
    <3>1. DOMAIN file' = DOMAIN file /\ BytesOf(file') = BytesOf(file)
      BY <2>2, <2>4 DEF BytesOf
    <3> QED BY <1>1, <3>1 DEF Total
  <2> QED BY <2>3, <2>4
<1>4. CASE \E n \in DOMAIN file : file' = Touched(n)
  <2>1. PICK n \in DOMAIN file : file' = Touched(n)
    BY <1>4
  <2>2. DOMAIN file' = DOMAIN file /\ \A m \in DOMAIN file : file[m].map = file'[m].map
    <3> DEFINE e == [file[n] EXCEPT !.hits = Least(file[n].hits + 1, MaxHits)]
    <3>1. e.map = file[n].map
      BY DEF Directory, Entry
    <3>2. /\ DOMAIN file' = DOMAIN file
          /\ \A m \in DOMAIN file' : file'[m] = IF m = n THEN e ELSE file[m]
      BY <2>1 DEF Touched
    <3> HIDE DEF e
    <3> QED BY <3>1, <3>2
  <2>3. Growth(file[n].map, file'[n].map) = 0
    <3>1. file[n].map \in Nat
      BY BytesIs
    <3> QED BY <2>2, <3>1 DEF Growth
  <2>4. Total(file') <= Total(file) + 0
    BY <2>2, <2>3, TotalSame
  <2> QED BY <1>1, <2>2, <2>4
<1> QED BY <1>2, <1>3, <1>4 DEF FilesChange

LEMMA BudgetNext == Inv /\ BudgetInv /\ [Next]_vars => BudgetInv'
<1> SUFFICES ASSUME Inv, BudgetInv, [Next]_vars PROVE BudgetInv'
  OBVIOUS
<1>1. /\ Directory(file) /\ IsFiniteSet(DOMAIN file) /\ Budget \in Nat /\ store.name \in Tokens
      /\ excess \in Nat /\ Total(file) \in Nat /\ Directory(file') /\ CacheTypeOK
  <2>1. /\ Directory(file) /\ IsFiniteSet(DOMAIN file) /\ store.name \in Tokens /\ CacheTypeOK
        /\ excess \in Nat
    BY DEF Inv, TypeOK, CacheTypeOK, BudgetInv, Store, Directory
  <2>2. Directory(file')
    BY InvNext DEF Inv, TypeOK, CacheTypeOK, Directory
  <2> QED BY <2>1, <2>2, OptionAssumption, TotalWithout
<1>2. ASSUME FilesChange, excess' = excess, store.step # "evict"
      PROVE  BudgetInv'
  <2>1. IsFiniteSet(DOMAIN file') /\ Total(file') <= Total(file)
    BY <1>1, <1>2, ChangeBytes
  <2>2. Total(file') \in Nat
    BY <1>1, <2>1, TotalWithout
  <2>3. Total(file) <= Budget + excess
    BY <1>2, DirIs DEF BudgetInv
  <2>4. Total(file') <= Budget + excess'
    BY <1>1, <1>2, <2>1, <2>2, <2>3
  <2> QED BY <2>1, <2>4, DirIs DEF BudgetInv
<1>3. ASSUME file' = file, store'.step # "evict" => Total(file) <= Budget + excess'
      PROVE  BudgetInv'
  BY <1>1, <1>3, DirIs DEF BudgetInv
<1>4. CASE StoreRoutine
  <2>1. CASE StoreCheck
    <3>1. store.step # "evict"
      BY <2>1 DEF StoreCheck
    <3>2. CASE store.name \in DOMAIN file /\ \E size \in 0..MaxMap : RewriteMap(size)
      <4>1. PICK size \in 0..MaxMap : RewriteMap(size)
        BY <3>2
      <4>2. /\ DOMAIN file' = DOMAIN file /\ file'[store.name].map = size
            /\ \A n \in DOMAIN file : n # store.name => file'[n] = file[n]
            /\ excess' \in Nat /\ excess' = excess + Growth(file[store.name].map, size)
        BY <1>1, <3>2, <4>1, MapWritten
      <4>3. Total(file') <= Total(file) + Growth(file[store.name].map, file'[store.name].map)
        BY <1>1, <3>2, <4>2, TotalSame
      <4>4. Growth(file[store.name].map, size) \in Nat
        <5>1. file[store.name].map \in Nat /\ size \in Nat
          BY <1>1, <3>2, BytesIs, OptionAssumption
        <5> QED BY <5>1 DEF Growth
      <4>5. Total(file) <= Budget + excess
        BY <3>1, DirIs DEF BudgetInv
      <4>6. IsFiniteSet(DOMAIN file') /\ Total(file') \in Nat
        BY <1>1, <4>2, TotalWithout
      <4>7. Total(file') <= Budget + excess'
        BY <1>1, <4>2, <4>3, <4>4, <4>5, <4>6
      <4> QED BY <4>6, <4>7, DirIs DEF BudgetInv
    <3>3. CASE FilesChange /\ excess' = excess
      BY <1>2, <3>1, <3>3
    <3> QED BY <2>1, <3>2, <3>3 DEF StoreCheck, FilesChange
  <2>2. CASE StoreRename
    <3>1. DOMAIN file' = DOMAIN file \cup {store.name}
      BY <2>2 DEF StoreRename
    <3>2. IsFiniteSet(DOMAIN file')
      BY <1>1, <3>1, FS_AddElement
    <3>3. store'.step = "evict"
      BY <2>2 DEF StoreRename, Inv, TypeOK, CacheTypeOK, Store
    <3> QED BY <3>2, <3>3 DEF BudgetInv
  <2>3. CASE StoreFails
    BY <1>2, <2>3 DEF StoreFails, FilesChange
  <2>4. CASE EvictOne
    <3>1. FilesChange
      BY <2>4 DEF EvictOne, FilesChange
    <3>2. IsFiniteSet(DOMAIN file')
      BY <1>1, <3>1, ChangeBytes
    <3>3. store'.step = "evict"
      BY <2>4 DEF EvictOne, Inv, TypeOK, CacheTypeOK, Store
    <3> QED BY <3>2, <3>3 DEF BudgetInv
  <2>5. CASE EvictStuck \/ EvictDone
    <3>1. file' = file /\ excess' \in Nat /\ Total(file) <= Budget + excess'
      BY <1>1, <2>5, DirIs, OptionAssumption DEF EvictStuck, EvictDone
    <3> QED BY <1>3, <3>1
  <2> QED BY <1>4, <2>1, <2>2, <2>3, <2>4, <2>5 DEF StoreRoutine, StoreStep
<1>5. CASE Restart
  <2>1. file' = file /\ store'.step = "evict"
    BY <1>5 DEF Restart, Reopen, NoStore
  <2> QED BY <1>3, <2>1
<1>6. CASE Elsewhere
  <2>1. ~Storing /\ FilesChange /\ excess' = excess
    BY <1>6, ElsewhereFrame
  <2> QED BY <1>2, <2>1 DEF Storing
<1>7. CASE UNCHANGED vars
  BY <1>3, <1>7, DirIs DEF vars, cache, BudgetInv
<1> QED BY <1>4, <1>5, <1>6, <1>7, AnyStep

(* Outside a store the directory is within its budget, whatever the store  *)
(* wrote, failed to write, or found there at the start of the process, but *)
(* for what failing unlinks left at the last eviction and the maps that    *)
(* were rewritten since.                                                   *)
THEOREM CacheOnBudget == Spec => []OnBudget
<1>1. Init => BudgetInv
  <2> SUFFICES ASSUME Init PROVE BudgetInv
    OBVIOUS
  <2>1. DOMAIN file = {} /\ excess = 0
    BY DEF Init
  <2>2. IsFiniteSet(DOMAIN file) /\ Directory(file)
    BY <2>1, FS_EmptySet DEF Directory
  <2>3. Total(file) = 0
    <3> DEFINE B == BytesOf(file)
               D == DOMAIN file
    <3>1. B \in [D -> Nat] /\ D \in SUBSET D /\ D = {} /\ IsFiniteSet(D)
      BY <2>1, <2>2, BytesIs
    <3> HIDE DEF B, D
    <3>2. SumFunctionOnSet(B, D) = 0
      BY <3>1, SumPick
    <3> QED BY <3>2 DEF Total, B, D
  <2> QED BY <2>1, <2>2, <2>3, DirIs, OptionAssumption DEF BudgetInv
<1>2. BudgetInv => OnBudget
  BY DEF BudgetInv, OnBudget, Storing
<1> QED BY <1>1, <1>2, BudgetNext, Invariance, PTL DEF Spec
-----------------------------------------------------------------------------
(* The conversation that is replaced.  While the worker is about to load,  *)
(* the store in progress is the one of the old conversation; what it has   *)
(* written can be loaded unless it was evicted.                            *)
OneChunk == \A c, d \in Configs : c.cap = d.cap

CapsAgree == \A n \in DOMAIN file : file[n].cap = config.cap

Kept ==
    \/ checkpoint \in store.dropped
    \/ checkpoint \in DOMAIN file /\ Compatible(file[checkpoint])

SavePath ==
    pc = "load" =>
        /\ Storing => store.name = checkpoint
        /\ store.step = "evict" => Kept
        /\ store.step = "off" /\ valid /\ Len(checkpoint) >= MinTokens =>
              store.result = "failed" \/ Kept

(* With one chunk size all files have it.                                  *)
LEMMA CapsNext ==
    ASSUME OneChunk, Inv, CapsAgree, [Next]_vars
    PROVE  CapsAgree'
<1>1. DOMAIN file \subseteq Tokens /\ \A n \in DOMAIN file : file[n] \in Entry
  BY DEF Inv, TypeOK, CacheTypeOK
<1>2. ASSUME FilesChange, config' = config PROVE CapsAgree'
  <2>1. CASE file' = file
    BY <1>2, <2>1 DEF CapsAgree
  <2>2. CASE \E n : file' = Without(n)
    BY <1>2, <2>2 DEF CapsAgree, Without
  <2>3. CASE \E n \in DOMAIN file : file' = Touched(n)
    <3>1. PICK n \in DOMAIN file : file' = Touched(n)
      BY <2>3
    <3> DEFINE e == [file[n] EXCEPT !.hits = Least(file[n].hits + 1, MaxHits)]
    <3>2. e.cap = file[n].cap
      BY <1>1 DEF Entry
    <3>3. /\ DOMAIN file' = DOMAIN file
          /\ \A m \in DOMAIN file' : file'[m] = IF m = n THEN e ELSE file[m]
      BY <3>1 DEF Touched
    <3> HIDE DEF e
    <3> QED BY <1>2, <3>2, <3>3 DEF CapsAgree
  <2> QED BY <1>2, <2>1, <2>2, <2>3 DEF FilesChange
<1>3. CASE StoreRoutine
  <2>1. config' = config
    BY <1>3 DEF StoreRoutine, StoreStep, session
  <2>2. CASE StoreRename
    <3>1. PICK size \in 0..MaxMap :
            /\ DOMAIN file' = DOMAIN file \cup {store.name}
            /\ \A n \in DOMAIN file' : file'[n] = IF n = store.name THEN Snapshot(size) ELSE file[n]
      BY <2>2 DEF StoreRename
    <3>2. Snapshot(size).cap = config.cap
      BY DEF Snapshot
    <3> QED BY <2>1, <3>1, <3>2 DEF CapsAgree
  <2>3. CASE StoreCheck \/ StoreFails \/ EvictOne \/ EvictStuck \/ EvictDone
    <3>1. CASE FilesChange
      BY <1>2, <2>1, <3>1
    <3>2. CASE store.name \in DOMAIN file /\ \E size \in 0..MaxMap : RewriteMap(size)
      <4>1. DOMAIN file' = DOMAIN file /\ \A n \in DOMAIN file : Alike(file'[n], file[n])
        BY <3>2, MapWritten DEF Inv, TypeOK
      <4> QED BY <2>1, <4>1 DEF CapsAgree, Alike
    <3> QED BY <2>3, <3>1, <3>2 DEF StoreCheck, StoreFails, EvictOne, EvictStuck, EvictDone, FilesChange
  <2> QED BY <1>3, <2>2, <2>3 DEF StoreRoutine, StoreStep
<1>4. CASE Restart
  <2>1. file' = file /\ config \in Configs /\ config' \in Configs
    BY <1>4 DEF Restart, Reopen, Inv, TypeOK, SessionTypeOK
  <2>2. config'.cap = config.cap
    BY <2>1 DEF OneChunk
  <2> QED BY <2>1, <2>2 DEF CapsAgree
<1>5. CASE Elsewhere
  BY <1>2, <1>5, ElsewhereFrame
<1>6. CASE UNCHANGED vars
  BY <1>6 DEF vars, session, cache, CapsAgree
<1> QED BY <1>3, <1>4, <1>5, <1>6, AnyStep

(* The store of the old conversation, step by step.                        *)
LEMMA SaveStep ==
    ASSUME Inv, SavePath, StoreRoutine
    PROVE  SavePath'
<1>1. /\ UNCHANGED <<pc, config, checkpoint, valid, graph, logits>>
  BY DEF StoreRoutine, StoreStep, session
<1>2. /\ store \in Store /\ config.ctx \in Nat /\ checkpoint \in Tokens /\ Len(checkpoint) \in Nat
      /\ MinTokens \in Nat
  <2>1. config.ctx \in Nat
    BY ConfigAssumption DEF Inv, TypeOK, SessionTypeOK
  <2> QED BY <2>1, OptionAssumption DEF Inv, TypeOK, SessionTypeOK, CacheTypeOK, Tokens
<1> SUFFICES ASSUME pc = "load" PROVE SavePath'
  BY <1>1 DEF SavePath
<1>3. store.name = checkpoint /\ (store.step = "evict" => Kept)
  BY DEF SavePath, StoreRoutine, StoreStep, StoreCheck, StoreRename, StoreFails, EvictOne, EvictStuck,
     EvictDone, Storing
<1>4. ASSUME store' = [store EXCEPT !.step = "write"] PROVE SavePath'
  <2>1. store'.step = "write" /\ store'.name = store.name
    BY <1>2, <1>4 DEF Store
  <2> QED BY <1>1, <1>3, <2>1 DEF SavePath
<1>5. ASSUME NEW result, NEW dropped, Returns(result, dropped),
             valid /\ Len(checkpoint) >= MinTokens =>
                \/ result = "failed" \/ checkpoint \in dropped
                \/ checkpoint \in DOMAIN file' /\ Compatible(file'[checkpoint])
      PROVE  SavePath'
  <2>1. store'.step = "off" /\ store'.result = result /\ store'.dropped = dropped
    BY <1>5 DEF Returns, NoStore
  <2> QED BY <1>1, <1>5, <2>1 DEF SavePath, Kept, Compatible, Storing
<1>6. CASE StoreCheck
  <2>1. CASE Refused /\ Returns("refused", {})
    <3>1. ~(valid /\ Len(checkpoint) >= MinTokens)
      BY <1>2, <1>3, <2>1 DEF Refused
    <3> QED BY <1>5, <2>1, <3>1
  <2>2. CASE /\ store.name \in DOMAIN file /\ Compatible(file[store.name])
             /\ Returns("kept", {}) /\ \E size \in 0..MaxMap : RewriteMap(size)
    <3>1. DOMAIN file' = DOMAIN file /\ Alike(file'[checkpoint], file[checkpoint])
      BY <1>3, <2>2, MapWritten DEF Inv, TypeOK
    <3>2. Compatible(file'[checkpoint])
      BY <1>3, <2>2, <3>1 DEF Compatible, Alike
    <3> QED BY <1>3, <1>5, <2>2, <3>1, <3>2
  <2>3. CASE store' = [store EXCEPT !.step = "write"]
    BY <1>4, <2>3
  <2> QED BY <1>6, <2>1, <2>2, <2>3 DEF StoreCheck
<1>7. CASE StoreRename
  <2>1. PICK size \in 0..MaxMap :
            /\ store' = [store EXCEPT !.step = "evict"]
            /\ checkpoint \in DOMAIN file' /\ file'[checkpoint] = Snapshot(size)
    BY <1>3, <1>7 DEF StoreRename
  <2>2. store'.step = "evict" /\ store'.name = checkpoint
    BY <1>2, <1>3, <2>1 DEF Store
  <2>3. Snapshot(size).quant = config.quant /\ Snapshot(size).ctx = config.ctx
    BY DEF Snapshot
  <2>4. Compatible(file'[checkpoint])
    BY <1>2, <2>1, <2>3 DEF Compatible
  <2>5. Kept'
    BY <1>1, <2>1, <2>4 DEF Kept, Compatible
  <2> QED BY <1>1, <2>2, <2>5 DEF SavePath
<1>8. CASE StoreFails
  BY <1>5, <1>8 DEF StoreFails
<1>9. CASE EvictOne
  <2>1. PICK n : file' = Without(n) /\ store' = [store EXCEPT !.dropped = store.dropped \cup {n}]
    BY <1>9 DEF EvictOne
  <2>2. store'.step = "evict" /\ store'.name = checkpoint /\ store'.dropped = store.dropped \cup {n}
    BY <1>2, <1>3, <1>9, <2>1 DEF EvictOne, Store
  <2>3. Kept
    BY <1>3, <1>9 DEF EvictOne
  <2>4. Kept'
    <3>1. CASE checkpoint \in store'.dropped
      BY <1>1, <3>1 DEF Kept
    <3>2. CASE checkpoint \notin store'.dropped
      <4>1. checkpoint # n /\ checkpoint \in DOMAIN file /\ Compatible(file[checkpoint])
        BY <2>2, <2>3, <3>2 DEF Kept
      <4>2. checkpoint \in DOMAIN file' /\ file'[checkpoint] = file[checkpoint]
        BY <2>1, <4>1 DEF Without
      <4> QED BY <1>1, <4>1, <4>2 DEF Kept, Compatible
    <3> QED BY <3>1, <3>2
  <2> QED BY <1>1, <2>2, <2>4 DEF SavePath
<1>10. CASE EvictStuck \/ EvictDone
  <2>1. Returns("stored", store.dropped) /\ file' = file /\ Kept
    BY <1>3, <1>10 DEF EvictStuck, EvictDone
  <2> QED BY <1>5, <2>1 DEF Kept
<1> QED BY <1>6, <1>7, <1>8, <1>9, <1>10 DEF StoreRoutine, StoreStep

LEMMA SaveNext ==
    ASSUME Inv, SavePath, [Next]_vars
    PROVE  SavePath'
<1>1. CASE StoreRoutine
  BY <1>1, SaveStep
<1>2. CASE Restart
  BY <1>2 DEF Restart, SavePath
<1>3. CASE Elsewhere
  <2> SUFFICES ASSUME pc' = "load" PROVE SavePath'
    BY DEF SavePath
  <2>1. PICK p \in Prompts : Begin(p)
    BY <1>3, ElsewhereFrame
  <2>2. /\ UNCHANGED <<checkpoint, valid>>
        /\ store' = IF Len(checkpoint) >= MinTokens THEN Stores(checkpoint, "evict") ELSE NoStore
    BY <2>1 DEF Begin, session
  <2>3. CASE Len(checkpoint) >= MinTokens
    <3>1. store'.step = "check" /\ store'.name = checkpoint
      BY <2>2, <2>3 DEF Stores, NoStore
    <3> QED BY <2>2, <3>1 DEF SavePath
  <2>4. CASE ~(Len(checkpoint) >= MinTokens)
    <3>1. store'.step = "off"
      BY <2>2, <2>4 DEF NoStore
    <3> QED BY <2>2, <2>4, <3>1 DEF SavePath, Storing
  <2> QED BY <2>3, <2>4
<1>4. CASE UNCHANGED vars
  BY <1>4 DEF vars, session, cache, SavePath, Kept, Compatible, Storing
<1> QED BY <1>1, <1>2, <1>3, <1>4, AnyStep

(* A conversation about to be replaced is on disk in a form this server    *)
(* loads, unless the write failed or the budget evicted it again, as long  *)
(* as no restart changes the size of the compressed cache (OneChunk; with  *)
(* two sizes TLC refutes it, GenerateJobChunk.cfg).                        *)
THEOREM ReplacedIsSaved == OneChunk => (Spec => []EvictedIsSaved)
<1> SUFFICES ASSUME OneChunk PROVE Spec => []EvictedIsSaved
  OBVIOUS
<1>1. Init => CapsAgree /\ SavePath
  BY DEF Init, CapsAgree, SavePath
<1>2. Inv /\ CapsAgree /\ SavePath /\ [Next]_vars => CapsAgree' /\ SavePath'
  BY CapsNext, SaveNext
<1>3. CapsAgree /\ SavePath => EvictedIsSaved
  BY DEF CapsAgree, SavePath, Kept, EvictedIsSaved, Storing
<1> QED BY <1>1, <1>2, <1>3, Invariance, PTL DEF Spec
-----------------------------------------------------------------------------
(* The order of eviction.  A continued snapshot of lm tokens that was not  *)
(* loaded yet, a strict prefix of the lv live ones, is worth less than any *)
(* other file, of ln tokens, when a file is at most fifty times as long as *)
(* its tokens.                                                             *)
LEMMA Products ==
    ASSUME NEW x \in Nat, NEW y \in Nat, NEW z \in Nat
    PROVE  /\ x * y \in Nat /\ x * y = y * x
           /\ (x * y) * z = x * (y * z)
           /\ (x + y) * z = x * z + y * z
           /\ (x <= y => x * z <= y * z)
           /\ (x < y /\ z > 0 => x * z < y * z)
<1>1. /\ x * y \in Nat /\ x * y = y * x
      /\ (x * y) * z = x * (y * z)
      /\ (x + y) * z = x * z + y * z
  BY SMT
<1>2. ASSUME x <= y PROVE x * z <= y * z
  <2> DEFINE d == y - x
  <2>1. d \in Nat /\ y = x + d
    BY <1>2
  <2>2. d * z \in Nat /\ x * z \in Nat
    BY <2>1
  <2> HIDE DEF d
  <2>3. y * z = x * z + d * z
    BY <2>1, SMT
  <2> QED BY <2>2, <2>3
<1>3. ASSUME x < y, z > 0 PROVE x * z < y * z
  <2> DEFINE d == y - x - 1
  <2>1. d \in Nat /\ y = (x + d) + 1
    BY <1>3
  <2>2. d * z \in Nat /\ x * z \in Nat
    BY <2>1
  <2> HIDE DEF d
  <2>3. y * z = x * z + d * z + z
    BY <2>1, SMT
  <2> QED BY <1>3, <2>2, <2>3
<1> QED BY <1>1, <1>2, <1>3

LEMMA CheaperPrefix ==
    ASSUME NEW h \in Nat \ {0}, NEW ln \in Nat \ {0}, NEW lm \in Nat \ {0},
           NEW lv \in Nat, lm < lv, NEW on \in Nat, NEW om \in Nat, on <= 49 * ln
    PROVE  ~((h * ln) * (((lm + om) * 100) * lv) <= (((1 * lm) * 2) * lm) * (ln + on))
<1> DEFINE P == ln * lm
           E == lm * on
           G == ln * (lm + om)
           R == lm * (ln + on)
           W == lm * P
           V == lv * P
           U == lv * G
<1>1. P \in Nat /\ E \in Nat /\ P > 0
  <2>1. P \in Nat /\ E \in Nat
    BY Products
  <2>2. P > 0
    BY SMT
  <2> QED BY <2>1, <2>2
<1>2. G \in Nat /\ P <= G
  <2>1. G = P + ln * om /\ ln * om \in Nat
    BY SMT
  <2> QED BY <1>1, <2>1
<1>3. R \in Nat /\ R <= 50 * P
  <2>1. E <= 49 * P
    <3>1. on * lm <= (49 * ln) * lm
      BY Products
    <3>2. (49 * ln) * lm = 49 * P /\ on * lm = E
      BY Products
    <3> QED BY <3>1, <3>2
  <2>2. R = P + E
    BY SMT
  <2> HIDE DEF P, E, R
  <2> QED BY <1>1, <2>1, <2>2
<1>4. (((1 * lm) * 2) * lm) * (ln + on) = 2 * (lm * R)
  BY SMT
<1>5. (h * ln) * (((lm + om) * 100) * lv) = 100 * (h * U)
  BY SMT
<1> HIDE DEF P, E, G, R
<1>6. lm * R <= 50 * W
  <2>1. R * lm <= (50 * P) * lm
    BY <1>1, <1>3, Products
  <2>2. R * lm = lm * R /\ (50 * P) * lm = 50 * W
    BY <1>1, <1>3, SMT
  <2> QED BY <2>1, <2>2
<1>7. W < V
  BY <1>1, Products
<1>8. V <= U
  <2>1. P * lv <= G * lv
    BY <1>1, <1>2, Products
  <2>2. P * lv = lv * P /\ G * lv = lv * G
    BY <1>1, <1>2, Products
  <2> QED BY <2>1, <2>2
<1>9. U \in Nat /\ V \in Nat /\ W \in Nat /\ lm * R \in Nat
  BY <1>1, <1>2, <1>3, Products
<1> HIDE DEF U, V, W
<1>10. U <= h * U /\ h * U \in Nat
  <2>1. 1 * U <= h * U /\ h * U \in Nat
    BY <1>9, Products
  <2> QED BY <1>9, <2>1
<1> QED BY <1>4, <1>5, <1>6, <1>7, <1>8, <1>9, <1>10

(* What an eviction takes away is one file of least value.                 *)
LEMMA OnlyVictims ==
    ASSUME Inv, [Next]_vars, store.step = "evict",
           NEW n \in DOMAIN file, n \notin DOMAIN file'
    PROVE  n \in Victims(store.live)
<1>1. EvictOne
  <2>1. CASE StoreRoutine
    <3>1. file' # file
      OBVIOUS
    <3> QED BY <2>1, <3>1 DEF StoreRoutine, StoreStep, StoreCheck, StoreRename, StoreFails,
               EvictStuck, EvictDone
  <2>2. CASE Restart
    BY <2>2 DEF Restart, Reopen
  <2>3. CASE Elsewhere
    BY <2>3, ElsewhereFrame DEF Storing
  <2>4. CASE UNCHANGED vars
    BY <2>4 DEF vars, cache
  <2> QED BY <2>1, <2>2, <2>3, <2>4, AnyStep
<1>2. PICK m \in Victims(store.live) : file' = Without(m)
  BY <1>1 DEF EvictOne
<1>3. n = m
  BY <1>2 DEF Without
<1> QED BY <1>2, <1>3

(* No other file is evicted while an unused continued snapshot of a prefix *)
(* of the live session remains, if the bytes of a file besides its tokens, *)
(* its tool map among them, are at most forty-nine times its tokens: those *)
(* of the shortest file there may be.                                      *)
THEOREM FallbacksGoFirst == Overhead + MaxMap <= 49 * MinTokens => (Spec => ContinuedGoesFirst)
<1> DEFINE First(n) ==
             (store.step = "evict" /\ n \notin DOMAIN file' /\ ~LivePrefix(n, store.live)) =>
                 \A m \in DOMAIN file : LivePrefix(m, store.live) => file[m].hits > 0
<1> SUFFICES ASSUME Overhead + MaxMap <= 49 * MinTokens PROVE Spec => ContinuedGoesFirst
  OBVIOUS
<1>1. ASSUME Inv, [Next]_vars, NEW n \in DOMAIN file PROVE First(n)
  <2> SUFFICES ASSUME store.step = "evict", n \notin DOMAIN file', ~LivePrefix(n, store.live),
                      NEW m \in DOMAIN file, LivePrefix(m, store.live), ~(file[m].hits > 0)
               PROVE  FALSE
    OBVIOUS
  <2> DEFINE live == store.live
             ln == Len(n)
             lm == Len(m)
             lv == Len(live)
             h  == file[n].hits + 1
             on == Overhead + file[n].map
             om == Overhead + file[m].map
  <2>1. /\ n \in Tokens /\ m \in Tokens /\ live \in Tokens
        /\ file[n] \in Entry /\ file[m] \in Entry
        /\ ln >= MinTokens /\ lm >= MinTokens
    BY <1>1 DEF Inv, TypeOK, CacheTypeOK, Store, FilesGenuine
  <2>2. /\ ln \in Nat \ {0} /\ lm \in Nat \ {0} /\ lv \in Nat
        /\ on \in Nat /\ om \in Nat /\ on <= 49 * ln
    <3>1. ln \in Nat /\ lm \in Nat /\ lv \in Nat /\ MinTokens \in Nat \ {0}
      BY <2>1, OptionAssumption DEF Tokens
    <3>2. /\ Overhead \in Nat /\ MaxMap \in Nat
          /\ file[n].map \in 0..MaxMap /\ file[m].map \in 0..MaxMap
      BY <2>1, OptionAssumption DEF Entry
    <3> HIDE DEF ln, lm, lv
    <3> QED BY <2>1, <3>1, <3>2
  <2>3. h \in Nat \ {0} /\ file[m].hits = 0
    BY <2>1 DEF Entry
  <2>4. lm < lv
    <3>1. IsPrefix(m, live) /\ m # live
      BY DEF LivePrefix, IsStrictPrefix
    <3>2. lm <= lv /\ \A i \in 1..lm : m[i] = live[i]
      BY <2>1, <3>1, PrefixIs DEF Tokens
    <3>3. lm # lv
      BY <2>1, <3>1, <3>2, SameSequence DEF Tokens
    <3> QED BY <2>2, <3>2, <3>3
  <2>5. AtMost(Value(n, live), Value(m, live))
    BY <1>1, OnlyVictims DEF Victims
  <2>6. Bytes[n] = ln + on /\ Bytes[m] = lm + om
    <3>1. Directory(file) /\ Bytes = BytesOf(file)
      BY <1>1 DEF Inv, TypeOK, CacheTypeOK, Directory, Bytes, BytesOf
    <3>2. /\ Bytes[n] = ln + Overhead + file[n].map /\ file[n].map \in Nat /\ Overhead \in Nat
          /\ Bytes[m] = lm + Overhead + file[m].map /\ file[m].map \in Nat
      BY <3>1, BytesIs
    <3>3. ASSUME NEW b, NEW l \in Nat, NEW k \in Nat, b = l + Overhead + k, Overhead \in Nat
          PROVE  b = l + (Overhead + k)
      BY <3>3
    <3>4. ln \in Nat /\ lm \in Nat
      BY <2>2
    <3> HIDE DEF ln, lm
    <3> QED BY <3>2, <3>3, <3>4
  <2>7. /\ Value(n, live) = <<h * ln, ln + on>>
        /\ Value(m, live) = <<(((0 + 1) * lm) * 2) * lm, ((lm + om) * 100) * lv>>
    BY <2>3, <2>6 DEF Value
  <2> HIDE DEF live, ln, lm, lv, h, on, om
  <2>8. (h * ln) * (((lm + om) * 100) * lv) <= ((((0 + 1) * lm) * 2) * lm) * (ln + on)
    BY <2>5, <2>7 DEF AtMost
  <2>9. 0 + 1 = 1
    OBVIOUS
  <2> QED BY <2>2, <2>3, <2>4, <2>8, <2>9, CheaperPrefix
<1>2. Inv /\ [Next]_vars => \A n \in DOMAIN file : First(n)
  BY <1>1
<1> QED BY <1>2, Invariance, PTL DEF Spec, ContinuedGoesFirst
=============================================================================
