----------------------------- MODULE MtpSession -----------------------------
(***************************************************************************)
(* A Metal session that decodes with speculation (src/ds4.c): bringing the *)
(* graph to a prompt, evaluating a token, the speculative call with its    *)
(* verifiers, its rollbacks and its sequential fallback, and the payload   *)
(* that saves and loads a checkpoint.  Any Metal command may fail, half    *)
(* done.  A session is used by one thread at a time.                       *)
(***************************************************************************)
EXTENDS CpuCache

CONSTANTS
    Token, Eos,
    Choice,      \* what the target picks after so many tokens
    Guesses,     \* tokens the drafter may propose besides
    Prompts,     \* what the callers synchronise to
    Sampled,     \* tokens a caller may sample instead
    ResumeMin,   \* shortest suffix that is prefilled
    Depth,       \* drafts of one speculation (--mtp-draft)
    Modes,       \* "fast", "exact" (--quality) and "batch" (with DS4_MTP_BATCH_VERIFY)
    MaxFaults,   \* bound: commands that fail
    MaxColds,    \* bound: prompts prefilled from token zero
    SaveLens,    \* bound: lengths of the checkpoints that are saved
    MaxLen,      \* bound on the tokens of a session that decodes freely
    NoFile, NoCall

VARIABLES
    g,           \* the graph
    tokens, valid,
    logits,      \* the tokens the logits are those of, or Wrong
    call,        \* the running speculative call
    spec,        \* the frontier snapshot, and the captured prefix of one draft
    file,        \* the payload last saved
    faults, colds, taint

vars == <<g, tokens, valid, logits, call, spec, file, faults, colds, taint>>
session == <<tokens, valid, logits>>

ASSUME MtpAssumption ==
    /\ {Depth, MaxFaults, MaxColds, MaxLen} \subseteq Nat /\ {Ctx, ResumeMin} \subseteq Nat \ {0}
    /\ Choice \in [1..Ctx -> Token] /\ Eos \in Token
    /\ Guesses \subseteq Token /\ Sampled \subseteq Token /\ \A p \in Prompts : p \in Seq(Token)
    /\ Modes \subseteq {"fast", "exact", "batch"}
    /\ Wrong \notin Seq(Token)

(* metal_graph_raw_cap_for_context: the ring holds a batch and the window  *)
(* before it, or the whole context; metal_graph_prefill_cap_for_prompt: a  *)
(* batch that a longer prompt follows ends on a window of every ratio.     *)
ASSUME CapAssumption ==
    /\ Window + PrefillCap <= RawCap \/ Ctx <= RawCap
    /\ PrefillCap % 4 = 0 \/ Ctx <= PrefillCap
    /\ \A l \in Layer : Ratio[l] = 0 \/ Ratio[l] > 2

Steps == {"draft", "snapshot", "verify", "judge", "restore", "replay", "undo", "sequential", "one"}
Call == [step : Steps, mode : Modes, from : Nat, drafts : Seq(Token), cap : Nat,
         rows : Seq(Seq(Token) \cup {Wrong}), seen : Nat]
ASSUME CallAssumption == NoCall \notin Call

Idle == call = NoCall
Frontier(unit) == [u \in Unit |-> [n |-> unit[u].n, state |-> unit[u].state]]
NoSpec == LET none == Frontier(NewGraph.unit) IN [saved |-> none, first |-> none]

Init ==
    /\ g = NewGraph /\ tokens = <<>> /\ valid = FALSE /\ logits = Wrong
    /\ call = NoCall /\ spec = NoSpec /\ file = NoFile
    /\ faults = 0 /\ colds = 0 /\ taint = "none"

(* The logits after position p of s, and what they may select.             *)
LogitsAt(x, s, p) == IF p \in x.right THEN RowOf(s, p) ELSE Wrong
LogitsOf(x, s) == IF x.right THEN s ELSE Wrong
Tops(row) == IF row = Wrong THEN Token ELSE {Choice[Len(row)]}

Fault == faults < MaxFaults /\ faults' = faults + 1

-----------------------------------------------------------------------------
(* ds4_session_sync: a prompt that goes on from the checkpoint extends it, *)
(* with batches when long, and any other is prefilled from token zero.     *)
Cold == colds < MaxColds /\ colds' = colds + 1
IsPrefixOf(s, p) == Len(s) <= Len(p) /\ Upto(p, Len(s)) = s
Extends(p) == valid /\ IsPrefixOf(tokens, p)
Resumes(p) == Extends(p) /\ Len(p) - Len(tokens) >= ResumeMin
Syncable(p) == Idle /\ Len(p) > 0 /\ Len(p) < Ctx

Prefilled(p, x) ==
    /\ x.ok
    /\ g' = x.g /\ tokens' = p /\ valid' = TRUE /\ logits' = LogitsAt(x, p, Len(p) - 1)

SyncResume(p) ==
    /\ Syncable(p) /\ Resumes(p)
    /\ Prefilled(p, Chunks(g, p, Len(tokens))[Len(p)].x)
    /\ UNCHANGED <<call, spec, file, faults, taint, colds>>

(* The window of a whole-batch prompt that does not end on a multiple of   *)
(* four is rebuilt from the wrong tokens.                                  *)
Unaligned(p) == Len(p) <= PrefillCap /\ Len(p) % 4 # 0

SyncCold(p) ==
    /\ Syncable(p) /\ ~Extends(p) /\ Cold
    /\ Prefilled(p, Chunks(g, p, 0)[Len(p)].x)
    /\ taint' = IF Unaligned(p) THEN "window" ELSE "none"
    /\ UNCHANGED <<call, spec, file, faults>>

Decoded(h, p, from) ==
    LET f[k \in from..Len(p)] ==
            IF k = from THEN [g |-> h, ok |-> TRUE, right |-> logits # Wrong]
            ELSE IF f[k - 1].ok THEN Decode(f[k - 1].g, Upto(p, k)) ELSE f[k - 1]
    IN f[Len(p)]

SyncDecode(p) ==
    /\ Syncable(p) /\ Extends(p) /\ ~Resumes(p)
    /\ LET x == Decoded(g, p, Len(tokens)) IN
        /\ x.ok
        /\ g' = x.g
        /\ logits' = IF p = tokens THEN logits ELSE LogitsOf(x, p)
    /\ tokens' = p
    /\ UNCHANGED <<valid, call, spec, file, faults, taint, colds>>

SyncDecodeFails(p) ==
    /\ Syncable(p) /\ Extends(p) /\ ~Resumes(p) /\ Fault
    /\ \E k \in Len(tokens)..(Len(p) - 1), l \in 0..(Layers - 1) :
        LET x == Decoded(g, Upto(p, k), Len(tokens)) IN
        /\ x.ok
        /\ g' = DecodeTo(x.g, Upto(p, k + 1), l).g
        /\ tokens' = Upto(p, k)
        /\ logits' = IF k = Len(tokens) THEN logits ELSE LogitsOf(x, Upto(p, k))
    /\ valid' = FALSE
    /\ UNCHANGED <<call, spec, file, taint, colds>>

(* A command fails in some layer of some chunk: the checkpoint holds the   *)
(* chunks reported so far and is not valid.                                *)
SyncFails(p) ==
    /\ Syncable(p) /\ Fault
    /\ \/ Resumes(p) /\ UNCHANGED colds
       \/ ~Extends(p) /\ Cold
    /\ LET start == IF Extends(p) THEN Len(tokens) ELSE 0
           done == Chunks(g, p, start)
       IN \E k \in 0..(Len(p) - 1), l \in 0..(Layers - 1) :
            /\ done[k].pos < Len(p) /\ done[k].x.ok
            /\ g' = BatchTo(done[k].x.g, p, done[k].pos, ChunkLen(start, done[k].pos, Len(p)), l).g
            /\ IF k = 0 THEN UNCHANGED <<tokens, logits>>
               ELSE /\ tokens' = Upto(p, done[k].pos)
                    /\ logits' = LogitsAt(done[k].x, p, done[k].pos - 1)
    /\ valid' = FALSE
    /\ UNCHANGED <<call, spec, file, taint>>

(* A prompt of less than four tokens has nothing to rebuild a window from. *)
SyncTooShort(p) ==
    /\ Syncable(p) /\ ~Extends(p) /\ Cold
    /\ LET x == Batch(g, p, 0, ChunkLen(0, 0, Len(p))) IN ~x.ok /\ g' = x.g
    /\ valid' = FALSE
    /\ UNCHANGED <<tokens, logits, call, spec, file, faults, taint>>

(* ds4_session_eval.  The drafter's guess at the next token is dropped by  *)
(* the next evaluation, so that only a speculative call can use its own.   *)
(* Bound: a session known to be wrong is not followed further.             *)
MayEval == Idle /\ valid /\ Len(tokens) + 1 < Ctx /\ taint = "none"

Evaluated(t) ==
    LET s == Append(tokens, t) x == Decode(g, s) IN
    /\ x.ok
    /\ g' = x.g /\ tokens' = s /\ logits' = LogitsOf(x, s)

Eval(t) ==
    /\ MayEval /\ Len(tokens) < MaxLen
    /\ Evaluated(t)
    /\ UNCHANGED <<valid, call, spec, file, faults, taint, colds>>

EvalFails(t) ==
    /\ MayEval /\ Fault
    /\ \E l \in 0..(Layers - 1) : g' = DecodeTo(g, Append(tokens, t), l).g
    /\ valid' = FALSE
    /\ UNCHANGED <<tokens, logits, call, spec, file, taint, colds>>

Invalidate ==
    /\ Idle
    /\ valid' = FALSE /\ tokens' = <<>>
    /\ UNCHANGED <<g, logits, call, spec, file, faults, taint, colds>>

-----------------------------------------------------------------------------
(* ds4_session_eval_speculative_argmax.  The first token is evaluated; the *)
(* call goes on when the drafter guesses what the target would pick.       *)
Return == call' = NoCall /\ spec' = NoSpec
Room == Ctx - Len(tokens) - 1

Speculate(t, max) ==
    /\ MayEval /\ t \in Tops(logits)
    /\ Evaluated(t)
    /\ \/ Return
       \/ /\ t # Eos /\ max > 1 /\ Room > 1
          /\ \E d \in Tops(logits'), mode \in Modes :
                call' = [step |-> "draft", mode |-> mode, from |-> Len(tokens), drafts |-> <<d>>,
                         cap  |-> IF d = Eos THEN 1 ELSE Least(Depth, Least(max - 1, Room - 1)),
                         rows |-> <<>>, seen |-> 0]
          /\ UNCHANGED spec
    /\ UNCHANGED <<valid, file, faults, taint, colds>>

At(step) == ~Idle /\ call.step = step
Goto(step) == call' = [call EXCEPT !.step = step]
Drafts == call.drafts
Start == call.from + 1
Base == Upto(tokens, Start)
Whole == Base \o Drafts

Exact == call.mode = "exact" /\ Len(Drafts) = 2
Captures == call.mode = "fast" /\ Len(Drafts) = 2
NeedsSnapshot == Len(Drafts) >= 2 /\ ~Captures

(* The drafter goes on from its own guesses, up to the end of the text.    *)
DraftMore == Len(Drafts) < call.cap /\ Drafts[Len(Drafts)] # Eos

Draft ==
    /\ At("draft")
    /\ IF DraftMore THEN \E d \in Guesses \cup {Choice[Len(Whole)]} : call' = [call EXCEPT !.drafts = Append(Drafts, d)]
       ELSE Goto(IF NeedsSnapshot THEN "snapshot" ELSE "verify")
    /\ UNCHANGED <<g, session, spec, file, faults, taint, colds>>

DraftFails ==
    /\ At("draft") /\ DraftMore /\ Fault
    /\ Return
    /\ UNCHANGED <<g, session, file, taint, colds>>

(* -1: the caller must not use the session before it is prefilled again.   *)
Failed == Return /\ valid' = FALSE /\ tokens' = Base /\ UNCHANGED logits

(* The accepted tokens are those appended: the cap of the list is the      *)
(* cap of the drafts.                                                      *)
Took(n, row) ==
    /\ tokens' = Base \o Upto(Drafts, n) /\ logits' = row /\ valid' = TRUE
    /\ Return

(* With two drafts and a close call between the drafter's best two, only   *)
(* the first one is evaluated.                                             *)
MarginSkip ==
    /\ At("verify") /\ Captures
    /\ \/ LET s == Append(tokens, Drafts[1]) x == Decode(g, s) IN
            x.ok /\ g' = x.g /\ Took(1, LogitsOf(x, s)) /\ UNCHANGED faults
       \/ /\ Fault /\ Failed
          /\ \E l \in 0..(Layers - 1) : g' = DecodeTo(g, Append(tokens, Drafts[1]), l).g
    /\ UNCHANGED <<file, taint, colds>>

(* The frontier: the counter and the window of every compressor.           *)
SnapshotFrontier ==
    /\ At("snapshot")
    /\ \/ spec' = [spec EXCEPT !.saved = Frontier(g.unit)] /\ Goto("verify") /\ UNCHANGED faults
       \/ Fault /\ Goto("sequential") /\ UNCHANGED spec
    /\ UNCHANGED <<g, session, file, taint, colds>>

(* The exact verifier decodes two tokens and always captures; the batch    *)
(* verifier runs the drafts as one batch.                                  *)
Verify ==
    /\ At("verify")
    /\ LET n == Len(Drafts)
           two == DecodeTwoTo(g, Whole, Layers)
           all == Batch(g, Whole, Start, n)
       IN IF Exact
          THEN /\ two.ok /\ g' = two.g
               /\ spec' = [spec EXCEPT !.first = Frontier(two.first)]
               /\ call' = [call EXCEPT !.step = "judge",
                       !.rows = <<IF two.right[1] THEN Append(Base, Drafts[1]) ELSE Wrong,
                                  IF two.right[2] THEN Whole ELSE Wrong>>]
               /\ UNCHANGED tokens
          ELSE /\ all.ok /\ g' = all.g /\ tokens' = Whole
               /\ IF Captures
                  THEN spec' = [spec EXCEPT !.first = Frontier(FirstOf(g, all, Start, n, NewGraph.unit))]
                  ELSE UNCHANGED spec
               /\ call' = [call EXCEPT !.step = "judge",
                       !.rows = [i \in 1..n |-> LogitsAt(all, Whole, Start + i - 1)]]
    /\ UNCHANGED <<valid, logits, file, faults, taint, colds>>

(* Without a snapshot there is no way back from a failed verifier.         *)
GiveUp == IF NeedsSnapshot THEN Goto("undo") /\ UNCHANGED <<session, spec>> ELSE Failed

VerifyFails ==
    /\ At("verify") /\ Fault
    /\ \E l \in 0..(Layers - 1) :
        g' = IF Exact THEN DecodeTwoTo(g, Whole, l).g ELSE BatchTo(g, Whole, Start, Len(Drafts), l).g
    /\ GiveUp
    /\ UNCHANGED <<file, taint, colds>>

(* Mutant: a draft is compared with the row of its own position.           *)
AgreedOwn(m) ==
    /\ \A i \in 1..(m - 1) : Drafts[i] \in Tops(call.rows[i])
    /\ m < Len(Drafts) => Tops(call.rows[m]) \ {Drafts[m + 1]} # {}

(* The drafts the target agrees with: the first one was checked before.    *)
Agreed(m) ==
    /\ \A i \in 1..(m - 1) : Drafts[i + 1] \in Tops(call.rows[i])
    /\ m < Len(Drafts) => Tops(call.rows[m]) \ {Drafts[m + 1]} # {}

(* All of them: the last row of logits is the continuation.  A batch has   *)
(* still to read it.                                                       *)
AcceptAll ==
    /\ At("judge") /\ Agreed(Len(Drafts))
    /\ \/ Took(Len(Drafts), call.rows[Len(Drafts)]) /\ UNCHANGED faults
       \/ /\ ~Exact /\ Fault
          /\ IF NeedsSnapshot
             THEN call' = [call EXCEPT !.step = "restore", !.seen = Len(Drafts)] /\ UNCHANGED <<session, spec>>
             ELSE Failed
    /\ UNCHANGED <<g, file, taint, colds>>

(* Copying back the frontiers of the first k layers.                       *)
(* Mutant: the counters stay.                                              *)
BackToStates(from, k) ==
    [g EXCEPT !.unit = [u \in Unit |->
        IF u[1] <= k THEN [g.unit[u] EXCEPT !.state = from[u].state] ELSE g.unit[u]]]

BackTo(from, k) ==
    [g EXCEPT !.unit = [u \in Unit |->
        IF u[1] <= k THEN [g.unit[u] EXCEPT !.state = from[u].state, !.n = from[u].n] ELSE g.unit[u]]]

(* One of two, and the state after the first was captured on the way.      *)
CommitPrefix1 ==
    /\ At("judge") /\ (Exact \/ Captures) /\ Agreed(1)
    /\ \/ g' = BackTo(spec.first, Layers) /\ Took(1, call.rows[1]) /\ UNCHANGED faults
       \/ /\ Fault /\ GiveUp
          /\ \E l \in 0..Layers : g' = BackTo(spec.first, l)
    /\ UNCHANGED <<file, taint, colds>>

(* Fewer than all: back to the snapshot, then the accepted ones again.     *)
Partial(m) ==
    /\ At("judge") /\ ~Exact /\ NeedsSnapshot /\ m < Len(Drafts) /\ Agreed(m)
    /\ call' = [call EXCEPT !.step = "restore", !.seen = m]
    /\ UNCHANGED <<g, session, spec, file, faults, taint, colds>>

Restore ==
    /\ At("restore")
    /\ tokens' = Base
    /\ \/ g' = BackTo(spec.saved, Layers) /\ Goto("replay") /\ UNCHANGED faults
       \/ Fault /\ Goto("undo") /\ \E l \in 0..(Layers - 1) : g' = BackTo(spec.saved, l)
    /\ UNCHANGED <<valid, logits, spec, file, taint, colds>>

(* One of two is decoded, more are verified again as a batch.              *)
Replay ==
    /\ At("replay")
    /\ LET s == Base \o Upto(Drafts, call.seen)
           one == Decode(g, s)
           some == Batch(g, s, Start, call.seen)
           single == Len(Drafts) = 2 /\ call.seen = 1
       IN \/ /\ UNCHANGED faults
             /\ IF single THEN one.ok /\ g' = one.g /\ Took(1, LogitsOf(one, s))
                ELSE some.ok /\ g' = some.g /\ Took(call.seen, LogitsAt(some, s, Len(s) - 1))
          \/ /\ Fault /\ Goto("undo") /\ UNCHANGED <<session, spec>>
             /\ \E l \in 0..Layers :
                  g' = IF single THEN DecodeTo(g, s, l).g ELSE BatchTo(g, s, Start, call.seen, l).g
    /\ UNCHANGED <<file, taint, colds>>

(* After a failure: back to the snapshot.  That the device may fail again  *)
(* is ignored.                                                             *)
Undo ==
    /\ At("undo")
    /\ tokens' = Base
    /\ Goto("sequential")
    /\ \/ g' = BackTo(spec.saved, Layers) /\ UNCHANGED <<faults, taint>>
       \/ faults > 0 /\ taint' = "restore" /\ UNCHANGED faults /\ \E l \in 0..(Layers - 1) : g' = BackTo(spec.saved, l)
    /\ UNCHANGED <<valid, logits, spec, file, colds>>

(* The fallback decodes the drafts while the target picks them; its logits *)
(* stay on the device until the end.                                       *)
LastRow == IF call.rows = <<>> THEN logits ELSE call.rows[1]
NextDraft == Drafts[call.seen + 1]
Continues == call.seen < Len(Drafts) /\ (call.seen > 0 => Drafts[call.seen] # Eos)

SequentialStart ==
    /\ At("sequential")
    /\ call' = [call EXCEPT !.step = "one", !.seen = 0, !.rows = <<>>]
    /\ UNCHANGED <<g, session, spec, file, faults, taint, colds>>

SequentialStep ==
    /\ At("one") /\ Continues /\ NextDraft \in Tops(LastRow)
    /\ LET s == Append(tokens, NextDraft) x == Decode(g, s) IN
       \/ /\ x.ok /\ g' = x.g /\ tokens' = s
          /\ call' = [call EXCEPT !.seen = call.seen + 1, !.rows = <<LogitsOf(x, s)>>]
          /\ UNCHANGED <<valid, logits, spec, faults>>
       \/ /\ Fault /\ Return /\ valid' = FALSE /\ UNCHANGED <<tokens, logits>>
          /\ \E l \in 0..(Layers - 1) : g' = DecodeTo(g, s, l).g
    /\ UNCHANGED <<file, taint, colds>>

SequentialEnd ==
    /\ At("one") /\ (Continues => Tops(LastRow) \ {NextDraft} # {})
    /\ \/ logits' = LastRow /\ Return /\ UNCHANGED <<valid, faults>>
       \/ call.seen > 0 /\ Fault /\ Return /\ valid' = FALSE /\ UNCHANGED logits
    /\ UNCHANGED <<g, tokens, file, taint, colds>>

-----------------------------------------------------------------------------
(* The payload: the tokens, the logits, the raw rows of the last window in *)
(* logical order, and every compressor up to its counter.                  *)
RawLive(s) == Least(Least(Window, RawCap), Len(s))

LiveRaw(l) == [i \in 1..RawLive(tokens) |-> g.raw[l][(Len(tokens) - RawLive(tokens) + i - 1) % RawCap]]
LiveUnit(c) == [rows |-> [k \in 1..c.n |-> c.rows[k - 1]], state |-> c.state]

Payload ==
    [tokens |-> tokens, logits |-> logits,
     raw  |-> [l \in Layer |-> LiveRaw(l)],
     unit |-> [u \in Unit |-> LiveUnit(g.unit[u])]]

(* Bounds: only a session that is right is saved, one payload at a time,   *)
(* and a payload is loaded once.                                           *)
Save ==
    /\ Idle /\ valid /\ taint = "none" /\ file = NoFile /\ Len(tokens) \in SaveLens
    /\ file' = Payload
    /\ UNCHANGED <<g, session, call, spec, faults, taint, colds>>

(* The raw rows of the file go to the slots of their positions.            *)
LoadedRaw(ring, rows) ==
    [slot \in 0..(RawCap - 1) |->
        LET at == {i \in 1..Len(rows) : (Len(file.tokens) - Len(rows) + i - 1) % RawCap = slot} IN
        IF at = {} THEN ring[slot] ELSE rows[CHOOSE i \in at : TRUE]]

LoadedUnit(c, saved) ==
    [n |-> c.n, state |-> saved.state,
     rows |-> [k \in 0..(CompCap - 1) |-> IF k < Len(saved.rows) THEN saved.rows[k + 1] ELSE c.rows[k]]]

(* The first k layers of the file over what is there.                      *)
Loaded(k) ==
    [raw  |-> [l \in Layer |-> IF l <= k THEN LoadedRaw(g.raw[l], file.raw[l]) ELSE g.raw[l]],
     unit |-> [u \in Unit |-> IF u[1] <= k THEN LoadedUnit(g.unit[u], file.unit[u]) ELSE g.unit[u]]]

Load ==
    /\ Idle /\ file # NoFile
    /\ g' = LET h == Loaded(Layers) IN
            [h EXCEPT !.unit = [u \in Unit |-> [h.unit[u] EXCEPT !.n = Len(file.unit[u].rows)]]]
    /\ tokens' = file.tokens /\ logits' = file.logits /\ valid' = TRUE
    /\ taint' = "none" /\ file' = NoFile
    /\ UNCHANGED <<call, spec, faults, colds>>

(* A file that ends early: the logits and some layers are overwritten, the *)
(* checkpoint is not.                                                      *)
LoadFails ==
    /\ Idle /\ file # NoFile /\ Fault
    /\ \E k \in 0..Layers : g' = Loaded(k)
    /\ logits' = file.logits
    /\ taint' = IF valid THEN "load" ELSE taint
    /\ UNCHANGED <<tokens, valid, call, spec, file, colds>>

CallStep ==
    \/ Draft \/ DraftFails \/ MarginSkip \/ SnapshotFrontier \/ Verify \/ VerifyFails
    \/ AcceptAll \/ CommitPrefix1 \/ (\E m \in 1..Depth : Partial(m)) \/ Restore \/ Replay \/ Undo
    \/ SequentialStart \/ SequentialStep \/ SequentialEnd

Next ==
    \/ \E p \in Prompts : SyncResume(p) \/ SyncCold(p) \/ SyncDecode(p) \/ SyncDecodeFails(p) \/ SyncFails(p) \/ SyncTooShort(p)
    \/ \E t \in Sampled : Eval(t) \/ EvalFails(t)
    \/ \E t \in Token, max \in {1, Depth + 1} : Speculate(t, max)
    \/ CallStep \/ Invalidate \/ Save \/ Load \/ LoadFails

Spec == Init /\ [][Next]_vars

-----------------------------------------------------------------------------
(* Counters stay within the capacities and the checkpoint in the context,  *)
(* whatever failed.                                                        *)
TypeOK ==
    /\ tokens \in Seq(Token) /\ Len(tokens) < Ctx /\ valid \in BOOLEAN
    /\ \A l \in Layer : DOMAIN g.raw[l] = 0..(RawCap - 1)
    /\ \A u \in Unit :
        /\ g.unit[u].n \in 0..CompCap
        /\ DOMAIN g.unit[u].rows = 0..(CompCap - 1) /\ DOMAIN g.unit[u].state = DOMAIN Empty(u)
    /\ faults \in 0..MaxFaults /\ colds \in 0..MaxColds /\ taint \in {"none", "window", "load", "restore"}

(* Between calls a valid checkpoint has in the graph exactly the rows that *)
(* belong to its tokens: the last window of raw rows, every finished       *)
(* compressed row, the counters, and the windows being filled; whatever    *)
(* was drafted, rejected, replayed, failed, saved or loaded before.        *)
RawExact == \A l \in Layer, p \in 0..(Len(tokens) - 1) :
    p + Window >= Len(tokens) => g.raw[l][p % RawCap] = RowOf(tokens, p)

(* The rows of the window being filled, and of the previous one, that the  *)
(* next pooled row will be made from.                                      *)
Pending(u, n) ==
    LET filled == n % RatioOf(u) IN
    IF RatioOf(u) # 4 THEN 0..(filled - 1) ELSE IF filled = 0 THEN 0..3 ELSE 0..(3 + filled)

StateExact(u) ==
    LET n == Len(tokens)
        want == StateOf(u, tokens, n - 1)
    IN \A r \in Pending(u, n) :
        g.unit[u].state[r] = want[IF RatioOf(u) = 4 /\ n % 4 = 0 THEN 4 + r ELSE r]

RowsExact(u) ==
    /\ g.unit[u].n = Len(tokens) \div RatioOf(u)
    /\ RowsRight(u, g.unit[u], tokens, g.unit[u].n)

Settled == Idle /\ valid /\ taint = "none"

(* The logits are those of the checkpoint: every row any token of it read  *)
(* was the right one.                                                      *)
LogitsTrue == logits = tokens

(* GraphExact: the rows, the windows and the logits belong to the tokens,  *)
(* whatever led here.                                                      *)
GraphExact ==
    /\ TypeOK
    /\ Settled => LogitsTrue /\ RawExact /\ \A u \in Unit : RowsExact(u) /\ StateExact(u)

(* The reference path, given the same tokens as a prompt or one by one,    *)
(* shows its attention and its compressors the rows the graph holds.       *)
SameRows(c) ==
    /\ \A l \in Layer : \A i \in 1..Len(c.raw[l]) :
        c.raw[l][i] = g.raw[l][(Len(tokens) - Len(c.raw[l]) + i - 1) % RawCap]
    /\ \A u \in Unit :
        /\ Len(c.unit[u].rows) = g.unit[u].n
        /\ \A k \in 1..g.unit[u].n : c.unit[u].rows[k] = g.unit[u].rows[k - 1]
        /\ \A r \in Pending(u, Len(tokens)) : c.unit[u].state[r] = g.unit[u].state[r]

SameAsCpu == Settled /\ tokens # <<>> =>
    \A m \in {1, Len(tokens)} :
        LET x == CpuRun(tokens, m) IN x.ok /\ x.right /\ SameRows(x.c)

(* What a speculative call appends after the first token is the text the   *)
(* target would have picked one token at a time, and nothing after its end. *)
Speaks ==
    ~Idle /\ call' = NoCall /\ valid' /\ taint' = "none" =>
        /\ Upto(tokens', Start) = Base
        /\ \A i \in Start..(Len(tokens') - 1) : tokens'[i + 1] = Choice[i] /\ tokens'[i] # Eos

SpeaksAsTarget == [][Speaks]_vars

(* A comment at the rebuilt window says that a following decode token sees *)
(* the same rolling compression window.                                    *)
SameWindow == Idle /\ valid /\ taint \in {"none", "window"} => \A u \in Unit : StateExact(u)
=============================================================================
