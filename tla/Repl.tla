------------------------------- MODULE Repl -------------------------------
(***************************************************************************)
(* The command line's conversations (ds4_cli.c): the interactive prompt    *)
(* with its transcript of tokens over one live session, and the one-shot   *)
(* prompt.  A line is a command or a question; a question is one turn,     *)
(* tentatively appended to the transcript, brought into the session by     *)
(* ds4_session_sync and answered token by token.  SIGINT sets a flag that  *)
(* the decode loop looks at.                                               *)
(*                                                                         *)
(* A question with its role marker, the assistant marker with <think> or   *)
(* </think>, and the system text are one token each.  Line editing is left *)
(* out: a read gives a line, nothing (Ctrl+C, end of input) or the end.    *)
(* The greedy one-shot loop of ds4_engine_generate_argmax, which has no    *)
(* session, is left out too.                                               *)
(***************************************************************************)
EXTENDS LiveSession

CONSTANTS
    Bos, Eos,
    Question,    \* tokens of the user's messages
    Word,        \* tokens the model may answer with
    Think, Plain,\* the assistant prefix with <think>, with </think>
    MaxPrefix,   \* tokens of the max effort prefix
    Systems,     \* system prompts the program may be started with
    MaxMinCtx,   \* DS4_THINK_MAX_MIN_CONTEXT
    NPredict,    \* --tokens
    MaxAccept    \* tokens one speculative evaluation may accept

ASSUME ReplAssumption ==
    /\ {Bos, Eos, Think, Plain} \cup Question \cup Word \subseteq Token
    /\ Eos \notin Word
    /\ MaxPrefix \in Seq(Token) \ {<<>>} /\ Systems \subseteq Seq(Token)
    /\ {MaxMinCtx, NPredict, MaxAccept} \subseteq Nat

VARIABLES
    task,         \* "repl", "once" (-p), or "none"
    at,           \* where run_repl or run_sampled_generation is
    think,        \* gen.think_mode
    transcript,   \* chat->transcript; of a one-shot run its prompt and what was printed
    prefixTokens, \* chat->max_prefix_tokens
    rollback,     \* rollback_len
    generated, limit,
    interrupted,  \* cli_interrupted
    system, turns,\* history: the conversation as the user sees it
    hit           \* history: an interrupt arrived since the turn began

chat == <<think, transcript, prefixTokens, rollback, generated, limit>>
seen == <<system, turns>>
repl == <<task, at, chat, interrupted, seen, hit>>

ThinkModes == {"none", "high", "max"}
Effective(mode, ctx) == IF mode = "max" /\ ctx < MaxMinCtx THEN "high" ELSE mode
MaxNow == Effective(think, config.ctx) = "max"
Mark(mode) == IF mode = "none" THEN Plain ELSE Think

(* ds4_encode_chat_prompt, the prompt of a one-shot run.                   *)
ChatPrompt(sys, question, mode) ==
    <<Bos>> \o (IF mode = "max" THEN MaxPrefix ELSE <<>>) \o sys \o <<question, Mark(mode)>>

NoSession ==
    /\ checkpoint' = <<>> /\ valid' = FALSE
    /\ graph' = Mixed /\ logits' = Mixed
    /\ progress' = -1 /\ sync' = Synced(TRUE)

InitRepl ==
    /\ InitSession
    /\ task = "none" /\ at = "ended" /\ think = "none"
    /\ transcript = <<>> /\ prefixTokens = 0
    /\ rollback = 0 /\ generated = 0 /\ limit = 0
    /\ interrupted = FALSE /\ system = <<>> /\ turns = <<>> /\ hit = FALSE

Asked(question, mode) == [ask |-> question, mark |-> Mark(mode), said |-> <<>>, end |-> "open"]

-----------------------------------------------------------------------------
(* The max effort prefix goes behind BOS, before the system text, and is   *)
(* cut out again when the mode changes.                                    *)
Insert(s, p, x) == SubSeq(s, 1, p) \o x \o SubSeq(s, p + 1, Len(s))
Cut(s, p, n) == SubSeq(s, 1, p) \o SubSeq(s, p + n + 1, Len(s))

EditPrefix(enable) ==
    CASE enable /\ prefixTokens = 0 ->
            /\ transcript' = Insert(transcript, 1, MaxPrefix)
            /\ prefixTokens' = Len(MaxPrefix)
      [] ~enable /\ prefixTokens > 0 ->
            /\ transcript' = Cut(transcript, 1, prefixTokens)
            /\ prefixTokens' = 0
      [] OTHER -> UNCHANGED <<transcript, prefixTokens>>

(* A session behind an edited transcript is invalidated.                   *)
ApplyMaxPrefix(enable) ==
    /\ EditPrefix(enable)
    /\ IF prefixTokens' # prefixTokens THEN Invalidate ELSE UNCHANGED <<checkpoint, valid>>

(* run_repl up to its loop, and run_sampled_generation up to its sync.     *)
StartRepl(mode, sys, c) ==
    LET prefix == IF Effective(mode, c.ctx) = "max" THEN MaxPrefix ELSE <<>>
    IN /\ task' = "repl" /\ at' = "prompt"
       /\ think' = mode /\ system' = sys /\ config' = c
       /\ transcript' = <<Bos>> \o prefix \o sys /\ prefixTokens' = Len(prefix)
       /\ interrupted' = FALSE
       /\ NoSession
       /\ UNCHANGED <<rollback, generated, limit, turns, hit>>

StartOnce(mode, sys, c, question) ==
    LET now == Effective(mode, c.ctx)
    IN /\ task' = "once" /\ at' = "sync"
       /\ think' = mode /\ system' = sys /\ config' = c
       /\ transcript' = ChatPrompt(sys, question, now)
       /\ turns' = <<Asked(question, now)>>
       /\ checkpoint' = <<>> /\ valid' = FALSE /\ graph' = Mixed /\ logits' = Mixed
       /\ progress' = 0
       /\ sync' = IF Len(transcript') >= c.ctx THEN Synced(FALSE)
                  ELSE [mode |-> IF c.cap < Len(transcript') THEN "chunks" ELSE "whole",
                        prompt |-> transcript', from |-> 0, at |-> 0, ok |-> FALSE]
       /\ UNCHANGED <<prefixTokens, rollback, generated, limit, interrupted, hit>>

-----------------------------------------------------------------------------
(* The prompt.  The line editor's raw mode takes Ctrl+C as a key, so that  *)
(* SIGINT comes before or after it; a read that gives nothing clears the   *)
(* flag, and with neither it nor Ctrl+C it is the end of the input.        *)
Prompt == task = "repl" /\ at = "prompt"

ReadNothing ==
    /\ Prompt
    /\ interrupted' = FALSE
    /\ UNCHANGED <<task, at, chat, seen, hit, session>>

Quit ==
    /\ Prompt
    /\ at' = "ended"
    /\ UNCHANGED <<task, chat, interrupted, seen, hit, session>>

(* /think, /nothink, /think-max.                                           *)
SetThink(mode) ==
    /\ Prompt
    /\ think' = mode
    /\ ApplyMaxPrefix(Effective(mode, config.ctx) = "max")
    /\ UNCHANGED <<task, at, rollback, generated, limit, interrupted, seen, hit,
                   config, graph, logits, progress, sync>>

(* /ctx N: the old session is freed before the new, empty one is made.     *)
SetCtx(c) ==
    /\ Prompt
    /\ config' = c
    /\ EditPrefix(Effective(think, c.ctx) = "max")
    /\ checkpoint' = <<>> /\ valid' = FALSE
    /\ graph' = Mixed /\ logits' = Mixed
    /\ progress' = -1 /\ sync' = Synced(TRUE)
    /\ UNCHANGED <<task, at, think, rollback, generated, limit, interrupted, seen, hit>>

SetCtxFails ==
    /\ Prompt
    /\ at' = "ended"
    /\ NoSession
    /\ UNCHANGED <<config, task, chat, interrupted, seen, hit>>

-----------------------------------------------------------------------------
(* run_chat_turn.                                                          *)

(* Mutant: the length to roll back to is taken after the user's message.   *)
AskLate(question) ==
    /\ Prompt
    /\ ApplyMaxPrefix(MaxNow)
    /\ rollback' = Len(transcript') + 1
    /\ at' = "turn" /\ hit' = FALSE
    /\ turns' = Append(turns, Asked(question, Effective(think, config.ctx)))
    /\ UNCHANGED <<task, think, generated, limit, interrupted, system,
                   config, graph, logits, progress, sync>>

Ask(question) ==
    /\ Prompt
    /\ ApplyMaxPrefix(MaxNow)
    /\ rollback' = Len(transcript')
    /\ at' = "turn" /\ hit' = FALSE
    /\ turns' = Append(turns, Asked(question, Effective(think, config.ctx)))
    /\ UNCHANGED <<task, think, generated, limit, interrupted, system,
                   config, graph, logits, progress, sync>>

Cached(p) == IF Extends(p) THEN Len(checkpoint) ELSE 0

StartTurn ==
    /\ at = "turn"
    /\ LET turn == turns[Len(turns)]
           p == transcript \o <<turn.ask, turn.mark>>
       IN /\ transcript' = p
          /\ progress' = Cached(p)
          /\ Start(p)
    /\ at' = "sync"
    /\ UNCHANGED <<task, think, prefixTokens, rollback, generated, limit, interrupted,
                   seen, hit, config, checkpoint, valid, graph, logits>>

SyncStep ==
    /\ at = "sync"
    /\ Chunk \/ WholePrefill \/ ChunksDone \/ EvalToken \/ TokensDone \/ SyncFails
    /\ UNCHANGED repl

SyncFailed ==
    /\ at = "sync" /\ ~Syncing /\ ~sync.ok
    /\ at' = IF task = "repl" THEN "prompt" ELSE "ended"
    /\ transcript' = IF task = "repl" THEN Upto(transcript, rollback) ELSE transcript
    /\ turns' = Front(turns)
    /\ progress' = -1
    /\ UNCHANGED <<task, think, prefixTokens, rollback, generated, limit, interrupted, system,
                   hit, config, checkpoint, valid, graph, logits, sync>>

Room == config.ctx - Len(checkpoint)

SyncDone ==
    /\ at = "sync" /\ ~Syncing /\ sync.ok
    /\ at' = "decode"
    /\ generated' = 0
    /\ limit' = IF Room <= 1 THEN 0 ELSE Least(NPredict, Room - 1)
    /\ progress' = -1
    /\ UNCHANGED <<task, think, transcript, prefixTokens, rollback, interrupted, seen, hit,
                   config, checkpoint, valid, graph, logits, sync>>

-----------------------------------------------------------------------------
(* The decode loop.  One evaluation accepts the sampled token and, when    *)
(* the drafter is on, drafted ones behind it, the last of which may be the *)
(* end of sentence; what is printed is appended to the transcript.         *)
Decoding == at = "decode" /\ generated < limit /\ ~interrupted

Accepted == {ts \in BoundedSeq(Word, Least(MaxAccept, limit - generated)) : ts # <<>>}
Finishing == {Append(ts, Eos) : ts \in {s \in Accepted : Len(s) < Least(MaxAccept, limit - generated)}}

Printed(ts) == IF Eos \in ToSet(ts) THEN Front(ts) ELSE ts

Said(ts) ==
    /\ transcript' = transcript \o ts
    /\ turns' = [turns EXCEPT ![Len(turns)].said = @ \o ts]
    /\ generated' = generated + Len(ts)

(* Mutant: the end of sentence among the accepted tokens does not stop.    *)
DecodeOn(ts) ==
    /\ Decoding
    /\ Said(Printed(ts))
    /\ Eval(ts)
    /\ UNCHANGED <<task, at, think, prefixTokens, rollback, limit, interrupted, system, hit>>

Decode(ts) ==
    /\ Decoding
    /\ Said(Printed(ts))
    /\ Eval(ts)
    /\ at' = IF Eos \in ToSet(ts) THEN "answered" ELSE "decode"
    /\ UNCHANGED <<task, think, prefixTokens, rollback, limit, interrupted, system, hit>>

SampleEos ==
    /\ Decoding
    /\ at' = "answered"
    /\ UNCHANGED <<task, chat, interrupted, seen, hit, session>>

LoopEnds ==
    /\ at = "decode" /\ ~Decoding
    /\ at' = "answered"
    /\ UNCHANGED <<task, chat, interrupted, seen, hit, session>>

(* An evaluation fails: the turn is left as it is, without an end.         *)
DecodeFails ==
    /\ Decoding
    /\ EvalFails
    /\ at' = IF task = "repl" THEN "prompt" ELSE "ended"
    /\ turns' = [turns EXCEPT ![Len(turns)].end = "broken"]
    /\ UNCHANGED <<task, chat, interrupted, system, hit>>

(* The turn is over: an interrupt before the first token takes it back.    *)
Finish ==
    /\ at = "answered"
    /\ at' = IF task = "repl" THEN "prompt" ELSE "ended"
    /\ interrupted' = FALSE
    /\ CASE task = "once" -> UNCHANGED <<transcript, turns, checkpoint, valid>>
         [] task = "repl" /\ interrupted /\ generated = 0 ->
              /\ transcript' = Upto(transcript, rollback)
              /\ turns' = Front(turns)
              /\ Invalidate
         [] OTHER ->
              /\ transcript' = Append(transcript, Eos)
              /\ turns' = [turns EXCEPT ![Len(turns)].end = "closed"]
              /\ UNCHANGED <<checkpoint, valid>>
    /\ UNCHANGED <<task, think, prefixTokens, rollback, generated, limit, system, hit,
                   config, graph, logits, progress, sync>>

(* cli_sigint_handler; only run_repl installs it.                          *)
Interrupt ==
    /\ task = "repl" /\ at # "ended"
    /\ interrupted' = TRUE /\ hit' = TRUE
    /\ UNCHANGED <<task, at, chat, seen, session>>

ReplStep ==
    \/ ReadNothing \/ Quit \/ SetCtxFails \/ StartTurn \/ SyncStep \/ SyncFailed \/ SyncDone
    \/ SampleEos \/ LoopEnds \/ DecodeFails \/ Finish \/ Interrupt
    \/ \E mode \in ThinkModes : SetThink(mode)
    \/ \E c \in Configs : SetCtx(c)
    \/ \E question \in Question : Ask(question)
    \/ Decoding /\ \E ts \in Accepted \cup Finishing : Decode(ts)

-----------------------------------------------------------------------------
(* The tokens of the conversation the user sees: the start, with the max   *)
(* effort prefix as the mode and the context size now ask for it, and      *)
(* every question with what was answered, ended unless it broke off.       *)
Tokens1(turn) ==
    <<turn.ask, turn.mark>> \o turn.said \o (IF turn.end = "closed" THEN <<Eos>> ELSE <<>>)
Conversation(ts) ==
    <<Bos>> \o (IF MaxNow THEN MaxPrefix ELSE <<>>) \o system
            \o FlattenSeq([k \in DOMAIN ts |-> Tokens1(ts[k])])

(* The transcript, edited in place by every mode change, rolled back and   *)
(* continued, is at every moment the conversation the user sees and was    *)
(* shown: no turn taken back leaves a token, none answered loses one, and  *)
(* the prefix is there once, behind BOS, exactly when it should be.  The   *)
(* first turn of an interactive run has the prompt of a one-shot run.      *)
TranscriptIsConversation ==
    at # "ended" =>
        /\ transcript = Conversation(IF at = "turn" THEN Front(turns) ELSE turns)
        /\ (at = "sync" /\ Len(turns) = 1) =>
             transcript = ChatPrompt(system, turns[1].ask, Effective(think, config.ctx))

(* Every token of an answer is sampled from the logits of exactly the      *)
(* transcript, and the evaluation it leads to fits the context, whatever   *)
(* was rolled back, interrupted or broken off before.                      *)
AnswersTranscript ==
    at = "decode" =>
        /\ valid /\ checkpoint = transcript /\ logits = transcript /\ graph = transcript
        /\ Len(transcript) < config.ctx

(* The interactive help says that Ctrl+C stops generation and returns to   *)
(* the prompt (ds4_cli.c:771).  It stops the generation that runs: a turn  *)
(* is taken back only when an interrupt arrived since the turn began.      *)
InterruptStopsOwnTurn ==
    [][(at = "answered" /\ interrupted /\ generated = 0 /\ Len(turns') < Len(turns)) => hit]_repl
=============================================================================
