----------------------------- MODULE CliProofs -----------------------------
(***************************************************************************)
(* Proofs about the ds4 program.  For any set of processes, killed at any  *)
(* point, one process at a time has the model mapped; and for any          *)
(* questions, answers, prefix, context sizes and chunk sizes, in any       *)
(* order of commands, failures and interrupts, the transcript is the       *)
(* conversation the user saw and every token is sampled behind it.         *)
(*                                                                         *)
(* Two invariants: IInv is about the lock, ReplInv about the conversation  *)
(* of the one process that runs.  A conversation starts from what the last *)
(* one left, and it is IInv that says nobody else is in the middle of one. *)
(***************************************************************************)
EXTENDS Cli, LiveSessionProofs

-----------------------------------------------------------------------------
(* The instance lock.                                                      *)

(* From the flock on, and until it is given up, a process is the holder;   *)
(* from the pid on, and until the model is unmapped, the file names it.    *)
Locked == {"locked", "cut", "held", "mapped", "running", "closing", "unmapped", "exiting"}
Named  == {"held", "mapped", "running", "closing"}

TypeOK ==
    /\ proc \in [Proc -> Places]
    /\ lock \in Proc \cup {Nobody}
    /\ pidfile \in Proc \cup {Nobody}

HoldersLock  == \A p \in Proc : proc[p] \in Locked => lock = p
HoldersFile  == \A p \in Proc : proc[p] \in Named => pidfile = p

IInv == TypeOK /\ HoldersLock /\ HoldersFile

-----------------------------------------------------------------------------
(* No process holds anything at first.                                     *)
LEMMA InitLock == Init => IInv
  BY ProcAssumption DEF Init, IInv, TypeOK, HoldersLock, HoldersFile, Places, Locked, Named

(* A process moves alone, it takes the lock only when nobody has it, and   *)
(* gives it up, or loses it when it is killed, only as its holder.         *)
LEMMA StepKeeps ==
    ASSUME IInv, NEW p \in Proc, Step(p)
    PROVE  IInv'
  <1> USE ProcAssumption DEF IInv, TypeOK, HoldersLock, HoldersFile, Places, Locked, Named, Go
  <1>1. CASE OpenLockFile(p) BY <1>1 DEF OpenLockFile
  <1>2. CASE Lock(p) BY <1>2 DEF Lock
  <1>3. CASE Refused(p) BY <1>3 DEF Refused
  <1>4. CASE Truncate(p) BY <1>4 DEF Truncate
  <1>5. CASE TruncateFails(p) BY <1>5 DEF TruncateFails
  <1>6. CASE WritePid(p) BY <1>6 DEF WritePid
  <1>7. CASE Map(p) BY <1>7 DEF Map
  <1>8. CASE MapFails(p) BY <1>8 DEF MapFails
  <1>9. CASE Run(p) BY <1>9 DEF Run
  <1>10. CASE BackendFails(p) BY <1>10 DEF BackendFails
  <1>11. CASE Converse(p) BY <1>11 DEF Converse, engine
  <1>12. CASE Returned(p) BY <1>12 DEF Returned
  <1>13. CASE Exit(p) BY <1>13 DEF Exit
  <1>14. CASE Unmap(p) BY <1>14 DEF Unmap
  <1>15. CASE Release(p) BY <1>15 DEF Release
  <1>16. CASE ExitHandler(p) BY <1>16 DEF ExitHandler
  <1>17. CASE Gone(p) BY <1>17 DEF Gone
  <1>18. CASE Killed(p) BY <1>18 DEF Killed
  <1>19. QED
    BY <1>1, <1>2, <1>3, <1>4, <1>5, <1>6, <1>7, <1>8, <1>9, <1>10, <1>11, <1>12,
       <1>13, <1>14, <1>15, <1>16, <1>17, <1>18 DEF Step

(* The three facts together are inductive.                                 *)
THEOREM LockDiscipline == Spec => []IInv
  <1>1. Init => IInv
    BY InitLock
  <1>2. IInv /\ [Next]_vars => IInv'
    <2> SUFFICES ASSUME IInv, [Next]_vars PROVE IInv'
      OBVIOUS
    <2>1. CASE Next BY <2>1, StepKeeps DEF Next
    <2>2. CASE UNCHANGED vars
      BY <2>2 DEF vars, IInv, TypeOK, HoldersLock, HoldersFile
    <2>3. QED BY <2>1, <2>2
  <1>3. QED BY <1>1, <1>2, PTL DEF Spec

(* Whatever processes are started, refused and killed, and in whatever     *)
(* order, no two have the model mapped, and the lock file names the one    *)
(* that has it (ds4_acquire_instance_lock, ds4_engine_close).              *)
THEOREM OneEngineAtATime == Spec => []OneEngine
  <1>1. IInv => OneEngine
    BY ProcAssumption
    DEF IInv, TypeOK, HoldersLock, HoldersFile, OneEngine, HasModel, Locked, Named
  <1>2. QED BY <1>1, LockDiscipline, PTL

-----------------------------------------------------------------------------
(* The conversation.                                                       *)

Turn == [ask : Question, mark : {Think, Plain}, said : Seq(Word), end : {"open", "broken", "closed"}]

ReplTypeOK ==
    /\ task \in {"repl", "once", "none"}
    /\ at \in {"prompt", "turn", "sync", "decode", "answered", "ended"}
    /\ think \in ThinkModes /\ transcript \in Tokens /\ prefixTokens \in Nat
    /\ rollback \in Nat /\ generated \in Nat /\ limit \in Nat
    /\ interrupted \in BOOLEAN /\ hit \in BOOLEAN
    /\ system \in Tokens /\ turns \in Seq(Turn)

(* What the session has of the transcript: a sync is to all of it, and an  *)
(* answer has room for as many tokens as it may still get.                 *)
AnswerPath ==
    /\ Syncing => at = "sync" /\ sync.prompt = transcript
    /\ at = "sync" /\ ~Syncing /\ sync.ok =>
         valid /\ checkpoint = transcript /\ Len(transcript) < config.ctx
    /\ at = "decode" =>
         /\ valid /\ checkpoint = transcript /\ generated <= limit
         /\ Len(transcript) < config.ctx
         /\ generated < limit => Len(transcript) + (limit - generated) < config.ctx

(* The conversation with a max effort prefix p: of a start and its turns.  *)
Body(ts) == FlattenSeq([k \in DOMAIN ts |-> Tokens1(ts[k])])
Conv(p, sys, ts) == <<Bos>> \o p \o sys \o Body(ts)
Prefix == IF MaxNow THEN MaxPrefix ELSE <<>>

Talking == at \in {"turn", "sync", "decode", "answered"}

(* What the transcript has of the conversation, and how a turn that is     *)
(* under way will be taken back.                                           *)
TurnPath ==
    /\ at # "ended" => task \in {"repl", "once"}
    /\ at \in {"prompt", "turn"} => task = "repl"
    /\ at # "ended" /\ task = "repl" => prefixTokens = Len(Prefix)
    /\ Talking => turns # <<>> /\ turns[Len(turns)].end = "open"
    /\ at \in {"turn", "sync"} =>
         turns[Len(turns)].said = <<>> /\ turns[Len(turns)].mark = Mark(Effective(think, config.ctx))
    /\ Talking /\ task = "repl" => rollback = Len(Conv(Prefix, system, Front(turns)))
    /\ at # "ended" => transcript = Conv(Prefix, system, IF at = "turn" THEN Front(turns) ELSE turns)

ReplInv == ReplTypeOK /\ SessionInv /\ AnswerPath /\ TurnPath

(* While nobody runs there is no conversation.                             *)
Silent == turns = <<>> /\ ~Syncing /\ at = "ended"

-----------------------------------------------------------------------------
(* The tokens of a conversation.                                           *)
LEMMA TurnTokens ==
    ASSUME NEW turn \in Turn
    PROVE  Tokens1(turn) \in Tokens
<1>1. turn.ask \in Token /\ turn.mark \in Token /\ Eos \in Token
  BY ReplAssumption DEF Turn
<1>2. turn.said \in Seq(Token)
  <2>1. turn.said \in Seq(Word) /\ Word \subseteq Token
    BY ReplAssumption DEF Turn
  <2> QED BY <2>1
<1>3. <<turn.ask, turn.mark>> \in Seq(Token) /\ <<Eos>> \in Seq(Token) /\ <<>> \in Seq(Token)
  BY <1>1
<1>4. (IF turn.end = "closed" THEN <<Eos>> ELSE <<>>) \in Seq(Token)
  BY <1>3
<1>5. <<turn.ask, turn.mark>> \o turn.said \in Seq(Token)
  BY <1>2, <1>3, ConcatIs
<1> QED BY <1>4, <1>5, ConcatIs DEF Tokens1, Tokens

(* The last turn comes behind the others.                                  *)
LEMMA BodyIs ==
    ASSUME NEW ts \in Seq(Turn)
    PROVE  /\ Body(ts) \in Tokens
           /\ ts = <<>> => Body(ts) = <<>>
           /\ ts # <<>> => /\ Front(ts) \in Seq(Turn) /\ ts[Len(ts)] \in Turn
                           /\ Body(ts) = Body(Front(ts)) \o Tokens1(ts[Len(ts)])
<1> DEFINE parts(us) == [k \in DOMAIN us |-> Tokens1(us[k])]
<1>1. ASSUME NEW us \in Seq(Turn)
      PROVE  /\ parts(us) \in Seq(Seq(Token)) /\ Len(parts(us)) = Len(us)
             /\ \A k \in 1..Len(us) : parts(us)[k] = Tokens1(us[k])
  <2>1. DOMAIN us = 1..Len(us) /\ Len(us) \in Nat /\ \A k \in 1..Len(us) : us[k] \in Turn
    OBVIOUS
  <2>2. \A k \in 1..Len(us) : Tokens1(us[k]) \in Seq(Token)
    BY <2>1, TurnTokens DEF Tokens
  <2> QED BY <2>1, <2>2
<1>2. Body(ts) \in Tokens
  BY <1>1, FlattenType DEF Body, Tokens
<1>3. ts = <<>> => Body(ts) = <<>>
  <2>1. HAVE ts = <<>>
  <2>2. parts(ts) = <<>>
    BY <1>1, <2>1
  <2> QED BY <1>1, <2>2, FlattenIs DEF Body
<1>4. ASSUME ts # <<>>
      PROVE  /\ Front(ts) \in Seq(Turn) /\ ts[Len(ts)] \in Turn
             /\ Body(ts) = Body(Front(ts)) \o Tokens1(ts[Len(ts)])
  <2> DEFINE n == Len(ts)
             us == Front(ts)
  <2>1. n \in Nat \ {0} /\ n \in 1..n /\ ts[n] \in Turn
    BY <1>4
  <2>2. us \in Seq(Turn) /\ Len(us) = n - 1 /\ \A k \in 1..(n - 1) : us[k] = ts[k]
    BY <1>4, FrontIs
  <2> HIDE DEF us
  <2>3. Tokens1(ts[n]) \in Seq(Token)
    BY <2>1, TurnTokens DEF Tokens
  <2> DEFINE a == parts(us)
             b == parts(ts)
             c == Append(a, Tokens1(ts[n]))
  <2>4. a \in Seq(Seq(Token)) /\ Len(a) = n - 1 /\ \A k \in 1..(n - 1) : a[k] = Tokens1(us[k])
    BY <1>1, <2>2
  <2>5. b \in Seq(Seq(Token)) /\ Len(b) = n /\ \A k \in 1..n : b[k] = Tokens1(ts[k])
    BY <1>1
  <2> HIDE DEF a, b
  <2>6. b = c
    <3>1. c \in Seq(Seq(Token)) /\ Len(c) = n /\ \A k \in 1..n : c[k] = IF k = n THEN Tokens1(ts[n]) ELSE a[k]
      BY <2>1, <2>3, <2>4
    <3> HIDE DEF c
    <3>2. ASSUME NEW k \in 1..n PROVE b[k] = c[k]
      <4>1. k # n => k \in 1..(n - 1)
        BY <2>1
      <4>2. k # n => a[k] = Tokens1(ts[k])
        BY <2>2, <2>4, <4>1
      <4> QED BY <2>5, <3>1, <4>2
    <3> QED BY <2>5, <3>1, <3>2, SameSequence
  <2>7. FlattenSeq(c) = FlattenSeq(a) \o Tokens1(ts[n])
    BY <2>3, <2>4, FlattenAppend
  <2>8. Body(ts) = FlattenSeq(b) /\ Body(us) = FlattenSeq(a)
    BY DEF Body, a, b
  <2> QED BY <2>1, <2>2, <2>6, <2>7, <2>8 DEF us
<1> QED BY <1>2, <1>3, <1>4

LEMMA ConvIs ==
    ASSUME NEW p \in Tokens, NEW sys \in Tokens, NEW ts \in Seq(Turn)
    PROVE  /\ Conv(p, sys, ts) \in Tokens
           /\ ts = <<>> => Conv(p, sys, ts) = <<Bos>> \o p \o sys
           /\ ts # <<>> => Conv(p, sys, ts) = Conv(p, sys, Front(ts)) \o Tokens1(ts[Len(ts)])
<1> DEFINE a == <<Bos>> \o p \o sys
<1>1. a \in Seq(Token)
  <2>1. <<Bos>> \in Seq(Token)
    BY ReplAssumption
  <2>2. <<Bos>> \o p \in Seq(Token)
    BY <2>1, ConcatIs DEF Tokens
  <2> QED BY <2>2, ConcatIs DEF Tokens
<1>2. \A us : Conv(p, sys, us) = a \o Body(us)
  BY DEF Conv
<1> HIDE DEF a
<1>3. Body(ts) \in Seq(Token)
  BY BodyIs DEF Tokens
<1>4. Conv(p, sys, ts) \in Tokens
  BY <1>1, <1>2, <1>3, ConcatIs DEF Tokens
<1>5. ts = <<>> => Conv(p, sys, ts) = a
  <2>1. HAVE ts = <<>>
  <2>2. Body(ts) = <<>>
    BY <2>1, BodyIs
  <2>3. Conv(p, sys, ts) = a \o Body(ts)
    BY <1>2
  <2>4. a \o <<>> = a
    BY <1>1, ConcatEmpty
  <2> QED BY <2>2, <2>3, <2>4
<1>6. ASSUME ts # <<>>
      PROVE  Conv(p, sys, ts) = Conv(p, sys, Front(ts)) \o Tokens1(ts[Len(ts)])
  <2>1. /\ Front(ts) \in Seq(Turn) /\ ts[Len(ts)] \in Turn
        /\ Body(ts) = Body(Front(ts)) \o Tokens1(ts[Len(ts)])
    BY <1>6, BodyIs
  <2>2. Body(Front(ts)) \in Seq(Token) /\ Tokens1(ts[Len(ts)]) \in Seq(Token)
    BY <2>1, BodyIs, TurnTokens DEF Tokens
  <2>3. Assoc(a, Body(Front(ts)), Tokens1(ts[Len(ts)]))
    BY <1>1, <2>2, ConcatAssoc
  <2>4. Conv(p, sys, ts) = a \o Body(ts) /\ Conv(p, sys, Front(ts)) = a \o Body(Front(ts))
    BY <1>2
  <2> QED BY <2>1, <2>3, <2>4 DEF Assoc
<1> QED BY <1>4, <1>5, <1>6 DEF a

(* The prefix goes in behind BOS and comes out again.                      *)
LEMMA ConvPrefix ==
    ASSUME NEW p \in Tokens, NEW sys \in Tokens, NEW ts \in Seq(Turn)
    PROVE  /\ Insert(Conv(<<>>, sys, ts), 1, p) = Conv(p, sys, ts)
           /\ Cut(Conv(p, sys, ts), 1, Len(p)) = Conv(<<>>, sys, ts)
<1> DEFINE h == <<Bos>>
           r == sys \o Body(ts)
<1>1. /\ h \in Seq(Token) /\ Len(h) = 1 /\ <<>> \in Seq(Token)
      /\ p \in Seq(Token) /\ sys \in Seq(Token) /\ Body(ts) \in Seq(Token)
  BY ReplAssumption, BodyIs DEF Tokens
<1>2. r \in Seq(Token)
  BY <1>1, ConcatIs
<1>3. Conv(p, sys, ts) = (h \o p) \o r /\ h \o p \in Seq(Token) /\ Len(h \o p) = 1 + Len(p)
  <2>1. h \o p \in Seq(Token) /\ Len(h \o p) = 1 + Len(p)
    BY <1>1, ConcatIs
  <2>2. Conv(p, sys, ts) = ((h \o p) \o sys) \o Body(ts)
    BY DEF Conv
  <2> HIDE DEF h
  <2>3. Assoc(h \o p, sys, Body(ts))
    BY <1>1, <2>1, ConcatAssoc
  <2> QED BY <2>1, <2>2, <2>3 DEF Assoc
<1>4. Conv(<<>>, sys, ts) = h \o r
  <2>1. Conv(<<>>, sys, ts) = ((h \o <<>>) \o sys) \o Body(ts)
    BY DEF Conv
  <2>2. h \o <<>> = h
    BY <1>1, ConcatEmpty
  <2> HIDE DEF h
  <2>3. Assoc(h, sys, Body(ts))
    BY <1>1, ConcatAssoc
  <2> QED BY <2>1, <2>2, <2>3 DEF Assoc
<1> HIDE DEF h, r
<1>5. (h \o p) \o r = h \o (p \o r) /\ p \o r \in Seq(Token)
  <2>1. p \o r \in Seq(Token)
    BY <1>1, <1>2, ConcatIs
  <2>2. Assoc(h, p, r)
    BY <1>1, <1>2, ConcatAssoc
  <2> QED BY <2>1, <2>2 DEF Assoc
<1>6. Insert(Conv(<<>>, sys, ts), 1, p) = Conv(p, sys, ts)
  <2>1. SubSeq(h \o r, 1, Len(h)) = h /\ SubSeq(h \o r, Len(h) + 1, Len(h \o r)) = r
    BY <1>1, <1>2, ConcatParts
  <2> QED BY <1>1, <1>3, <1>4, <2>1 DEF Insert
<1>7. Cut(Conv(p, sys, ts), 1, Len(p)) = Conv(<<>>, sys, ts)
  <2> DEFINE c == (h \o p) \o r
  <2>1. SubSeq(c, Len(h \o p) + 1, Len(c)) = r
    BY <1>2, <1>3, ConcatParts
  <2>2. SubSeq(h \o (p \o r), 1, Len(h)) = h
    BY <1>1, <1>5, ConcatParts
  <2>3. SubSeq(c, 1, 1) = h
    BY <1>1, <1>5, <2>2
  <2>4. Len(p) \in Nat /\ 1 + Len(p) + 1 = Len(h \o p) + 1
    BY <1>1, <1>3
  <2> HIDE DEF c
  <2>5. Conv(p, sys, ts) = c
    BY <1>3 DEF c
  <2> QED BY <1>4, <2>1, <2>3, <2>4, <2>5 DEF Cut
<1> QED BY <1>6, <1>7

(* What a turn that has no end yet says, says more of, and ends with.      *)
LEMMA TurnGoesOn ==
    ASSUME NEW turn \in Turn, turn.end = "open", NEW ts \in Seq(Word)
    PROVE  /\ turn.said = <<>> => Tokens1(turn) = <<turn.ask, turn.mark>>
           /\ Tokens1([turn EXCEPT !.said = @ \o ts]) = Tokens1(turn) \o ts
           /\ [turn EXCEPT !.said = @ \o ts] \in Turn
           /\ Tokens1([turn EXCEPT !.end = "closed"]) = Append(Tokens1(turn), Eos)
           /\ [turn EXCEPT !.end = "closed"] \in Turn
           /\ Tokens1([turn EXCEPT !.end = "broken"]) = Tokens1(turn)
           /\ [turn EXCEPT !.end = "broken"] \in Turn
<1>1. PICK ask \in Question, mark \in {Think, Plain}, w \in Seq(Word) :
         turn = [ask |-> ask, mark |-> mark, said |-> w, end |-> "open"]
  BY DEF Turn
<1> DEFINE q == <<ask, mark>>
<1>2. q \in Seq(Token) /\ w \in Seq(Token) /\ ts \in Seq(Token) /\ <<Eos>> \in Seq(Token)
      /\ <<>> \in Seq(Token) /\ q \o w \in Seq(Token)
  <2>1. q \in Seq(Token) /\ <<Eos>> \in Seq(Token) /\ <<>> \in Seq(Token)
    BY <1>1, ReplAssumption
  <2>2. w \in Seq(Token) /\ ts \in Seq(Token)
    BY <1>1, ReplAssumption
  <2> QED BY <2>1, <2>2, ConcatIs
<1>3. w \o ts \in Seq(Word)
  BY <1>1, ConcatIs
<1>4. Tokens1(turn) = q \o w
  <2>1. Tokens1(turn) = (q \o w) \o <<>>
    BY <1>1 DEF Tokens1
  <2> QED BY <1>2, <2>1, ConcatEmpty
<1>5. turn.said = <<>> => Tokens1(turn) = <<turn.ask, turn.mark>>
  <2>1. turn.said = w /\ turn.ask = ask /\ turn.mark = mark
    BY <1>1
  <2> QED BY <1>2, <1>4, <2>1, ConcatEmpty
<1>6. /\ [turn EXCEPT !.said = @ \o ts] \in Turn
      /\ [turn EXCEPT !.said = @ \o ts] = [ask |-> ask, mark |-> mark, said |-> w \o ts, end |-> "open"]
  <2> DEFINE x == w \o ts
  <2>1. turn.said \o ts = x
    BY <1>1
  <2>2. x \in Seq(Word)
    BY <1>3
  <2> HIDE DEF x
  <2>3. [turn EXCEPT !.said = x] = [ask |-> ask, mark |-> mark, said |-> x, end |-> "open"]
    BY <1>1
  <2>4. [turn EXCEPT !.said = @ \o ts] = [ask |-> ask, mark |-> mark, said |-> x, end |-> "open"]
    BY <2>1, <2>3, Zenon
  <2>5. [ask |-> ask, mark |-> mark, said |-> x, end |-> "open"] \in Turn
    BY <2>2 DEF Turn
  <2> QED BY <2>4, <2>5, Zenon DEF x
<1>7. Tokens1([turn EXCEPT !.said = @ \o ts]) = Tokens1(turn) \o ts
  <2>1. Tokens1([turn EXCEPT !.said = @ \o ts]) = (q \o (w \o ts)) \o <<>>
    BY <1>6 DEF Tokens1
  <2>2. w \o ts \in Seq(Token)
    BY <1>2, ConcatIs
  <2>3. q \o (w \o ts) \in Seq(Token)
    BY <1>2, <2>2, ConcatIs
  <2> HIDE DEF q
  <2>4. Assoc(q, w, ts)
    BY <1>2, ConcatAssoc
  <2>5. (q \o (w \o ts)) \o <<>> = q \o (w \o ts)
    BY <2>3, ConcatEmpty
  <2> QED BY <1>4, <2>1, <2>4, <2>5 DEF Assoc
<1>8. /\ [turn EXCEPT !.end = "closed"] \in Turn
      /\ [turn EXCEPT !.end = "closed"] = [ask |-> ask, mark |-> mark, said |-> w, end |-> "closed"]
  BY <1>1 DEF Turn
<1>9. Tokens1([turn EXCEPT !.end = "closed"]) = Append(Tokens1(turn), Eos)
  <2>1. Tokens1([turn EXCEPT !.end = "closed"]) = (q \o w) \o <<Eos>>
    BY <1>8 DEF Tokens1
  <2>2. (q \o w) \o <<Eos>> = Append(q \o w, Eos)
    BY <1>2, ReplAssumption
  <2> QED BY <1>4, <2>1, <2>2
<1>10. /\ [turn EXCEPT !.end = "broken"] \in Turn
       /\ [turn EXCEPT !.end = "broken"] = [ask |-> ask, mark |-> mark, said |-> w, end |-> "broken"]
  BY <1>1 DEF Turn
<1>11. Tokens1([turn EXCEPT !.end = "broken"]) = Tokens1(turn)
  <2>1. Tokens1([turn EXCEPT !.end = "broken"]) = (q \o w) \o <<>>
    BY <1>10 DEF Tokens1
  <2> QED BY <1>2, <1>4, <2>1, ConcatEmpty
<1> QED BY <1>5, <1>6, <1>7, <1>8, <1>9, <1>10, <1>11

(* What a mode change, a new context size and a question keep.             *)
LEMMA PrefixTokens ==
    ASSUME ReplTypeOK
    PROVE  /\ MaxPrefix \in Tokens /\ Len(MaxPrefix) \in Nat \ {0} /\ <<>> \in Tokens
           /\ Prefix \in Tokens /\ Prefix' \in Tokens
<1>1. MaxPrefix \in Tokens /\ Len(MaxPrefix) \in Nat \ {0} /\ <<>> \in Tokens
  BY ReplAssumption DEF Tokens
<1> QED BY <1>1 DEF Prefix

(* The prefix is put where it belongs, or taken out.                       *)
LEMMA PrefixEdited ==
    ASSUME ReplInv, Prompt, NEW enable \in BOOLEAN, EditPrefix(enable)
    PROVE  LET p == IF enable THEN MaxPrefix ELSE <<>>
           IN  /\ transcript' = Conv(p, system, turns) /\ transcript' \in Tokens
               /\ prefixTokens' = Len(p) /\ prefixTokens' \in Nat
               /\ (enable <=> MaxNow) => transcript' = transcript /\ prefixTokens' = prefixTokens
<1> DEFINE p == IF enable THEN MaxPrefix ELSE <<>>
<1>1. /\ MaxPrefix \in Tokens /\ Len(MaxPrefix) \in Nat \ {0} /\ <<>> \in Tokens /\ Len(<<>>) = 0
      /\ system \in Tokens /\ turns \in Seq(Turn)
  BY PrefixTokens DEF ReplInv, ReplTypeOK
<1>2. at = "prompt" /\ task = "repl" /\ prefixTokens = Len(Prefix)
      /\ transcript = Conv(Prefix, system, turns)
  BY DEF ReplInv, TurnPath, Prompt
<1>3. /\ Conv(MaxPrefix, system, turns) \in Tokens /\ Conv(<<>>, system, turns) \in Tokens
      /\ Insert(Conv(<<>>, system, turns), 1, MaxPrefix) = Conv(MaxPrefix, system, turns)
      /\ Cut(Conv(MaxPrefix, system, turns), 1, Len(MaxPrefix)) = Conv(<<>>, system, turns)
  BY <1>1, ConvIs, ConvPrefix
<1>4. CASE MaxNow
  <2>1. prefixTokens = Len(MaxPrefix) /\ transcript = Conv(MaxPrefix, system, turns)
    BY <1>2, <1>4 DEF Prefix
  <2>2. CASE enable
    <3>1. transcript' = transcript /\ prefixTokens' = prefixTokens
      BY <1>1, <2>1, <2>2 DEF EditPrefix
    <3> QED BY <1>1, <1>3, <1>4, <2>1, <2>2, <3>1
  <2>3. CASE ~enable
    <3>1. transcript' = Cut(transcript, 1, prefixTokens) /\ prefixTokens' = 0
      BY <1>1, <2>1, <2>3 DEF EditPrefix
    <3> QED BY <1>1, <1>3, <1>4, <2>1, <2>3, <3>1
  <2> QED BY <2>2, <2>3
<1>5. CASE ~MaxNow
  <2>1. prefixTokens = 0 /\ transcript = Conv(<<>>, system, turns)
    BY <1>1, <1>2, <1>5 DEF Prefix
  <2>2. CASE enable
    <3>1. transcript' = Insert(transcript, 1, MaxPrefix) /\ prefixTokens' = Len(MaxPrefix)
      BY <2>1, <2>2 DEF EditPrefix
    <3> QED BY <1>1, <1>3, <1>5, <2>1, <2>2, <3>1
  <2>3. CASE ~enable
    <3>1. transcript' = transcript /\ prefixTokens' = prefixTokens
      BY <2>1, <2>3 DEF EditPrefix
    <3> QED BY <1>1, <1>3, <1>5, <2>1, <2>3, <3>1
  <2> QED BY <2>2, <2>3
<1> QED BY <1>4, <1>5

-----------------------------------------------------------------------------
(* The steps of a conversation.                                            *)

(* The session stays as it is.                                             *)
LEMMA SessionSame ==
    ASSUME SessionInv, UNCHANGED session
    PROVE  SessionInv' /\ (Syncing <=> Syncing')
BY DEF session, SessionInv, SessionTypeOK, SyncPath, Exact, Syncing, Fits

(* Reading nothing, quitting, the end of an answer and an interrupt.       *)
LEMMA QuietKeeps ==
    ASSUME ReplInv, ReadNothing \/ Quit \/ SampleEos \/ LoopEnds \/ Interrupt
    PROVE  ReplInv'
<1>1. /\ UNCHANGED <<task, chat, seen, session>>
      /\ at' \in {at, "ended", "answered"}
      /\ at' = "ended" => at \in {"prompt", "ended"}
      /\ at' = "answered" => at \in {"decode", "answered"}
      /\ interrupted' \in BOOLEAN /\ hit' \in BOOLEAN
  BY DEF ReplInv, ReplTypeOK, ReadNothing, Quit, SampleEos, LoopEnds, Interrupt, Prompt, Decoding, repl, chat, seen
<1>2. /\ think' = think /\ transcript' = transcript /\ prefixTokens' = prefixTokens
      /\ rollback' = rollback /\ generated' = generated /\ limit' = limit
      /\ system' = system /\ turns' = turns /\ task' = task
  BY <1>1 DEF chat, seen
<1>3. /\ config' = config /\ checkpoint' = checkpoint /\ valid' = valid /\ sync' = sync
  BY <1>1 DEF session
<1>4. SessionInv' /\ (Syncing <=> Syncing')
  BY <1>1, SessionSame DEF ReplInv
<1>5. ReplTypeOK'
  BY <1>1, <1>2 DEF ReplInv, ReplTypeOK
<1>6. AnswerPath'
  BY <1>1, <1>2, <1>3, <1>4 DEF ReplInv, AnswerPath
<1>7. TurnPath'
  <2>1. Prefix' = Prefix
    BY <1>2, <1>3 DEF Prefix, MaxNow
  <2> QED BY <1>1, <1>2, <1>3, <2>1 DEF ReplInv, TurnPath, Talking
<1> QED BY <1>4, <1>5, <1>6, <1>7 DEF ReplInv

(* At rest, the session stays or is dropped.                               *)
LEMMA Dropped ==
    ASSUME SessionInv, ~Syncing, UNCHANGED <<config, graph, logits, sync>>,
           progress' \in Nat \cup {-1},
           (checkpoint' = checkpoint /\ valid' = valid) \/ (checkpoint' = <<>> /\ valid' = FALSE)
    PROVE  SessionInv' /\ ~Syncing'
<1>1. /\ config \in Configs /\ checkpoint \in Tokens /\ valid \in BOOLEAN
      /\ graph \in Rows /\ logits \in Rows
  BY DEF SessionInv, SessionTypeOK
<1>2. Exact
  BY DEF SessionInv, SyncPath, Syncing
<1>3. <<>> \in Tokens
  BY DEF Tokens
<1>4. checkpoint' \in Tokens /\ valid' \in BOOLEAN
  BY <1>1, <1>3
<1>5. Exact'
  BY <1>2 DEF Exact
<1>6. config' \in Configs /\ graph' \in Rows /\ logits' \in Rows /\ sync' = sync
  BY <1>1
<1> QED BY <1>4, <1>5, <1>6, Settles

(* At the prompt the session is at rest.                                   *)
LEMMA AtPrompt ==
    ASSUME ReplInv, Prompt
    PROVE  /\ at = "prompt" /\ task = "repl" /\ ~Syncing /\ Exact
           /\ prefixTokens = Len(Prefix) /\ transcript = Conv(Prefix, system, turns)
           /\ checkpoint \in Tokens /\ graph \in Rows /\ logits \in Rows /\ valid \in BOOLEAN
           /\ progress \in Nat \cup {-1} /\ config \in Configs
<1>1. at = "prompt" /\ task = "repl"
  BY DEF Prompt
<1>2. ~Syncing
  BY <1>1 DEF ReplInv, AnswerPath
<1>3. Exact
  BY <1>2 DEF ReplInv, SessionInv, SyncPath, Syncing
<1> QED BY <1>1, <1>2, <1>3 DEF ReplInv, SessionInv, SessionTypeOK, TurnPath

(* /think, /nothink, /think-max: the prefix follows the mode.              *)
LEMMA SetThinkKeeps ==
    ASSUME ReplInv, NEW mode \in ThinkModes, SetThink(mode)
    PROVE  ReplInv'
<1> DEFINE enable == Effective(mode, config.ctx) = "max"
<1>1. /\ Prompt /\ think' = mode /\ EditPrefix(enable)
      /\ (checkpoint' = checkpoint /\ valid' = valid) \/ (checkpoint' = <<>> /\ valid' = FALSE)
      /\ UNCHANGED <<task, at, rollback, generated, limit, interrupted, system, turns, hit,
                     config, graph, logits, progress, sync>>
  BY DEF SetThink, ApplyMaxPrefix, Invalidate, seen
<1>2. MaxNow' <=> enable
  BY <1>1 DEF MaxNow
<1>3. Prefix' = IF enable THEN MaxPrefix ELSE <<>>
  BY <1>2 DEF Prefix
<1>4. enable \in BOOLEAN
  OBVIOUS
<1> HIDE DEF enable
<1>5. /\ transcript' = Conv(Prefix', system, turns) /\ transcript' \in Tokens
      /\ prefixTokens' = Len(Prefix') /\ prefixTokens' \in Nat
  BY <1>1, <1>3, <1>4, PrefixEdited
<1>6. SessionInv' /\ ~Syncing'
  BY <1>1, AtPrompt, Dropped DEF ReplInv
<1>7. ReplTypeOK'
  BY <1>1, <1>5 DEF ReplInv, ReplTypeOK
<1>8. at' = "prompt" /\ task' = "repl"
  BY <1>1, AtPrompt
<1>9. AnswerPath'
  BY <1>6, <1>8 DEF AnswerPath
<1>10. TurnPath'
  BY <1>1, <1>5, <1>8 DEF TurnPath, Talking
<1> QED BY <1>6, <1>7, <1>9, <1>10 DEF ReplInv

(* /ctx: a new session, and the prefix follows its size.                   *)
LEMMA SetCtxKeeps ==
    ASSUME ReplInv, NEW c \in Configs, SetCtx(c)
    PROVE  ReplInv'
<1> DEFINE enable == Effective(think, c.ctx) = "max"
<1>1. /\ Prompt /\ config' = c /\ EditPrefix(enable)
      /\ checkpoint' = <<>> /\ valid' = FALSE /\ graph' = Mixed /\ logits' = Mixed
      /\ progress' = -1 /\ sync' = Synced(TRUE)
      /\ UNCHANGED <<task, at, think, rollback, generated, limit, interrupted, system, turns, hit>>
  BY DEF SetCtx, seen
<1>2. MaxNow' <=> enable
  BY <1>1 DEF MaxNow
<1>3. Prefix' = IF enable THEN MaxPrefix ELSE <<>>
  BY <1>2 DEF Prefix
<1>4. enable \in BOOLEAN
  OBVIOUS
<1> HIDE DEF enable
<1>5. /\ transcript' = Conv(Prefix', system, turns) /\ transcript' \in Tokens
      /\ prefixTokens' = Len(Prefix') /\ prefixTokens' \in Nat
  BY <1>1, <1>3, <1>4, PrefixEdited
<1>6. SessionInv' /\ ~Syncing'
  <2>1. checkpoint' \in Tokens /\ valid' \in BOOLEAN /\ Exact' /\ graph' \in Rows /\ logits' \in Rows
    BY <1>1, PrefixTokens DEF ReplInv, Exact, Rows
  <2> QED BY <1>1, <2>1, Settles
<1>7. ReplTypeOK'
  BY <1>1, <1>5 DEF ReplInv, ReplTypeOK
<1>8. at' = "prompt" /\ task' = "repl"
  BY <1>1, AtPrompt
<1>9. AnswerPath'
  BY <1>6, <1>8 DEF AnswerPath
<1>10. TurnPath'
  BY <1>1, <1>5, <1>8 DEF TurnPath, Talking
<1> QED BY <1>6, <1>7, <1>9, <1>10 DEF ReplInv

LEMMA SetCtxFailsKeeps ==
    ASSUME ReplInv, SetCtxFails
    PROVE  ReplInv'
<1>1. /\ at' = "ended"
      /\ checkpoint' = <<>> /\ valid' = FALSE /\ graph' = Mixed /\ logits' = Mixed
      /\ progress' = -1 /\ sync' = Synced(TRUE)
      /\ UNCHANGED <<config, task, think, transcript, prefixTokens, rollback, generated, limit,
                     interrupted, system, turns, hit>>
  BY DEF SetCtxFails, NoSession, chat, seen
<1>2. SessionInv' /\ ~Syncing'
  <2>1. /\ checkpoint' \in Tokens /\ valid' \in BOOLEAN /\ Exact' /\ graph' \in Rows /\ logits' \in Rows
        /\ config' \in Configs
    BY <1>1, PrefixTokens DEF ReplInv, SessionInv, SessionTypeOK, Exact, Rows
  <2> QED BY <1>1, <2>1, Settles
<1>3. ReplTypeOK'
  BY <1>1 DEF ReplInv, ReplTypeOK
<1>4. AnswerPath' /\ TurnPath'
  BY <1>1, <1>2 DEF AnswerPath, TurnPath, Talking
<1> QED BY <1>2, <1>3, <1>4 DEF ReplInv

(* A question opens a turn; the prefix is already where it belongs.        *)
LEMMA AskKeeps ==
    ASSUME ReplInv, NEW question \in Question, Ask(question)
    PROVE  ReplInv'
<1> DEFINE turn == Asked(question, Effective(think, config.ctx))
<1>1. /\ Prompt /\ EditPrefix(MaxNow)
      /\ (checkpoint' = checkpoint /\ valid' = valid) \/ (checkpoint' = <<>> /\ valid' = FALSE)
      /\ rollback' = Len(transcript') /\ at' = "turn" /\ hit' = FALSE
      /\ turns' = Append(turns, turn)
      /\ UNCHANGED <<task, think, generated, limit, interrupted, system,
                     config, graph, logits, progress, sync>>
  BY DEF Ask, ApplyMaxPrefix, Invalidate
<1>2. Prefix' = Prefix /\ MaxNow \in BOOLEAN
  BY <1>1 DEF Prefix, MaxNow
<1>3. transcript' = transcript /\ prefixTokens' = prefixTokens /\ transcript' \in Tokens
  BY <1>1, <1>2, PrefixEdited
<1>4. SessionInv' /\ ~Syncing'
  BY <1>1, AtPrompt, Dropped DEF ReplInv
<1>5. /\ turn \in Turn /\ turn.said = <<>> /\ turn.end = "open"
      /\ turn.mark = Mark(Effective(think, config.ctx))
  BY DEF Asked, Turn, Mark
<1> HIDE DEF turn
<1>6. /\ turns' \in Seq(Turn) /\ turns' # <<>> /\ Front(turns') = turns /\ turns'[Len(turns')] = turn
  BY <1>1, <1>5, FrontAppend DEF ReplInv, ReplTypeOK
<1>7. ReplTypeOK'
  <2>1. Len(transcript') \in Nat
    BY <1>3 DEF Tokens
  <2> QED BY <1>1, <1>3, <1>6, <2>1 DEF ReplInv, ReplTypeOK
<1>8. task' = "repl"
  BY <1>1, AtPrompt
<1>9. AnswerPath'
  BY <1>1, <1>4, <1>8 DEF AnswerPath
<1>10. TurnPath'
  <2>1. transcript' = Conv(Prefix', system', Front(turns')) /\ prefixTokens' = Len(Prefix')
    BY <1>1, <1>2, <1>3, <1>6, AtPrompt
  <2> QED BY <1>1, <1>5, <1>6, <1>8, <2>1 DEF TurnPath, Talking
<1> QED BY <1>4, <1>7, <1>9, <1>10 DEF ReplInv
(* A turn that is taken back leaves the conversation before it.            *)
LEMMA RolledBack ==
    ASSUME ReplInv, at \in {"sync", "decode", "answered"}
    PROVE  /\ turns # <<>> /\ turns \in Seq(Turn) /\ Front(turns) \in Seq(Turn)
           /\ turns[Len(turns)] \in Turn /\ turns[Len(turns)].end = "open"
           /\ Prefix \in Tokens /\ system \in Tokens /\ transcript = Conv(Prefix, system, turns)
           /\ task = "repl" =>
                /\ Upto(transcript, rollback) = Conv(Prefix, system, Front(turns))
                /\ Upto(transcript, rollback) \in Tokens
<1>1. /\ turns \in Seq(Turn) /\ turns # <<>> /\ turns[Len(turns)].end = "open"
      /\ transcript = Conv(Prefix, system, turns)
      /\ task = "repl" => rollback = Len(Conv(Prefix, system, Front(turns)))
  BY DEF ReplInv, ReplTypeOK, TurnPath, Talking
<1>2. Prefix \in Tokens /\ system \in Tokens
  BY PrefixTokens DEF ReplInv, ReplTypeOK
<1> DEFINE a == Conv(Prefix, system, Front(turns))
           b == Tokens1(turns[Len(turns)])
<1>3. Front(turns) \in Seq(Turn) /\ turns[Len(turns)] \in Turn
  BY <1>1, BodyIs
<1>4. transcript = a \o b
  BY <1>1, <1>2, ConvIs
<1>5. a \in Seq(Token) /\ b \in Seq(Token)
  BY <1>2, <1>3, ConvIs, TurnTokens DEF Tokens
<1> HIDE DEF a, b
<1>6. SubSeq(a \o b, 1, Len(a)) = a
  BY <1>5, ConcatParts
<1>7. task = "repl" => Upto(transcript, rollback) = a /\ Upto(transcript, rollback) \in Tokens
  BY <1>1, <1>4, <1>5, <1>6 DEF Upto, Tokens, a
<1> QED BY <1>1, <1>2, <1>3, <1>7 DEF a

(* The question and the role of the answer go behind the transcript, and   *)
(* the sync to it begins.                                                  *)
LEMMA StartTurnKeeps ==
    ASSUME ReplInv, StartTurn
    PROVE  ReplInv'
<1> DEFINE turn == turns[Len(turns)]
           q == <<turn.ask, turn.mark>>
           p == transcript \o q
<1>1. /\ at = "turn" /\ at' = "sync" /\ transcript' = p /\ progress' = Cached(p) /\ Start(p)
      /\ UNCHANGED <<task, think, prefixTokens, rollback, generated, limit, interrupted,
                     system, turns, hit, config, checkpoint, valid, graph, logits>>
  BY DEF StartTurn, seen
<1>2. /\ turns \in Seq(Turn) /\ turns # <<>> /\ turn.end = "open" /\ turn.said = <<>>
      /\ task = "repl" /\ ~Syncing /\ transcript = Conv(Prefix, system, Front(turns))
      /\ transcript \in Tokens /\ SessionInv
  BY <1>1 DEF ReplInv, ReplTypeOK, TurnPath, AnswerPath, Talking
<1>3. turn \in Turn /\ Prefix \in Tokens /\ system \in Tokens
  BY <1>2, BodyIs, PrefixTokens DEF ReplInv, ReplTypeOK
<1>4. Tokens1(turn) = q /\ Tokens1(turn) \in Tokens
  <2>1. <<>> \in Seq(Word)
    OBVIOUS
  <2> HIDE DEF turn
  <2> QED BY <1>2, <1>3, <2>1, TurnGoesOn, TurnTokens
<1>5. p = Conv(Prefix, system, turns) /\ p \in Tokens
  <2>1. /\ Conv(Prefix, system, turns) = Conv(Prefix, system, Front(turns)) \o Tokens1(turn)
        /\ Conv(Prefix, system, turns) \in Tokens
    BY <1>2, <1>3, ConvIs
  <2> HIDE DEF q, turn
  <2> QED BY <1>2, <1>4, <2>1, Zenon
<1> HIDE DEF p
<1>6. /\ sync' \in Sync /\ SyncPath'
      /\ Syncing' => sync'.prompt = p
      /\ ~Syncing' => ~sync'.ok
  BY <1>1, <1>2, <1>5, StartKeeps
<1>7. progress' \in Nat
  BY <1>1, <1>2 DEF Cached, SessionInv, SessionTypeOK, Tokens
<1>8. SessionInv'
  BY <1>1, <1>2, <1>6, <1>7 DEF SessionInv, SessionTypeOK
<1>9. ReplTypeOK'
  BY <1>1, <1>5 DEF ReplInv, ReplTypeOK
<1>10. AnswerPath'
  BY <1>1, <1>6 DEF AnswerPath
<1>11. TurnPath'
  <2>1. Prefix' = Prefix
    BY <1>1 DEF Prefix, MaxNow
  <2> QED BY <1>1, <1>2, <1>5, <2>1 DEF ReplInv, TurnPath, Talking
<1> QED BY <1>8, <1>9, <1>10, <1>11 DEF ReplInv

(* A step of the sync; the last one leaves the whole transcript.           *)
LEMMA SyncKeeps ==
    ASSUME ReplInv, SyncStep
    PROVE  ReplInv'
<1>1. /\ at = "sync" /\ at' = "sync" /\ UNCHANGED repl
      /\ Chunk \/ WholePrefill \/ ChunksDone \/ EvalToken \/ TokensDone \/ SyncFails
  BY DEF SyncStep, repl
<1>2. /\ think' = think /\ transcript' = transcript /\ prefixTokens' = prefixTokens
      /\ rollback' = rollback /\ generated' = generated /\ limit' = limit
      /\ system' = system /\ turns' = turns /\ task' = task
      /\ interrupted' = interrupted /\ hit' = hit
  BY <1>1 DEF repl, chat, seen
<1>3. SessionInv' /\ config' = config /\ AnswerPath'
  <2>1. SessionInv /\ (Syncing => sync.prompt = transcript)
    BY DEF ReplInv, AnswerPath
  <2>2. CASE Chunk
    <3>1. SessionInv' /\ Syncing' /\ sync'.prompt = sync.prompt /\ config' = config
      BY <2>1, <2>2, ChunkKeeps DEF SessionInv
    <3>2. Syncing
      BY <2>2 DEF Chunk, Syncing
    <3> QED BY <1>1, <1>2, <2>1, <3>1, <3>2 DEF AnswerPath
  <2>3. CASE WholePrefill \/ ChunksDone \/ EvalToken \/ TokensDone \/ SyncFails
    <3>1. /\ SessionTypeOK' /\ SyncPath'
          /\ Syncing /\ Fits(sync.prompt) /\ config' = config
          /\ Syncing' => sync' = sync
          /\ ~Syncing' /\ sync'.ok => valid' /\ checkpoint' = sync.prompt
      BY <2>1, <2>3, SyncStepKeeps
    <3> QED BY <1>1, <1>2, <2>1, <3>1 DEF AnswerPath, SessionInv, Fits
  <2> QED BY <1>1, <2>2, <2>3
<1>4. ReplTypeOK'
  BY <1>1, <1>2 DEF ReplInv, ReplTypeOK
<1>5. TurnPath'
  <2>1. Prefix' = Prefix
    BY <1>2, <1>3 DEF Prefix, MaxNow
  <2> QED BY <1>1, <1>2, <1>3, <2>1 DEF ReplInv, TurnPath, Talking
<1> QED BY <1>3, <1>4, <1>5 DEF ReplInv

(* A sync that failed takes the turn back.                                 *)
LEMMA SyncFailedKeeps ==
    ASSUME ReplInv, SyncFailed
    PROVE  ReplInv'
<1>1. /\ at = "sync" /\ ~Syncing /\ at' = (IF task = "repl" THEN "prompt" ELSE "ended")
      /\ transcript' = (IF task = "repl" THEN Upto(transcript, rollback) ELSE transcript)
      /\ turns' = Front(turns) /\ progress' = -1
      /\ UNCHANGED <<task, think, prefixTokens, rollback, generated, limit, interrupted, system,
                     hit, config, checkpoint, valid, graph, logits, sync>>
  BY DEF SyncFailed
<1>2. SessionInv' /\ ~Syncing'
  BY <1>1, Dropped DEF ReplInv
<1>3. /\ Front(turns) \in Seq(Turn)
      /\ task = "repl" => transcript' = Conv(Prefix, system, Front(turns)) /\ transcript' \in Tokens
  BY <1>1, RolledBack
<1>4. ReplTypeOK'
  BY <1>1, <1>3 DEF ReplInv, ReplTypeOK
<1>5. AnswerPath'
  BY <1>1, <1>2 DEF AnswerPath
<1>6. TurnPath'
  <2>1. Prefix' = Prefix
    BY <1>1 DEF Prefix, MaxNow
  <2> QED BY <1>1, <1>3, <2>1 DEF ReplInv, TurnPath, Talking
<1> QED BY <1>2, <1>4, <1>5, <1>6 DEF ReplInv

(* The answer begins: its limit is what --tokens and the context leave.    *)
LEMMA SyncDoneKeeps ==
    ASSUME ReplInv, SyncDone
    PROVE  ReplInv'
<1>1. /\ at = "sync" /\ ~Syncing /\ sync.ok /\ at' = "decode" /\ generated' = 0
      /\ limit' = (IF Room <= 1 THEN 0 ELSE Least(NPredict, Room - 1)) /\ progress' = -1
      /\ UNCHANGED <<task, think, transcript, prefixTokens, rollback, interrupted, system, turns, hit,
                     config, checkpoint, valid, graph, logits, sync>>
  BY DEF SyncDone, seen
<1>2. SessionInv' /\ ~Syncing'
  BY <1>1, Dropped DEF ReplInv
<1>3. /\ valid /\ checkpoint = transcript /\ Len(transcript) < config.ctx
      /\ Len(transcript) \in Nat /\ config.ctx \in Nat /\ NPredict \in Nat
  BY <1>1, ConfigAssumption, ReplAssumption
  DEF ReplInv, ReplTypeOK, AnswerPath, SessionInv, SessionTypeOK, Tokens
<1>4. limit' \in Nat /\ (0 < limit' => Len(transcript) + limit' < config.ctx)
  BY <1>1, <1>3 DEF Room, Least
<1>5. ReplTypeOK'
  BY <1>1, <1>4 DEF ReplInv, ReplTypeOK
<1>6. AnswerPath'
  BY <1>1, <1>2, <1>3, <1>4 DEF AnswerPath
<1>7. TurnPath'
  <2>1. Prefix' = Prefix
    BY <1>1 DEF Prefix, MaxNow
  <2> QED BY <1>1, <2>1 DEF ReplInv, TurnPath, Talking
<1> QED BY <1>2, <1>5, <1>6, <1>7 DEF ReplInv
(* The turn that is under way goes on with some tokens, or gets its end.   *)
LEMMA TurnReplaced ==
    ASSUME ReplInv, at \in {"sync", "decode", "answered"}, NEW turn \in Turn, NEW more \in Tokens,
           Tokens1(turn) = Tokens1(turns[Len(turns)]) \o more
    PROVE  LET us == [turns EXCEPT ![Len(turns)] = turn]
           IN  /\ us \in Seq(Turn) /\ us # <<>> /\ us[Len(us)] = turn
               /\ Front(us) = Front(turns)
               /\ Conv(Prefix, system, us) = transcript \o more
               /\ transcript \o more \in Tokens
<1> DEFINE n  == Len(turns)
           us == [turns EXCEPT ![n] = turn]
           a  == Conv(Prefix, system, Front(turns))
           b  == Tokens1(turns[n])
<1>1. /\ turns # <<>> /\ turns \in Seq(Turn) /\ n \in Nat \ {0}
      /\ Prefix \in Tokens /\ system \in Tokens /\ transcript = Conv(Prefix, system, turns)
  BY RolledBack
<1>2. /\ us \in Seq(Turn) /\ Len(us) = n /\ us[n] = turn
      /\ \A k \in 1..(n - 1) : us[k] = turns[k]
  BY <1>1
<1> HIDE DEF us
<1>3. /\ us # <<>> /\ Front(us) = Front(turns)
      /\ transcript = a \o b /\ Conv(Prefix, system, us) = a \o Tokens1(turn)
      /\ a \in Tokens /\ turns[n] \in Turn
  <2>1. Len(us) = Len(turns) /\ \A k \in 1..(Len(turns) - 1) : us[k] = turns[k]
    BY <1>2
  <2>2. us # <<>> /\ Front(us) = Front(turns)
    BY <1>1, <1>2, <2>1, FrontSame
  <2>3. Front(turns) \in Seq(Turn) /\ turns[n] \in Turn
    BY RolledBack
  <2>4. Conv(Prefix, system, turns) = a \o b
    BY <1>1, ConvIs
  <2>5. Conv(Prefix, system, us) = Conv(Prefix, system, Front(us)) \o Tokens1(us[Len(us)])
    BY <1>1, <1>2, <2>2, ConvIs
  <2>6. a \in Tokens
    BY <1>1, <2>3, ConvIs
  <2>7. us[Len(us)] = turn
    BY <1>2
  <2> QED BY <1>1, <2>2, <2>3, <2>4, <2>5, <2>6, <2>7
<1>4. a \in Seq(Token) /\ b \in Seq(Token) /\ more \in Seq(Token)
  BY <1>3, TurnTokens DEF Tokens
<1>5. Tokens1(turn) = b \o more
  OBVIOUS
<1> HIDE DEF a, b
<1>6. Assoc(a, b, more)
  BY <1>4, ConcatAssoc
<1>7. Conv(Prefix, system, us) = transcript \o more
  BY <1>3, <1>5, <1>6 DEF Assoc
<1>8. transcript \o more \in Tokens
  BY <1>4, ConcatIs DEF ReplInv, ReplTypeOK, Tokens
<1> QED BY <1>2, <1>3, <1>7, <1>8 DEF us

(* What one evaluation may accept.                                         *)
LEMMA AcceptedIs ==
    ASSUME ReplTypeOK, Decoding, NEW ts \in Accepted \cup Finishing
    PROVE  /\ ts \in Tokens /\ Len(ts) <= limit - generated
           /\ Printed(ts) \in Seq(Word) /\ Len(Printed(ts)) <= Len(ts)
           /\ Eos \notin ToSet(ts) => Printed(ts) = ts
<1> DEFINE n == Least(MaxAccept, limit - generated)
           W == Word \cup {Eos}
<1>1. n \in Nat /\ n <= limit - generated /\ limit \in Nat /\ generated \in Nat
  BY ReplAssumption DEF ReplTypeOK, Decoding, Least
<1>2. Word \subseteq Token /\ Eos \in Token /\ Eos \notin Word
  BY ReplAssumption
<1> HIDE DEF n
<1>3. ASSUME NEW s \in Accepted
      PROVE  s \in Seq(Word) /\ Len(s) <= n /\ Eos \notin ToSet(s)
  <2>1. s \in BoundedSeq(Word, n)
    BY DEF Accepted, n
  <2>2. PICK m \in 0..n : s \in [1..m -> Word]
    BY <2>1 DEF BoundedSeq, SeqOf
  <2>3. s \in Seq(Word) /\ Len(s) = m /\ DOMAIN s = 1..m
    BY <1>1, <2>2
  <2>4. \A i \in DOMAIN s : s[i] # Eos
    BY <1>2, <2>2, <2>3
  <2> QED BY <1>1, <2>3, <2>4 DEF ToSet
<1>4. CASE ts \in Accepted
  <2>1. ts \in Seq(Word) /\ Len(ts) <= n /\ Eos \notin ToSet(ts) /\ Len(ts) \in Nat
    BY <1>3, <1>4
  <2>2. ts \in Seq(Token)
    BY <1>2, <2>1
  <2> QED BY <1>1, <2>1, <2>2 DEF Printed, Tokens
<1>5. CASE ts \in Finishing
  <2>1. PICK s \in Accepted : Len(s) < n /\ ts = Append(s, Eos)
    BY <1>5 DEF Finishing, n
  <2>2. s \in Seq(Word) /\ s \in Seq(W) /\ Eos \in W /\ Len(s) \in Nat
    BY <1>3
  <2>3. ts \in Seq(W) /\ Front(ts) = s /\ Len(ts) = Len(s) + 1 /\ ts[Len(ts)] = Eos
    BY <2>1, <2>2, FrontAppend
  <2>4. Eos \in ToSet(ts)
    BY <2>2, <2>3 DEF ToSet
  <2>5. ts \in Seq(Token)
    BY <1>2, <2>3
  <2> QED BY <1>1, <2>1, <2>2, <2>3, <2>4, <2>5 DEF Printed, Tokens
<1> QED BY <1>4, <1>5

(* Accepted tokens are evaluated, and printed but for an end of sentence.  *)
LEMMA DecodeKeeps ==
    ASSUME ReplInv, Decoding, NEW ts \in Accepted \cup Finishing, Decode(ts)
    PROVE  ReplInv'
<1> DEFINE n == Len(turns)
           w == Printed(ts)
           now == [turns[n] EXCEPT !.said = @ \o w]
<1>1. /\ at = "decode" /\ at' = (IF Eos \in ToSet(ts) THEN "answered" ELSE "decode")
      /\ transcript' = transcript \o w /\ generated' = generated + Len(w)
      /\ checkpoint' = checkpoint \o ts /\ graph' = graph \o ts /\ logits' = graph \o ts
      /\ UNCHANGED <<task, think, prefixTokens, rollback, limit, interrupted, system, hit,
                     config, valid, progress, sync>>
  BY DEF Decode, Decoding, Said, Eval
<1>2. /\ ts \in Seq(Token) /\ Len(ts) <= limit - generated
      /\ w \in Seq(Word) /\ w \in Seq(Token) /\ Len(w) <= Len(ts)
      /\ Eos \notin ToSet(ts) => w = ts
  <2>1. w \in Seq(Word) => w \in Seq(Token)
    <3>1. Word \subseteq Token
      BY ReplAssumption
    <3> HIDE DEF w
    <3> QED BY <3>1
  <2> QED BY <2>1, AcceptedIs DEF ReplInv, Tokens
<1>3. /\ ~Syncing /\ valid /\ checkpoint = transcript /\ graph = checkpoint /\ SessionInv
      /\ transcript \in Seq(Token) /\ Len(transcript) < config.ctx
      /\ generated < limit => Len(transcript) + (limit - generated) < config.ctx
  BY <1>1 DEF ReplInv, ReplTypeOK, AnswerPath, SessionInv, SyncPath, Exact, Syncing, Tokens
<1>4. generated < limit /\ generated \in Nat /\ limit \in Nat
      /\ config.ctx \in Nat
  BY ConfigAssumption DEF Decoding, ReplInv, ReplTypeOK, SessionInv, SessionTypeOK
<1>5. turns[n] \in Turn /\ turns[n].end = "open"
  BY <1>1, RolledBack
<1>6. now \in Turn /\ Tokens1(now) = Tokens1(turns[n]) \o w
  BY <1>2, <1>5, TurnGoesOn
<1>7. now.end = "open"
  BY <1>5 DEF Turn
<1>8. turns' = [turns EXCEPT ![n] = now]
  BY DEF Decode, Said
<1> HIDE DEF now
<1>9. /\ turns' \in Seq(Turn) /\ turns' # <<>> /\ turns'[Len(turns')] = now
      /\ Front(turns') = Front(turns)
      /\ transcript' = Conv(Prefix, system, turns') /\ transcript' \in Tokens
  BY <1>1, <1>2, <1>6, <1>8, TurnReplaced DEF Tokens
<1> HIDE DEF w, n
<1>10. checkpoint' \in Seq(Token) /\ checkpoint' = transcript \o ts
       /\ graph' = checkpoint' /\ logits' = checkpoint'
       /\ Len(checkpoint') = Len(transcript) + Len(ts)
       /\ Len(transcript') = Len(transcript) + Len(w)
       /\ Len(ts) \in Nat /\ Len(w) \in Nat /\ Len(transcript) \in Nat
  BY <1>1, <1>2, <1>3, ConcatIs
<1>11. SessionInv' /\ ~Syncing'
  <2>1. /\ config' \in Configs /\ checkpoint' \in Tokens /\ valid' \in BOOLEAN
        /\ graph' \in Rows /\ logits' \in Rows /\ progress' \in Nat \cup {-1} /\ sync' = sync
    BY <1>1, <1>3, <1>10 DEF SessionInv, SessionTypeOK, Tokens, Rows
  <2>2. Exact'
    BY <1>10 DEF Exact
  <2> QED BY <1>3, <2>1, <2>2, Settles
<1>12. ReplTypeOK'
  BY <1>1, <1>4, <1>9, <1>10 DEF ReplInv, ReplTypeOK
<1>13. AnswerPath'
  <2>1. ASSUME at' = "decode"
        PROVE  /\ checkpoint' = transcript' /\ generated' <= limit' /\ Len(transcript') < config'.ctx
               /\ generated' < limit' => Len(transcript') + (limit' - generated') < config'.ctx
    <3>1. w = ts
      BY <1>1, <1>2, <2>1
    <3>2. generated' = generated + Len(ts) /\ limit' = limit /\ config' = config
      BY <1>1, <3>1
    <3>3. Len(transcript') = Len(transcript) + Len(ts) /\ checkpoint' = transcript'
      BY <1>1, <1>10, <3>1
    <3> QED BY <1>2, <1>3, <1>4, <1>10, <3>2, <3>3
  <2> QED BY <1>1, <1>3, <1>11, <2>1 DEF AnswerPath
<1>14. TurnPath'
  <2>1. Prefix' = Prefix
    BY <1>1 DEF Prefix, MaxNow
  <2> QED BY <1>1, <1>7, <1>9, <2>1 DEF ReplInv, TurnPath, Talking
<1> QED BY <1>11, <1>12, <1>13, <1>14 DEF ReplInv

(* An evaluation fails and leaves the turn without an end.                 *)
LEMMA DecodeFailsKeeps ==
    ASSUME ReplInv, DecodeFails
    PROVE  ReplInv'
<1> DEFINE n == Len(turns)
           now == [turns[n] EXCEPT !.end = "broken"]
<1>1. /\ at = "decode" /\ at' = (IF task = "repl" THEN "prompt" ELSE "ended")
      /\ graph' = Mixed /\ logits' = Mixed /\ valid' = FALSE
      /\ UNCHANGED <<task, think, transcript, prefixTokens, rollback, generated, limit, interrupted,
                     system, hit, config, checkpoint, progress, sync>>
  BY DEF DecodeFails, Decoding, EvalFails, chat
<1>2. turns[n] \in Turn /\ turns[n].end = "open" /\ transcript \in Seq(Token)
  BY <1>1, RolledBack DEF ReplInv, ReplTypeOK, Tokens
<1>3. now \in Turn /\ Tokens1(now) = Tokens1(turns[n]) \o <<>>
  <2>1. <<>> \in Seq(Word)
    OBVIOUS
  <2>2. now \in Turn /\ Tokens1(now) = Tokens1(turns[n])
    BY <1>2, <2>1, TurnGoesOn
  <2>3. Tokens1(turns[n]) \in Seq(Token)
    BY <1>2, TurnTokens DEF Tokens
  <2> QED BY <2>2, <2>3, ConcatEmpty
<1>4. turns' = [turns EXCEPT ![n] = now]
  BY DEF DecodeFails
<1> HIDE DEF now
<1>5. turns' \in Seq(Turn) /\ transcript = Conv(Prefix, system, turns')
  <2>1. <<>> \in Tokens
    BY DEF Tokens
  <2>2. turns' \in Seq(Turn) /\ Conv(Prefix, system, turns') = transcript \o <<>>
    BY <1>1, <1>3, <1>4, <2>1, TurnReplaced
  <2> QED BY <1>2, <2>2, ConcatEmpty
<1>6. SessionInv' /\ ~Syncing'
  <2>1. ~Syncing /\ SessionInv
    BY <1>1 DEF ReplInv, AnswerPath
  <2>2. /\ config' \in Configs /\ checkpoint' \in Tokens /\ valid' \in BOOLEAN
        /\ graph' \in Rows /\ logits' \in Rows /\ progress' \in Nat \cup {-1} /\ sync' = sync
    BY <1>1, <2>1 DEF SessionInv, SessionTypeOK, Rows
  <2>3. Exact'
    BY <1>1 DEF Exact
  <2> QED BY <2>1, <2>2, <2>3, Settles
<1>7. ReplTypeOK'
  BY <1>1, <1>5 DEF ReplInv, ReplTypeOK
<1>8. AnswerPath'
  BY <1>1, <1>6 DEF AnswerPath
<1>9. TurnPath'
  <2>1. Prefix' = Prefix
    BY <1>1 DEF Prefix, MaxNow
  <2> QED BY <1>1, <1>5, <2>1 DEF ReplInv, TurnPath, Talking
<1> QED BY <1>6, <1>7, <1>8, <1>9 DEF ReplInv

(* The turn is closed, or an interrupt before the first token takes it     *)
(* back.                                                                   *)
LEMMA FinishKeeps ==
    ASSUME ReplInv, Finish
    PROVE  ReplInv'
<1> DEFINE n == Len(turns)
           now == [turns[n] EXCEPT !.end = "closed"]
<1>1. /\ at = "answered" /\ at' = (IF task = "repl" THEN "prompt" ELSE "ended")
      /\ interrupted' = FALSE
      /\ UNCHANGED <<task, think, prefixTokens, rollback, generated, limit, system, hit,
                     config, graph, logits, progress, sync>>
      /\ (checkpoint' = checkpoint /\ valid' = valid) \/ (checkpoint' = <<>> /\ valid' = FALSE)
  BY DEF Finish, Invalidate
<1>2. /\ task \in {"repl", "once"} /\ transcript \in Seq(Token) /\ Eos \in Token
      /\ turns[n] \in Turn /\ turns[n].end = "open" /\ Front(turns) \in Seq(Turn)
      /\ turns \in Seq(Turn)
      /\ task = "repl" => /\ Upto(transcript, rollback) = Conv(Prefix, system, Front(turns))
                          /\ Upto(transcript, rollback) \in Tokens
  BY <1>1, RolledBack, ReplAssumption DEF ReplInv, ReplTypeOK, TurnPath, Tokens
<1>3. /\ turns' \in Seq(Turn) /\ transcript' \in Tokens
      /\ task = "repl" => transcript' = Conv(Prefix, system, turns')
  <2>1. CASE task = "once"
    <3>1. transcript' = transcript /\ turns' = turns
      BY <2>1 DEF Finish
    <3> QED BY <1>2, <2>1, <3>1 DEF Tokens
  <2>2. CASE task = "repl" /\ interrupted /\ generated = 0
    <3>1. transcript' = Upto(transcript, rollback) /\ turns' = Front(turns)
      BY <2>2 DEF Finish
    <3> QED BY <1>2, <2>2, <3>1
  <2>3. CASE task = "repl" /\ ~(interrupted /\ generated = 0)
    <3>1. transcript' = Append(transcript, Eos) /\ turns' = [turns EXCEPT ![n] = now]
      BY <2>3 DEF Finish
    <3>2. <<>> \in Seq(Word) /\ <<Eos>> \in Tokens
      BY <1>2 DEF Tokens
    <3>3. now \in Turn /\ Tokens1(now) = Append(Tokens1(turns[n]), Eos)
      BY <1>2, <3>2, TurnGoesOn
    <3>4. Tokens1(turns[n]) \in Seq(Token)
      BY <1>2, TurnTokens DEF Tokens
    <3> HIDE DEF now
    <3>5. Tokens1(now) = Tokens1(turns[n]) \o <<Eos>> /\ transcript' = transcript \o <<Eos>>
      BY <1>2, <3>1, <3>3, <3>4, AppendConcat
    <3>6. /\ turns' \in Seq(Turn) /\ Conv(Prefix, system, turns') = transcript \o <<Eos>>
          /\ transcript \o <<Eos>> \in Tokens
      BY <1>1, <3>1, <3>2, <3>3, <3>5, TurnReplaced
    <3> QED BY <3>5, <3>6
  <2> QED BY <1>2, <2>1, <2>2, <2>3
<1>4. SessionInv' /\ ~Syncing'
  <2>1. ~Syncing /\ SessionInv /\ progress' \in Nat \cup {-1}
    BY <1>1 DEF ReplInv, AnswerPath, SessionInv, SessionTypeOK
  <2> QED BY <1>1, <2>1, Dropped
<1>5. ReplTypeOK'
  BY <1>1, <1>3 DEF ReplInv, ReplTypeOK
<1>6. AnswerPath'
  BY <1>1, <1>4 DEF AnswerPath
<1>7. TurnPath'
  <2>1. Prefix' = Prefix
    BY <1>1 DEF Prefix, MaxNow
  <2> QED BY <1>1, <1>2, <1>3, <2>1 DEF ReplInv, TurnPath, Talking
<1> QED BY <1>4, <1>5, <1>6, <1>7 DEF ReplInv
(* Every step of a conversation.                                           *)
LEMMA ReplStepKeeps ==
    ASSUME ReplInv, ReplStep
    PROVE  ReplInv'
<1>1. CASE ReadNothing \/ Quit \/ SampleEos \/ LoopEnds \/ Interrupt
  BY <1>1, QuietKeeps
<1>2. CASE SetCtxFails
  BY <1>2, SetCtxFailsKeeps
<1>3. CASE StartTurn
  BY <1>3, StartTurnKeeps
<1>4. CASE SyncStep
  BY <1>4, SyncKeeps
<1>5. CASE SyncFailed
  BY <1>5, SyncFailedKeeps
<1>6. CASE SyncDone
  BY <1>6, SyncDoneKeeps
<1>7. CASE DecodeFails
  BY <1>7, DecodeFailsKeeps
<1>8. CASE Finish
  BY <1>8, FinishKeeps
<1>9. CASE \E mode \in ThinkModes : SetThink(mode)
  BY <1>9, SetThinkKeeps
<1>10. CASE \E c \in Configs : SetCtx(c)
  BY <1>10, SetCtxKeeps
<1>11. CASE \E question \in Question : Ask(question)
  BY <1>11, AskKeeps
<1>12. CASE Decoding /\ \E ts \in Accepted \cup Finishing : Decode(ts)
  BY <1>12, DecodeKeeps
<1> QED
  BY <1>1, <1>2, <1>3, <1>4, <1>5, <1>6, <1>7, <1>8, <1>9, <1>10, <1>11, <1>12 DEF ReplStep

-----------------------------------------------------------------------------
(* The beginning and the end of a conversation.                            *)

(* The prompt of a first turn is that of a one-shot run.                   *)
LEMMA FirstPrompt ==
    ASSUME NEW p \in Tokens, NEW sys \in Tokens, NEW ts \in Seq(Turn), Len(ts) = 1,
           ts[1].end = "open", ts[1].said = <<>>
    PROVE  /\ Conv(p, sys, ts) = <<Bos>> \o p \o sys \o <<ts[1].ask, ts[1].mark>>
           /\ Conv(p, sys, ts) \in Tokens /\ Len(Conv(p, sys, ts)) > 0
<1>1. ts # <<>> /\ ts[1] \in Turn /\ <<>> \in Seq(Word)
  OBVIOUS
<1>2. Front(ts) \in Seq(Turn) /\ Len(Front(ts)) = 0
  BY <1>1, FrontIs
<1>3. Front(ts) = <<>>
  BY <1>2
<1> DEFINE a == <<Bos>> \o p \o sys
           b == Tokens1(ts[1])
<1>4. b = <<ts[1].ask, ts[1].mark>>
  BY <1>1, TurnGoesOn
<1>5. Len(b) = 2
  BY <1>4
<1>6. a = Conv(p, sys, <<>>) /\ a \in Tokens
  <2>1. <<>> \in Seq(Turn)
    OBVIOUS
  <2> QED BY <2>1, ConvIs
<1>7. b \in Tokens
  BY <1>1, TurnTokens
<1>8. Conv(p, sys, ts) = Conv(p, sys, Front(ts)) \o Tokens1(ts[Len(ts)]) /\ Conv(p, sys, ts) \in Tokens
  BY <1>1, ConvIs
<1> HIDE DEF a
<1>9. Conv(p, sys, ts) = a \o b
  BY <1>3, <1>6, <1>8
<1> HIDE DEF b
<1>10. Len(a \o b) = Len(a) + Len(b) /\ Len(a) \in Nat
  BY <1>6, <1>7, ConcatIs DEF Tokens
<1> QED BY <1>4, <1>5, <1>8, <1>9, <1>10 DEF a

(* An interactive run starts behind nothing.                               *)
LEMMA StartReplKeeps ==
    ASSUME ReplInv, Silent, NEW mode \in ThinkModes, NEW sys \in Systems, NEW c \in Configs,
           StartRepl(mode, sys, c)
    PROVE  ReplInv'
<1> DEFINE prefix == IF Effective(mode, c.ctx) = "max" THEN MaxPrefix ELSE <<>>
<1>1. /\ task' = "repl" /\ at' = "prompt" /\ think' = mode /\ system' = sys /\ config' = c
      /\ transcript' = <<Bos>> \o prefix \o sys /\ prefixTokens' = Len(prefix)
      /\ interrupted' = FALSE
      /\ checkpoint' = <<>> /\ valid' = FALSE /\ graph' = Mixed /\ logits' = Mixed
      /\ progress' = -1 /\ sync' = Synced(TRUE)
      /\ UNCHANGED <<rollback, generated, limit, turns, hit>>
  BY DEF StartRepl, NoSession
<1>2. Prefix' = prefix
  BY <1>1 DEF Prefix, MaxNow
<1>3. prefix \in Tokens /\ Len(prefix) \in Nat /\ sys \in Tokens /\ <<>> \in Tokens
  BY PrefixTokens, ReplAssumption DEF ReplInv, Tokens
<1> HIDE DEF prefix
<1>4. transcript' = Conv(prefix, sys, turns') /\ transcript' \in Tokens
  <2>1. turns' = <<>> /\ turns' \in Seq(Turn)
    BY <1>1 DEF Silent
  <2> QED BY <1>1, <1>3, <2>1, ConvIs
<1>5. SessionInv' /\ ~Syncing'
  <2>1. /\ checkpoint' \in Tokens /\ valid' \in BOOLEAN /\ Exact' /\ graph' \in Rows /\ logits' \in Rows
        /\ config' \in Configs
    BY <1>1, <1>3 DEF Exact, Rows
  <2> QED BY <1>1, <2>1, Settles
<1>6. ReplTypeOK'
  BY <1>1, <1>3, <1>4 DEF ReplInv, ReplTypeOK
<1>7. AnswerPath'
  BY <1>1, <1>5 DEF AnswerPath
<1>8. TurnPath'
  BY <1>1, <1>2, <1>4 DEF TurnPath, Talking
<1> QED BY <1>5, <1>6, <1>7, <1>8 DEF ReplInv

(* A one-shot run begins in the sync of its only turn.                     *)
LEMMA StartOnceKeeps ==
    ASSUME ReplInv, NEW mode \in ThinkModes, NEW sys \in Systems, NEW c \in Configs,
           NEW question \in Question, StartOnce(mode, sys, c, question)
    PROVE  ReplInv'
<1> DEFINE now == Effective(mode, c.ctx)
           prefix == IF now = "max" THEN MaxPrefix ELSE <<>>
           turn == Asked(question, now)
<1>1. /\ task' = "once" /\ at' = "sync" /\ think' = mode /\ system' = sys /\ config' = c
      /\ transcript' = <<Bos>> \o prefix \o sys \o <<question, Mark(now)>> /\ turns' = <<turn>>
      /\ checkpoint' = <<>> /\ valid' = FALSE /\ graph' = Mixed /\ logits' = Mixed
      /\ progress' = 0
      /\ sync' = IF Len(transcript') >= c.ctx THEN Synced(FALSE)
                 ELSE [mode |-> IF c.cap < Len(transcript') THEN "chunks" ELSE "whole",
                       prompt |-> transcript', from |-> 0, at |-> 0, ok |-> FALSE]
      /\ UNCHANGED <<prefixTokens, rollback, generated, limit, interrupted, hit>>
  BY DEF StartOnce, ChatPrompt
<1>2. Prefix' = prefix /\ Mark(Effective(think', config'.ctx)) = Mark(now)
  BY <1>1 DEF Prefix, MaxNow
<1>3. prefix \in Tokens /\ sys \in Tokens /\ <<>> \in Tokens
  BY PrefixTokens, ReplAssumption DEF ReplInv, Tokens
<1>4. /\ turn \in Turn /\ turn.end = "open" /\ turn.said = <<>> /\ turn.ask = question
      /\ turn.mark = Mark(now)
  BY DEF Asked, Turn, Mark
<1> HIDE DEF prefix, turn, now
<1>5. /\ turns' \in Seq(Turn) /\ Len(turns') = 1 /\ turns'[1] = turn /\ turns' # <<>>
  BY <1>1, <1>4
<1>6. transcript' = Conv(prefix, sys, turns') /\ transcript' \in Tokens /\ Len(transcript') > 0
  <2>1. /\ Conv(prefix, sys, turns') = <<Bos>> \o prefix \o sys \o <<turns'[1].ask, turns'[1].mark>>
        /\ Conv(prefix, sys, turns') \in Tokens /\ Len(Conv(prefix, sys, turns')) > 0
    BY <1>3, <1>4, <1>5, FirstPrompt
  <2>2. turns'[1].ask = question /\ turns'[1].mark = Mark(now)
    BY <1>4, <1>5
  <2> QED BY <1>1, <2>1, <2>2, Zenon
<1>7. /\ sync' \in Sync /\ sync'.from = 0 /\ sync'.at = 0
      /\ sync'.mode \in {"off", "chunks", "whole"} /\ ~sync'.ok
      /\ sync'.mode # "off" => sync'.prompt = transcript' /\ Len(transcript') < config'.ctx
      /\ Len(sync'.prompt) \in Nat
  <2>1. Len(transcript') \in Nat /\ c.ctx \in Nat /\ Len(<<>>) = 0
    BY <1>6, ConfigAssumption DEF Tokens
  <2>2. CASE Len(transcript') >= c.ctx
    <3>1. sync' = [mode |-> "off", prompt |-> <<>>, from |-> 0, at |-> 0, ok |-> FALSE]
      BY <1>1, <2>2 DEF Synced
    <3> QED BY <1>3, <2>1, <3>1 DEF Sync, Modes
  <2>3. CASE ~(Len(transcript') >= c.ctx)
    <3>1. PICK m \in {"chunks", "whole"} :
             sync' = [mode |-> m, prompt |-> transcript', from |-> 0, at |-> 0, ok |-> FALSE]
      BY <1>1, <2>3
    <3>2. Len(transcript') < config'.ctx
      BY <1>1, <2>1, <2>3
    <3> QED BY <1>6, <2>1, <3>1, <3>2 DEF Sync, Modes
  <2> QED BY <2>2, <2>3
<1>8. SessionInv'
  <2>1. SessionTypeOK'
    BY <1>1, <1>3, <1>7 DEF SessionTypeOK, Rows
  <2>2. SyncPath'
    <3>1. Exact' /\ sync'.from <= sync'.at /\ sync'.at <= Len(sync'.prompt)
      <4>1. sync'.from = 0 /\ sync'.at = 0 /\ Len(sync'.prompt) \in Nat
        BY <1>7
      <4>2. Exact'
        BY <1>1 DEF Exact
      <4> QED BY <4>1, <4>2
    <3>2. Syncing' => Fits(sync.prompt)'
      BY <1>6, <1>7 DEF Syncing, Fits
    <3>3. sync'.mode \in {"off", "chunks", "whole"} /\ sync'.at = 0 /\ sync'.from = 0
      BY <1>7
    <3> QED BY <3>1, <3>2, <3>3 DEF SyncPath
  <2> QED BY <2>1, <2>2 DEF SessionInv
<1>9. ReplTypeOK'
  BY <1>1, <1>3, <1>5, <1>6 DEF ReplInv, ReplTypeOK
<1>10. AnswerPath'
  BY <1>1, <1>7 DEF AnswerPath, Syncing
<1>11. TurnPath'
  <2>1. turns'[Len(turns')] = turn
    BY <1>5
  <2> QED BY <1>1, <1>2, <1>4, <1>5, <1>6, <2>1 DEF TurnPath, Talking
<1> QED BY <1>8, <1>9, <1>10, <1>11 DEF ReplInv

(* The process ends, and its conversation with it.                         *)
LEMMA ForgottenKeeps ==
    ASSUME ReplInv, Forgotten
    PROVE  ReplInv' /\ Silent'
<1>1. /\ task' = "none" /\ at' = "ended" /\ think' = "none" /\ transcript' = <<>> /\ prefixTokens' = 0
      /\ rollback' = 0 /\ generated' = 0 /\ limit' = 0 /\ interrupted' = FALSE /\ system' = <<>>
      /\ turns' = <<>> /\ hit' = FALSE
      /\ checkpoint' = <<>> /\ valid' = FALSE /\ graph' = Mixed /\ logits' = Mixed
      /\ progress' = -1 /\ sync' = Synced(TRUE) /\ config' = config
  BY DEF Forgotten, NoSession
<1>2. SessionInv' /\ ~Syncing'
  <2>1. /\ checkpoint' \in Tokens /\ valid' \in BOOLEAN /\ Exact' /\ graph' \in Rows /\ logits' \in Rows
        /\ config' \in Configs
    BY <1>1, PrefixTokens DEF ReplInv, SessionInv, SessionTypeOK, Exact, Rows
  <2> QED BY <1>1, <2>1, Settles
<1>3. ReplTypeOK'
  <2>1. <<>> \in Seq(Token) /\ <<>> \in Seq(Turn)
    OBVIOUS
  <2> QED BY <1>1, <2>1 DEF ReplTypeOK, Tokens, ThinkModes
<1>4. AnswerPath' /\ TurnPath'
  BY <1>1, <1>2 DEF AnswerPath, TurnPath, Talking
<1> QED BY <1>1, <1>2, <1>3, <1>4 DEF ReplInv, Silent

(* A step of a process that has no conversation leaves it alone.           *)
LEMMA IdleKeeps ==
    ASSUME ReplInv, UNCHANGED idle
    PROVE  ReplInv' /\ (Silent => Silent')
<1>1. UNCHANGED repl /\ UNCHANGED session
  BY DEF idle
<1>2. /\ think' = think /\ transcript' = transcript /\ prefixTokens' = prefixTokens
      /\ rollback' = rollback /\ generated' = generated /\ limit' = limit
      /\ system' = system /\ turns' = turns /\ task' = task /\ at' = at
      /\ interrupted' = interrupted /\ hit' = hit
  BY <1>1 DEF repl, chat, seen
<1>3. /\ config' = config /\ checkpoint' = checkpoint /\ valid' = valid /\ sync' = sync
  BY <1>1 DEF session
<1>4. SessionInv' /\ (Syncing <=> Syncing')
  BY <1>1, SessionSame DEF ReplInv
<1>5. ReplTypeOK'
  BY <1>2 DEF ReplInv, ReplTypeOK
<1>6. AnswerPath'
  BY <1>2, <1>3, <1>4 DEF ReplInv, AnswerPath
<1>7. TurnPath'
  <2>1. Prefix' = Prefix
    BY <1>2, <1>3 DEF Prefix, MaxNow
  <2> QED BY <1>2, <1>3, <2>1 DEF ReplInv, TurnPath, Talking
<1> QED BY <1>2, <1>4, <1>5, <1>6, <1>7 DEF ReplInv, Silent

-----------------------------------------------------------------------------
(* The program.                                                            *)
AllQuiet == \A p \in Proc : proc[p] # "running"
CliInv == IInv /\ ReplInv /\ (AllQuiet => Silent)

LEMMA InitConversation == Init => ReplInv /\ Silent
<1> SUFFICES ASSUME Init PROVE ReplInv /\ Silent
  OBVIOUS
<1>1. /\ InitSession /\ task = "none" /\ at = "ended" /\ think = "none"
      /\ transcript = <<>> /\ prefixTokens = 0 /\ rollback = 0 /\ generated = 0 /\ limit = 0
      /\ interrupted = FALSE /\ system = <<>> /\ turns = <<>> /\ hit = FALSE
  BY DEF Init, InitRepl
<1>2. SessionInv /\ ~Syncing
  BY <1>1, SessionInit
<1>3. ReplTypeOK
  <2>1. <<>> \in Seq(Token) /\ <<>> \in Seq(Turn)
    OBVIOUS
  <2> QED BY <1>1, <2>1 DEF ReplTypeOK, Tokens, ThinkModes
<1>4. AnswerPath /\ TurnPath
  BY <1>1, <1>2 DEF AnswerPath, TurnPath, Talking
<1> QED BY <1>1, <1>2, <1>3, <1>4 DEF ReplInv, Silent

(* The process that starts a conversation holds the lock, so that nobody   *)
(* is in the middle of one.                                                *)
LEMMA RunKeeps ==
    ASSUME CliInv, NEW p \in Proc, Run(p)
    PROVE  ReplInv' /\ ~AllQuiet'
<1>1. proc[p] = "mapped" /\ proc' = [proc EXCEPT ![p] = "running"]
  BY DEF Run, Go
<1>2. AllQuiet
  <2>1. ASSUME NEW q \in Proc, proc[q] = "running" PROVE FALSE
    <3>1. lock = p /\ lock = q
      BY <1>1, <2>1 DEF CliInv, IInv, HoldersLock, Locked
    <3> QED BY <1>1, <2>1, <3>1
  <2> QED BY <2>1 DEF AllQuiet
<1>3. ReplInv /\ Silent
  BY <1>2 DEF CliInv
<1>4. PICK mode \in ThinkModes, sys \in Systems, c \in Configs :
         \/ StartRepl(mode, sys, c)
         \/ \E question \in Question : StartOnce(mode, sys, c, question)
  BY DEF Run
<1>5. ReplInv'
  BY <1>3, <1>4, StartReplKeeps, StartOnceKeeps
<1>6. proc'[p] = "running"
  BY <1>1 DEF CliInv, IInv, TypeOK
<1> QED BY <1>5, <1>6 DEF AllQuiet

(* Every other step ends the conversation, goes on with it, or belongs to  *)
(* a process that has none.                                                *)
LEMMA CliStepKeeps ==
    ASSUME CliInv, NEW p \in Proc, Step(p)
    PROVE  CliInv'
<1>1. IInv' /\ ReplInv /\ IInv
  BY StepKeeps DEF CliInv
<1>2. CASE Run(p)
  BY <1>1, <1>2, RunKeeps DEF CliInv
<1>3. CASE Forgotten
  BY <1>1, <1>3, ForgottenKeeps DEF CliInv
<1>4. CASE Converse(p)
  <2>1. ReplInv'
    BY <1>1, <1>4, ReplStepKeeps DEF Converse
  <2>2. proc'[p] = "running"
    BY <1>4 DEF Converse, engine
  <2> QED BY <1>1, <2>1, <2>2 DEF CliInv, AllQuiet
<1>5. ASSUME NEW to, proc[p] # "running", proc' = [proc EXCEPT ![p] = to], UNCHANGED idle
      PROVE  CliInv'
  <2>1. ReplInv' /\ (Silent => Silent')
    BY <1>1, <1>5, IdleKeeps
  <2>2. AllQuiet' => AllQuiet
    BY <1>1, <1>5 DEF AllQuiet, IInv, TypeOK
  <2> QED BY <1>1, <2>1, <2>2 DEF CliInv
<1>6. CASE OpenLockFile(p) \/ Lock(p) \/ Refused(p) \/ Truncate(p) \/ TruncateFails(p) \/ WritePid(p)
           \/ Map(p) \/ BackendFails(p) \/ Unmap(p) \/ Release(p) \/ ExitHandler(p) \/ Gone(p)
  <2>1. PICK from, to : Go(p, from, to) /\ from # "running" /\ UNCHANGED idle
    BY <1>6
    DEF OpenLockFile, Lock, Refused, Truncate, TruncateFails, WritePid, Map, BackendFails,
        Unmap, Release, ExitHandler, Gone, idle
  <2> QED BY <1>5, <2>1 DEF Go
<1>7. CASE MapFails(p)
  BY <1>5, <1>7 DEF MapFails, idle
<1>8. CASE Killed(p) /\ ~Forgotten
  BY <1>5, <1>8 DEF Killed
<1> QED
  BY <1>2, <1>3, <1>4, <1>6, <1>7, <1>8 DEF Step, Returned, Exit

(* All three are inductive together.                                       *)
THEOREM ConversationKept == Spec => []CliInv
<1>1. Init => CliInv
  BY InitLock, InitConversation DEF CliInv
<1>2. CliInv /\ [Next]_vars => CliInv'
  <2> SUFFICES ASSUME CliInv, [Next]_vars PROVE CliInv'
    OBVIOUS
  <2>1. CASE Next
    BY <2>1, CliStepKeeps DEF Next
  <2>2. CASE UNCHANGED vars
    <3>1. UNCHANGED idle /\ UNCHANGED engine
      BY <2>2 DEF vars, idle, engine
    <3>2. IInv'
      BY <3>1 DEF CliInv, engine, IInv, TypeOK, HoldersLock, HoldersFile
    <3>3. ReplInv' /\ (Silent => Silent')
      BY <3>1, IdleKeeps DEF CliInv
    <3> QED BY <3>1, <3>2, <3>3 DEF CliInv, AllQuiet, engine
  <2> QED BY <2>1, <2>2
<1> QED BY <1>1, <1>2, PTL DEF Spec

(* Whatever was asked, interrupted, rolled back or broken off before, a    *)
(* token is sampled from the logits of exactly the transcript, and its     *)
(* evaluation fits the context (run_chat_turn, run_sampled_generation).    *)
THEOREM AnswersItsTranscript == Spec => []AnswersTranscript
<1>1. CliInv => AnswersTranscript
  <2> SUFFICES ASSUME CliInv, at = "decode" PROVE AnswersTranscript
    BY DEF AnswersTranscript
  <2>1. valid /\ checkpoint = transcript /\ Len(transcript) < config.ctx /\ ~Syncing
    BY DEF CliInv, ReplInv, AnswerPath
  <2>2. Exact
    BY <2>1 DEF CliInv, ReplInv, SessionInv, SyncPath, Syncing
  <2> QED BY <2>1, <2>2 DEF AnswersTranscript, Exact
<1> QED BY <1>1, ConversationKept, PTL

(* The transcript, edited in place, rolled back and continued, is the      *)
(* conversation the user saw, for any number of turns and mode changes,    *)
(* and its first turn is prompted as a one-shot run would be (run_repl,    *)
(* run_chat_turn, repl_chat_apply_max_prefix).                             *)
THEOREM TranscriptIsTrue == Spec => []TranscriptIsConversation
<1>1. CliInv => TranscriptIsConversation
  <2> SUFFICES ASSUME CliInv, at # "ended" PROVE TranscriptIsConversation
    BY DEF TranscriptIsConversation
  <2>1. /\ transcript = Conv(Prefix, system, IF at = "turn" THEN Front(turns) ELSE turns)
        /\ turns \in Seq(Turn) /\ system \in Tokens /\ Prefix \in Tokens
    BY PrefixTokens DEF CliInv, ReplInv, ReplTypeOK, TurnPath
  <2>2. \A ts : Conversation(ts) = Conv(Prefix, system, ts)
    BY DEF Conversation, Conv, Prefix, Body
  <2>3. ASSUME at = "sync", Len(turns) = 1
        PROVE  transcript = ChatPrompt(system, turns[1].ask, Effective(think, config.ctx))
    <3>1. /\ turns[1].end = "open" /\ turns[1].said = <<>>
          /\ turns[1].mark = Mark(Effective(think, config.ctx))
      BY <2>3 DEF CliInv, ReplInv, TurnPath, Talking
    <3>2. transcript = <<Bos>> \o Prefix \o system \o <<turns[1].ask, turns[1].mark>>
      BY <2>1, <2>3, <3>1, FirstPrompt
    <3> QED BY <3>1, <3>2 DEF ChatPrompt, Prefix, MaxNow
  <2> QED BY <2>1, <2>2, <2>3 DEF TranscriptIsConversation
<1> QED BY <1>1, ConversationKept, PTL
=============================================================================
