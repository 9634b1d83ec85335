-------------------------- MODULE ServerLoopProofs --------------------------
(* Proofs about ServerLoop, for any finite set of connections.             *)
EXTENDS ServerLoop, SequenceTheorems, FiniteSetTheorems, TLAPS

-----------------------------------------------------------------------------
(* The members of a queue, and a queue with no job twice in it. *)
In(c, q)  == \E i \in 1..Len(q) : q[i] = c
NoDups(q) == \A i, j \in 1..Len(q) : q[i] = q[j] => i = j

(* Appending to a queue adds one member; a new one keeps it free of        *)
(* duplicates.                                                             *)
LEMMA AppendMembers ==
    ASSUME NEW S, NEW q \in Seq(S), NEW c \in S
    PROVE  /\ Append(q, c) \in Seq(S)
           /\ \A d : In(d, Append(q, c)) <=> In(d, q) \/ d = c
           /\ NoDups(q) /\ ~In(c, q) => NoDups(Append(q, c))
<1>1. /\ Append(q, c) \in Seq(S)
      /\ Len(Append(q, c)) = Len(q) + 1
      /\ Len(q) \in Nat
      /\ \A i \in 1..Len(q) : Append(q, c)[i] = q[i]
      /\ Append(q, c)[Len(q) + 1] = c
    OBVIOUS
<1>2. \A d : In(d, Append(q, c)) <=> In(d, q) \/ d = c
    <2> TAKE d
    <2>1. In(d, q) \/ d = c => In(d, Append(q, c))
        BY <1>1 DEF In
    <2>2. In(d, Append(q, c)) => In(d, q) \/ d = c
        BY <1>1 DEF In
    <2> QED BY <2>1, <2>2
<1>3. NoDups(q) /\ ~In(c, q) => NoDups(Append(q, c))
    BY <1>1 DEF NoDups, In
<1> QED BY <1>1, <1>2, <1>3

(* Taking the head off a queue without duplicates removes that member only. *)
LEMMA TailMembers ==
    ASSUME NEW S, NEW q \in Seq(S), q # <<>>, NoDups(q)
    PROVE  /\ Head(q) \in S /\ In(Head(q), q)
           /\ Tail(q) \in Seq(S)
           /\ \A d : In(d, Tail(q)) <=> In(d, q) /\ d # Head(q)
           /\ NoDups(Tail(q))
<1>1. /\ Tail(q) \in Seq(S)
      /\ Len(q) \in Nat /\ Len(q) > 0
      /\ Len(Tail(q)) = Len(q) - 1
      /\ Head(q) = q[1] /\ Head(q) \in S
      /\ \A i \in 1..Len(Tail(q)) : Tail(q)[i] = q[i + 1]
    OBVIOUS
<1>2. \A d : In(d, Tail(q)) <=> In(d, q) /\ d # Head(q)
    <2> TAKE d
    <2>1. ASSUME In(d, Tail(q)) PROVE In(d, q) /\ d # Head(q)
        <3>1. PICK i \in 1..Len(Tail(q)) : Tail(q)[i] = d
            BY <2>1 DEF In
        <3>2. i + 1 \in 1..Len(q) /\ q[i + 1] = d /\ 1 \in 1..Len(q) /\ i + 1 # 1
            BY <1>1, <3>1
        <3> QED BY <1>1, <3>2 DEF In, NoDups
    <2>2. ASSUME In(d, q), d # Head(q) PROVE In(d, Tail(q))
        <3>1. PICK i \in 1..Len(q) : q[i] = d
            BY <2>2 DEF In
        <3>2. i # 1
            BY <1>1, <2>2, <3>1
        <3>3. i - 1 \in 1..Len(Tail(q)) /\ Tail(q)[i - 1] = q[i - 1 + 1] /\ i - 1 + 1 = i
            BY <1>1, <3>2
        <3> QED BY <3>1, <3>3 DEF In
    <2> QED BY <2>1, <2>2
<1>3. NoDups(Tail(q))
    <2> SUFFICES ASSUME NEW i \in 1..Len(Tail(q)), NEW j \in 1..Len(Tail(q)),
                        Tail(q)[i] = Tail(q)[j]
                 PROVE  i = j
        BY DEF NoDups
    <2>1. i + 1 \in 1..Len(q) /\ j + 1 \in 1..Len(q) /\ q[i + 1] = q[j + 1]
        BY <1>1
    <2> QED BY <2>1 DEF NoDups
<1>4. In(Head(q), q)
    BY <1>1 DEF In
<1> QED BY <1>1, <1>2, <1>3, <1>4

-----------------------------------------------------------------------------
(* The inductive invariant, by thread. *)

(* Where a client is tells what has become of its job. *)
ClientInv ==
    \A c \in Client :
        /\ jobAlive[c] <=> pc[c] \in {"ready", "cleanup"} \cup SubmittedPc
        /\ pc[c] = "accepted" => fd = c
        /\ pc[c] \in {"unconnected", "backlog", "accepted", "reading", "ready"} =>
               answered[c] = "none" /\ ~jobDone[c]
        /\ pc[c] \in SubmittedPc => jobDone[c] \/ job = c \/ In(c, queue)
        /\ pc[c] = "asleep" => ~jobDone[c]
        /\ pc[c] = "cleanup" => jobDone[c]
        /\ jobDone[c] => answered[c] = "served"

(* Every queued job is fresh and its client waits for it. *)
QueueInv ==
    /\ NoDups(queue)
    /\ \A c \in Client : In(c, queue) =>
           pc[c] \in SubmittedPc /\ ~jobDone[c] /\ job # c /\ answered[c] = "none"

WorkerInv ==
    /\ job # NoClient <=> workerPc \in {"generating", "finish"}
    /\ job # NoClient =>
           /\ pc[job] \in SubmittedPc /\ ~jobDone[job]
           /\ answered[job] = (IF workerPc = "generating" THEN "none" ELSE "served")
    /\ workerPc = "exited" => stopping /\ queue = <<>>

MainInv ==
    /\ fd # NoClient <=> mainPc \in {"accepted", "spawn"}
    /\ fd # NoClient => pc[fd] = "accepted"
    /\ stopping <=> mainPc \in {"joinUnused", "join", "drain", "drainAsleep", "closed"}
    /\ mainPc \in {"drain", "drainAsleep", "closed"} => workerPc = "exited"
    /\ mainPc \in {"listen", "joinUnused"} =>
           ~listening /\ \A c \in Client : pc[c] = "unconnected"
    /\ mainPc = "closed" => \A c \in Client : pc[c] \notin ThreadPc

(* server.clients counts the client threads, the one being created too.  *)
Counted == {c \in Client : pc[c] \in ThreadPc \/ (mainPc = "spawn" /\ fd = c)}

CountInv == clients = Cardinality(Counted)

IInv == TypeOK /\ ClientInv /\ QueueInv /\ WorkerInv /\ MainInv /\ CountInv

-----------------------------------------------------------------------------
(* Every action keeps the invariant: one lemma per action. *)

(* The invariant holds initially. *)
LEMMA InitIInv == Init => IInv
<1> SUFFICES ASSUME Init PROVE IInv
    OBVIOUS
<1>1. TypeOK
    <2>1. queue \in Seq(Client) /\ clients \in Nat
        BY DEF Init
    <2>2. /\ pc \in [Client -> {"unconnected", "backlog", "accepted", "gone"} \cup ThreadPc]
          /\ jobAlive \in [Client -> BOOLEAN]
          /\ jobDone \in [Client -> BOOLEAN]
          /\ answered \in [Client -> {"none", "direct", "served", "refused"}]
          /\ delivered \in [Client -> BOOLEAN]
        BY DEF Init
    <2> QED BY <2>1, <2>2 DEF Init, TypeOK
<1>2. ClientInv /\ WorkerInv /\ MainInv
    BY ClientAssumption DEF Init, ClientInv, WorkerInv, MainInv, ThreadPc, SubmittedPc
<1>3. QueueInv
    BY DEF Init, QueueInv, NoDups, In
<1>4. Counted = {}
    BY DEF Init, Counted, ThreadPc
<1>5. CountInv
    BY <1>4, FS_EmptySet DEF Init, CountInv
<1> QED BY <1>1, <1>2, <1>3, <1>5 DEF IInv

(* The counted clients are finitely many; one more or one less moves the   *)
(* cardinality by one.                                                     *)
LEMMA Counting ==
    /\ IsFiniteSet(Counted)
    /\ Cardinality(Counted) \in Nat
    /\ \A c : c \notin Counted => Cardinality(Counted \cup {c}) = Cardinality(Counted) + 1
    /\ \A c : c \in Counted => /\ Cardinality(Counted \ {c}) = Cardinality(Counted) - 1
                             /\ Cardinality(Counted) > 0
<1>1. IsFiniteSet(Counted)
    BY ClientAssumption, FS_Subset DEF Counted
<1>2. Cardinality(Counted) \in Nat
    BY <1>1, FS_CardinalityType
<1>3. ASSUME NEW c, c \in Counted PROVE Cardinality(Counted) > 0
    BY <1>1, <1>2, <1>3, FS_EmptySet
<1> QED BY <1>1, <1>2, <1>3, FS_AddElement, FS_RemoveElement

(* The handler sets the flag. *)
LEMMA SignalFlagKeeps ==
    ASSUME IInv, SignalFlag
    PROVE  IInv'
<1> USE DEF IInv
<1>1. TypeOK'
    BY ClientAssumption DEF TypeOK, SignalFlag, SubmittedPc, ThreadPc, sockets, jobs, WakeWorker, stopRequested, Send
<1>2. ClientInv'
    BY ClientAssumption DEF TypeOK, ClientInv, QueueInv, WorkerInv, MainInv, SignalFlag, SubmittedPc, ThreadPc, sockets, jobs, WakeWorker, stopRequested, Send
<1>3. QueueInv'
    BY ClientAssumption DEF TypeOK, ClientInv, QueueInv, WorkerInv, MainInv, SignalFlag, SubmittedPc, ThreadPc, sockets, jobs, WakeWorker, stopRequested, Send
<1>4. WorkerInv'
    BY ClientAssumption DEF TypeOK, ClientInv, QueueInv, WorkerInv, MainInv, SignalFlag, SubmittedPc, ThreadPc, sockets, jobs, WakeWorker, stopRequested, Send
<1>5. MainInv'
    BY ClientAssumption DEF TypeOK, ClientInv, QueueInv, WorkerInv, MainInv, SignalFlag, SubmittedPc, ThreadPc, sockets, jobs, WakeWorker, stopRequested, Send
<1>6. Counted' = Counted
    BY ClientAssumption DEF TypeOK, ClientInv, WorkerInv, MainInv, Counted, SignalFlag, SubmittedPc, ThreadPc, sockets, jobs, WakeWorker, stopRequested, Send
<1>7. CountInv'
    BY <1>6 DEF CountInv, SignalFlag
<1> QED BY <1>1, <1>2, <1>3, <1>4, <1>5, <1>7

(* The handler closes the socket. *)
LEMMA SignalCloseKeeps ==
    ASSUME IInv, SignalClose
    PROVE  IInv'
<1> USE DEF IInv
<1>1. TypeOK'
    BY ClientAssumption DEF TypeOK, SignalClose, SubmittedPc, ThreadPc, sockets, jobs, WakeWorker, stopRequested, Send
<1>2. ClientInv'
    BY ClientAssumption DEF TypeOK, ClientInv, QueueInv, WorkerInv, MainInv, SignalClose, SubmittedPc, ThreadPc, sockets, jobs, WakeWorker, stopRequested, Send
<1>3. QueueInv'
    BY ClientAssumption DEF TypeOK, ClientInv, QueueInv, WorkerInv, MainInv, SignalClose, SubmittedPc, ThreadPc, sockets, jobs, WakeWorker, stopRequested, Send
<1>4. WorkerInv'
    BY ClientAssumption DEF TypeOK, ClientInv, QueueInv, WorkerInv, MainInv, SignalClose, SubmittedPc, ThreadPc, sockets, jobs, WakeWorker, stopRequested, Send
<1>5. MainInv'
    BY ClientAssumption DEF TypeOK, ClientInv, QueueInv, WorkerInv, MainInv, SignalClose, SubmittedPc, ThreadPc, sockets, jobs, WakeWorker, stopRequested, Send
<1>6. Counted' = Counted
    BY ClientAssumption DEF TypeOK, ClientInv, WorkerInv, MainInv, Counted, SignalClose, SubmittedPc, ThreadPc, sockets, jobs, WakeWorker, stopRequested, Send
<1>7. CountInv'
    BY <1>6 DEF CountInv, SignalClose
<1> QED BY <1>1, <1>2, <1>3, <1>4, <1>5, <1>7

(* A peer connects. *)
LEMMA ConnectKeeps ==
    ASSUME IInv, NEW c \in Client, Connect(c)
    PROVE  IInv'
<1> USE DEF IInv
<1>1. TypeOK'
    BY ClientAssumption DEF TypeOK, Connect, SubmittedPc, ThreadPc, sockets, jobs, WakeWorker, stopRequested, Send
<1>2. ClientInv'
    BY ClientAssumption DEF TypeOK, ClientInv, QueueInv, WorkerInv, MainInv, Connect, SubmittedPc, ThreadPc, sockets, jobs, WakeWorker, stopRequested, Send
<1>3. QueueInv'
    BY ClientAssumption DEF TypeOK, ClientInv, QueueInv, WorkerInv, MainInv, Connect, SubmittedPc, ThreadPc, sockets, jobs, WakeWorker, stopRequested, Send
<1>4. WorkerInv'
    BY ClientAssumption DEF TypeOK, ClientInv, QueueInv, WorkerInv, MainInv, Connect, SubmittedPc, ThreadPc, sockets, jobs, WakeWorker, stopRequested, Send
<1>5. MainInv'
    BY ClientAssumption DEF TypeOK, ClientInv, QueueInv, WorkerInv, MainInv, Connect, SubmittedPc, ThreadPc, sockets, jobs, WakeWorker, stopRequested, Send
<1>6. Counted' = Counted
    BY ClientAssumption DEF TypeOK, ClientInv, WorkerInv, MainInv, Counted, Connect, SubmittedPc, ThreadPc, sockets, jobs, WakeWorker, stopRequested, Send
<1>7. CountInv'
    BY <1>6 DEF CountInv, Connect
<1> QED BY <1>1, <1>2, <1>3, <1>4, <1>5, <1>7

(* main listens. *)
LEMMA ListenKeeps ==
    ASSUME IInv, Listen
    PROVE  IInv'
<1> USE DEF IInv
<1>1. TypeOK'
    BY ClientAssumption DEF TypeOK, Listen, SubmittedPc, ThreadPc, sockets, jobs, WakeWorker, stopRequested, Send
<1>2. ClientInv'
    BY ClientAssumption DEF TypeOK, ClientInv, QueueInv, WorkerInv, MainInv, Listen, SubmittedPc, ThreadPc, sockets, jobs, WakeWorker, stopRequested, Send
<1>3. QueueInv'
    BY ClientAssumption DEF TypeOK, ClientInv, QueueInv, WorkerInv, MainInv, Listen, SubmittedPc, ThreadPc, sockets, jobs, WakeWorker, stopRequested, Send
<1>4. WorkerInv'
    BY ClientAssumption DEF TypeOK, ClientInv, QueueInv, WorkerInv, MainInv, Listen, SubmittedPc, ThreadPc, sockets, jobs, WakeWorker, stopRequested, Send
<1>5. MainInv'
    BY ClientAssumption DEF TypeOK, ClientInv, QueueInv, WorkerInv, MainInv, Listen, SubmittedPc, ThreadPc, sockets, jobs, WakeWorker, stopRequested, Send
<1>6. Counted' = Counted
    BY ClientAssumption DEF TypeOK, ClientInv, WorkerInv, MainInv, Counted, Listen, SubmittedPc, ThreadPc, sockets, jobs, WakeWorker, stopRequested, Send
<1>7. CountInv'
    BY <1>6 DEF CountInv, Listen
<1> QED BY <1>1, <1>2, <1>3, <1>4, <1>5, <1>7

(* main cannot listen. *)
LEMMA ListenFailsKeeps ==
    ASSUME IInv, ListenFails
    PROVE  IInv'
<1> USE DEF IInv
<1>1. TypeOK'
    BY ClientAssumption DEF TypeOK, ListenFails, SubmittedPc, ThreadPc, sockets, jobs, WakeWorker, stopRequested, Send
<1>2. ClientInv'
    BY ClientAssumption DEF TypeOK, ClientInv, QueueInv, WorkerInv, MainInv, ListenFails, SubmittedPc, ThreadPc, sockets, jobs, WakeWorker, stopRequested, Send
<1>3. QueueInv'
    BY ClientAssumption DEF TypeOK, ClientInv, QueueInv, WorkerInv, MainInv, ListenFails, SubmittedPc, ThreadPc, sockets, jobs, WakeWorker, stopRequested, Send
<1>4. WorkerInv'
    BY ClientAssumption DEF TypeOK, ClientInv, QueueInv, WorkerInv, MainInv, ListenFails, SubmittedPc, ThreadPc, sockets, jobs, WakeWorker, stopRequested, Send
<1>5. MainInv'
    BY ClientAssumption DEF TypeOK, ClientInv, QueueInv, WorkerInv, MainInv, ListenFails, SubmittedPc, ThreadPc, sockets, jobs, WakeWorker, stopRequested, Send
<1>6. Counted' = Counted
    BY ClientAssumption DEF TypeOK, ClientInv, WorkerInv, MainInv, Counted, ListenFails, SubmittedPc, ThreadPc, sockets, jobs, WakeWorker, stopRequested, Send
<1>7. CountInv'
    BY <1>6 DEF CountInv, ListenFails
<1> QED BY <1>1, <1>2, <1>3, <1>4, <1>5, <1>7

(* main tests the flag. *)
LEMMA CheckStopKeeps ==
    ASSUME IInv, CheckStop
    PROVE  IInv'
<1> USE DEF IInv
<1>1. TypeOK'
    BY ClientAssumption DEF TypeOK, CheckStop, SubmittedPc, ThreadPc, sockets, jobs, WakeWorker, stopRequested, Send
<1>2. ClientInv'
    BY ClientAssumption DEF TypeOK, ClientInv, QueueInv, WorkerInv, MainInv, CheckStop, SubmittedPc, ThreadPc, sockets, jobs, WakeWorker, stopRequested, Send
<1>3. QueueInv'
    BY ClientAssumption DEF TypeOK, ClientInv, QueueInv, WorkerInv, MainInv, CheckStop, SubmittedPc, ThreadPc, sockets, jobs, WakeWorker, stopRequested, Send
<1>4. WorkerInv'
    BY ClientAssumption DEF TypeOK, ClientInv, QueueInv, WorkerInv, MainInv, CheckStop, SubmittedPc, ThreadPc, sockets, jobs, WakeWorker, stopRequested, Send
<1>5. MainInv'
    BY ClientAssumption DEF TypeOK, ClientInv, QueueInv, WorkerInv, MainInv, CheckStop, SubmittedPc, ThreadPc, sockets, jobs, WakeWorker, stopRequested, Send
<1>6. Counted' = Counted
    BY ClientAssumption DEF TypeOK, ClientInv, WorkerInv, MainInv, Counted, CheckStop, SubmittedPc, ThreadPc, sockets, jobs, WakeWorker, stopRequested, Send
<1>7. CountInv'
    BY <1>6 DEF CountInv, CheckStop
<1> QED BY <1>1, <1>2, <1>3, <1>4, <1>5, <1>7

(* main accepts a connection. *)
LEMMA AcceptKeeps ==
    ASSUME IInv, NEW c \in Client, Accept(c)
    PROVE  IInv'
<1> USE DEF IInv
<1>1. TypeOK'
    BY ClientAssumption DEF TypeOK, Accept, SubmittedPc, ThreadPc, sockets, jobs, WakeWorker, stopRequested, Send
<1>2. ClientInv'
    BY ClientAssumption DEF TypeOK, ClientInv, QueueInv, WorkerInv, MainInv, Accept, SubmittedPc, ThreadPc, sockets, jobs, WakeWorker, stopRequested, Send
<1>3. QueueInv'
    BY ClientAssumption DEF TypeOK, ClientInv, QueueInv, WorkerInv, MainInv, Accept, SubmittedPc, ThreadPc, sockets, jobs, WakeWorker, stopRequested, Send
<1>4. WorkerInv'
    BY ClientAssumption DEF TypeOK, ClientInv, QueueInv, WorkerInv, MainInv, Accept, SubmittedPc, ThreadPc, sockets, jobs, WakeWorker, stopRequested, Send
<1>5. MainInv'
    BY ClientAssumption DEF TypeOK, ClientInv, QueueInv, WorkerInv, MainInv, Accept, SubmittedPc, ThreadPc, sockets, jobs, WakeWorker, stopRequested, Send
<1>6. Counted' = Counted
    BY ClientAssumption DEF TypeOK, ClientInv, WorkerInv, MainInv, Counted, Accept, SubmittedPc, ThreadPc, sockets, jobs, WakeWorker, stopRequested, Send
<1>7. CountInv'
    BY <1>6 DEF CountInv, Accept
<1> QED BY <1>1, <1>2, <1>3, <1>4, <1>5, <1>7

(* accept fails. *)
LEMMA AcceptFailsKeeps ==
    ASSUME IInv, AcceptFails
    PROVE  IInv'
<1> USE DEF IInv
<1>1. TypeOK'
    BY ClientAssumption DEF TypeOK, AcceptFails, SubmittedPc, ThreadPc, sockets, jobs, WakeWorker, stopRequested, Send
<1>2. ClientInv'
    BY ClientAssumption DEF TypeOK, ClientInv, QueueInv, WorkerInv, MainInv, AcceptFails, SubmittedPc, ThreadPc, sockets, jobs, WakeWorker, stopRequested, Send
<1>3. QueueInv'
    BY ClientAssumption DEF TypeOK, ClientInv, QueueInv, WorkerInv, MainInv, AcceptFails, SubmittedPc, ThreadPc, sockets, jobs, WakeWorker, stopRequested, Send
<1>4. WorkerInv'
    BY ClientAssumption DEF TypeOK, ClientInv, QueueInv, WorkerInv, MainInv, AcceptFails, SubmittedPc, ThreadPc, sockets, jobs, WakeWorker, stopRequested, Send
<1>5. MainInv'
    BY ClientAssumption DEF TypeOK, ClientInv, QueueInv, WorkerInv, MainInv, AcceptFails, SubmittedPc, ThreadPc, sockets, jobs, WakeWorker, stopRequested, Send
<1>6. Counted' = Counted
    BY ClientAssumption DEF TypeOK, ClientInv, WorkerInv, MainInv, Counted, AcceptFails, SubmittedPc, ThreadPc, sockets, jobs, WakeWorker, stopRequested, Send
<1>7. CountInv'
    BY <1>6 DEF CountInv, AcceptFails
<1> QED BY <1>1, <1>2, <1>3, <1>4, <1>5, <1>7

(* main drops a connection. *)
LEMMA DropConnectionKeeps ==
    ASSUME IInv, DropConnection
    PROVE  IInv'
<1> USE DEF IInv
<1>1. TypeOK'
    BY ClientAssumption DEF TypeOK, DropConnection, SubmittedPc, ThreadPc, sockets, jobs, WakeWorker, stopRequested, Send
<1>2. ClientInv'
    BY ClientAssumption DEF TypeOK, ClientInv, QueueInv, WorkerInv, MainInv, DropConnection, SubmittedPc, ThreadPc, sockets, jobs, WakeWorker, stopRequested, Send
<1>3. QueueInv'
    BY ClientAssumption DEF TypeOK, ClientInv, QueueInv, WorkerInv, MainInv, DropConnection, SubmittedPc, ThreadPc, sockets, jobs, WakeWorker, stopRequested, Send
<1>4. WorkerInv'
    BY ClientAssumption DEF TypeOK, ClientInv, QueueInv, WorkerInv, MainInv, DropConnection, SubmittedPc, ThreadPc, sockets, jobs, WakeWorker, stopRequested, Send
<1>5. MainInv'
    BY ClientAssumption DEF TypeOK, ClientInv, QueueInv, WorkerInv, MainInv, DropConnection, SubmittedPc, ThreadPc, sockets, jobs, WakeWorker, stopRequested, Send
<1>6. Counted' = Counted
    BY ClientAssumption DEF TypeOK, ClientInv, WorkerInv, MainInv, Counted, DropConnection, SubmittedPc, ThreadPc, sockets, jobs, WakeWorker, stopRequested, Send
<1>7. CountInv'
    BY <1>6 DEF CountInv, DropConnection
<1> QED BY <1>1, <1>2, <1>3, <1>4, <1>5, <1>7

(* The client thread starts. *)
LEMMA SpawnKeeps ==
    ASSUME IInv, Spawn
    PROVE  IInv'
<1> USE DEF IInv
<1>1. TypeOK'
    BY ClientAssumption DEF TypeOK, Spawn, SubmittedPc, ThreadPc, sockets, jobs, WakeWorker, stopRequested, Send
<1>2. ClientInv'
    BY ClientAssumption DEF TypeOK, ClientInv, QueueInv, WorkerInv, MainInv, Spawn, SubmittedPc, ThreadPc, sockets, jobs, WakeWorker, stopRequested, Send
<1>3. QueueInv'
    BY ClientAssumption DEF TypeOK, ClientInv, QueueInv, WorkerInv, MainInv, Spawn, SubmittedPc, ThreadPc, sockets, jobs, WakeWorker, stopRequested, Send
<1>4. WorkerInv'
    BY ClientAssumption DEF TypeOK, ClientInv, QueueInv, WorkerInv, MainInv, Spawn, SubmittedPc, ThreadPc, sockets, jobs, WakeWorker, stopRequested, Send
<1>5. MainInv'
    BY ClientAssumption DEF TypeOK, ClientInv, QueueInv, WorkerInv, MainInv, Spawn, SubmittedPc, ThreadPc, sockets, jobs, WakeWorker, stopRequested, Send
<1>6. Counted' = Counted
    BY ClientAssumption DEF TypeOK, ClientInv, WorkerInv, MainInv, Counted, Spawn, SubmittedPc, ThreadPc, sockets, jobs, WakeWorker, stopRequested, Send
<1>7. CountInv'
    BY <1>6 DEF CountInv, Spawn
<1> QED BY <1>1, <1>2, <1>3, <1>4, <1>5, <1>7

(* main stops the queue. *)
LEMMA SetStoppingKeeps ==
    ASSUME IInv, SetStopping
    PROVE  IInv'
<1> USE DEF IInv
<1>1. TypeOK'
    BY ClientAssumption DEF TypeOK, SetStopping, SubmittedPc, ThreadPc, sockets, jobs, WakeWorker, stopRequested, Send
<1>2. ClientInv'
    BY ClientAssumption DEF TypeOK, ClientInv, QueueInv, WorkerInv, MainInv, SetStopping, SubmittedPc, ThreadPc, sockets, jobs, WakeWorker, stopRequested, Send
<1>3. QueueInv'
    BY ClientAssumption DEF TypeOK, ClientInv, QueueInv, WorkerInv, MainInv, SetStopping, SubmittedPc, ThreadPc, sockets, jobs, WakeWorker, stopRequested, Send
<1>4. WorkerInv'
    BY ClientAssumption DEF TypeOK, ClientInv, QueueInv, WorkerInv, MainInv, SetStopping, SubmittedPc, ThreadPc, sockets, jobs, WakeWorker, stopRequested, Send
<1>5. MainInv'
    BY ClientAssumption DEF TypeOK, ClientInv, QueueInv, WorkerInv, MainInv, SetStopping, SubmittedPc, ThreadPc, sockets, jobs, WakeWorker, stopRequested, Send
<1>6. Counted' = Counted
    BY ClientAssumption DEF TypeOK, ClientInv, WorkerInv, MainInv, Counted, SetStopping, SubmittedPc, ThreadPc, sockets, jobs, WakeWorker, stopRequested, Send
<1>7. CountInv'
    BY <1>6 DEF CountInv, SetStopping
<1> QED BY <1>1, <1>2, <1>3, <1>4, <1>5, <1>7

(* main joins the worker. *)
LEMMA JoinWorkerKeeps ==
    ASSUME IInv, JoinWorker
    PROVE  IInv'
<1> USE DEF IInv
<1>1. TypeOK'
    BY ClientAssumption DEF TypeOK, JoinWorker, SubmittedPc, ThreadPc, sockets, jobs, WakeWorker, stopRequested, Send
<1>2. ClientInv'
    BY ClientAssumption DEF TypeOK, ClientInv, QueueInv, WorkerInv, MainInv, JoinWorker, SubmittedPc, ThreadPc, sockets, jobs, WakeWorker, stopRequested, Send
<1>3. QueueInv'
    BY ClientAssumption DEF TypeOK, ClientInv, QueueInv, WorkerInv, MainInv, JoinWorker, SubmittedPc, ThreadPc, sockets, jobs, WakeWorker, stopRequested, Send
<1>4. WorkerInv'
    BY ClientAssumption DEF TypeOK, ClientInv, QueueInv, WorkerInv, MainInv, JoinWorker, SubmittedPc, ThreadPc, sockets, jobs, WakeWorker, stopRequested, Send
<1>5. MainInv'
    BY ClientAssumption DEF TypeOK, ClientInv, QueueInv, WorkerInv, MainInv, JoinWorker, SubmittedPc, ThreadPc, sockets, jobs, WakeWorker, stopRequested, Send
<1>6. Counted' = Counted
    BY ClientAssumption DEF TypeOK, ClientInv, WorkerInv, MainInv, Counted, JoinWorker, SubmittedPc, ThreadPc, sockets, jobs, WakeWorker, stopRequested, Send
<1>7. CountInv'
    BY <1>6 DEF CountInv, JoinWorker
<1> QED BY <1>1, <1>2, <1>3, <1>4, <1>5, <1>7

(* main waits for the clients. *)
LEMMA DrainSleepKeeps ==
    ASSUME IInv, DrainSleep
    PROVE  IInv'
<1> USE DEF IInv
<1>1. TypeOK'
    BY ClientAssumption DEF TypeOK, DrainSleep, SubmittedPc, ThreadPc, sockets, jobs, WakeWorker, stopRequested, Send
<1>2. ClientInv'
    BY ClientAssumption DEF TypeOK, ClientInv, QueueInv, WorkerInv, MainInv, DrainSleep, SubmittedPc, ThreadPc, sockets, jobs, WakeWorker, stopRequested, Send
<1>3. QueueInv'
    BY ClientAssumption DEF TypeOK, ClientInv, QueueInv, WorkerInv, MainInv, DrainSleep, SubmittedPc, ThreadPc, sockets, jobs, WakeWorker, stopRequested, Send
<1>4. WorkerInv'
    BY ClientAssumption DEF TypeOK, ClientInv, QueueInv, WorkerInv, MainInv, DrainSleep, SubmittedPc, ThreadPc, sockets, jobs, WakeWorker, stopRequested, Send
<1>5. MainInv'
    BY ClientAssumption DEF TypeOK, ClientInv, QueueInv, WorkerInv, MainInv, DrainSleep, SubmittedPc, ThreadPc, sockets, jobs, WakeWorker, stopRequested, Send
<1>6. Counted' = Counted
    BY ClientAssumption DEF TypeOK, ClientInv, WorkerInv, MainInv, Counted, DrainSleep, SubmittedPc, ThreadPc, sockets, jobs, WakeWorker, stopRequested, Send
<1>7. CountInv'
    BY <1>6 DEF CountInv, DrainSleep
<1> QED BY <1>1, <1>2, <1>3, <1>4, <1>5, <1>7

(* main wakes up. *)
LEMMA DrainSpuriousKeeps ==
    ASSUME IInv, DrainSpurious
    PROVE  IInv'
<1> USE DEF IInv
<1>1. TypeOK'
    BY ClientAssumption DEF TypeOK, DrainSpurious, SubmittedPc, ThreadPc, sockets, jobs, WakeWorker, stopRequested, Send
<1>2. ClientInv'
    BY ClientAssumption DEF TypeOK, ClientInv, QueueInv, WorkerInv, MainInv, DrainSpurious, SubmittedPc, ThreadPc, sockets, jobs, WakeWorker, stopRequested, Send
<1>3. QueueInv'
    BY ClientAssumption DEF TypeOK, ClientInv, QueueInv, WorkerInv, MainInv, DrainSpurious, SubmittedPc, ThreadPc, sockets, jobs, WakeWorker, stopRequested, Send
<1>4. WorkerInv'
    BY ClientAssumption DEF TypeOK, ClientInv, QueueInv, WorkerInv, MainInv, DrainSpurious, SubmittedPc, ThreadPc, sockets, jobs, WakeWorker, stopRequested, Send
<1>5. MainInv'
    BY ClientAssumption DEF TypeOK, ClientInv, QueueInv, WorkerInv, MainInv, DrainSpurious, SubmittedPc, ThreadPc, sockets, jobs, WakeWorker, stopRequested, Send
<1>6. Counted' = Counted
    BY ClientAssumption DEF TypeOK, ClientInv, WorkerInv, MainInv, Counted, DrainSpurious, SubmittedPc, ThreadPc, sockets, jobs, WakeWorker, stopRequested, Send
<1>7. CountInv'
    BY <1>6 DEF CountInv, DrainSpurious
<1> QED BY <1>1, <1>2, <1>3, <1>4, <1>5, <1>7

(* A client thread answers by itself. *)
LEMMA AnswerDirectlyKeeps ==
    ASSUME IInv, NEW c \in Client, AnswerDirectly(c)
    PROVE  IInv'
<1> USE DEF IInv
<1>1. TypeOK'
  <2>1. delivered' \in [Client -> BOOLEAN]
    BY DEF TypeOK, AnswerDirectly, Send
  <2>2. pc' \in [Client -> {"unconnected", "backlog", "accepted", "gone"} \cup ThreadPc]
    BY DEF TypeOK, AnswerDirectly, ThreadPc
  <2>3. answered' \in [Client -> {"none", "direct", "served", "refused"}] /\ jobAlive' \in [Client -> BOOLEAN]
    BY DEF TypeOK, AnswerDirectly
  <2> QED BY <2>1, <2>2, <2>3 DEF TypeOK, AnswerDirectly, sockets
<1>2. ClientInv'
    BY ClientAssumption DEF TypeOK, ClientInv, QueueInv, WorkerInv, MainInv, AnswerDirectly, SubmittedPc, ThreadPc, sockets, jobs, WakeWorker, stopRequested, Send
<1>3. QueueInv'
    BY ClientAssumption DEF TypeOK, ClientInv, QueueInv, WorkerInv, MainInv, AnswerDirectly, SubmittedPc, ThreadPc, sockets, jobs, WakeWorker, stopRequested, Send
<1>4. WorkerInv'
    BY ClientAssumption DEF TypeOK, ClientInv, QueueInv, WorkerInv, MainInv, AnswerDirectly, SubmittedPc, ThreadPc, sockets, jobs, WakeWorker, stopRequested, Send
<1>5. MainInv'
    BY ClientAssumption DEF TypeOK, ClientInv, QueueInv, WorkerInv, MainInv, AnswerDirectly, SubmittedPc, ThreadPc, sockets, jobs, WakeWorker, stopRequested, Send
<1>6. Counted' = Counted
    BY ClientAssumption DEF TypeOK, ClientInv, WorkerInv, MainInv, Counted, AnswerDirectly, SubmittedPc, ThreadPc, sockets, jobs, WakeWorker, stopRequested, Send
<1>7. CountInv'
    BY <1>6 DEF CountInv, AnswerDirectly
<1> QED BY <1>1, <1>2, <1>3, <1>4, <1>5, <1>7

(* A client prepares its job. *)
LEMMA PrepareJobKeeps ==
    ASSUME IInv, NEW c \in Client, PrepareJob(c)
    PROVE  IInv'
<1> USE DEF IInv
<1>1. TypeOK'
    BY ClientAssumption DEF TypeOK, PrepareJob, SubmittedPc, ThreadPc, sockets, jobs, WakeWorker, stopRequested, Send
<1>2. ClientInv'
    BY ClientAssumption DEF TypeOK, ClientInv, QueueInv, WorkerInv, MainInv, PrepareJob, SubmittedPc, ThreadPc, sockets, jobs, WakeWorker, stopRequested, Send
<1>3. QueueInv'
    BY ClientAssumption DEF TypeOK, ClientInv, QueueInv, WorkerInv, MainInv, PrepareJob, SubmittedPc, ThreadPc, sockets, jobs, WakeWorker, stopRequested, Send
<1>4. WorkerInv'
    BY ClientAssumption DEF TypeOK, ClientInv, QueueInv, WorkerInv, MainInv, PrepareJob, SubmittedPc, ThreadPc, sockets, jobs, WakeWorker, stopRequested, Send
<1>5. MainInv'
    BY ClientAssumption DEF TypeOK, ClientInv, QueueInv, WorkerInv, MainInv, PrepareJob, SubmittedPc, ThreadPc, sockets, jobs, WakeWorker, stopRequested, Send
<1>6. Counted' = Counted
    BY ClientAssumption DEF TypeOK, ClientInv, WorkerInv, MainInv, Counted, PrepareJob, SubmittedPc, ThreadPc, sockets, jobs, WakeWorker, stopRequested, Send
<1>7. CountInv'
    BY <1>6 DEF CountInv, PrepareJob
<1> QED BY <1>1, <1>2, <1>3, <1>4, <1>5, <1>7

(* A job is refused. *)
LEMMA RefuseJobKeeps ==
    ASSUME IInv, NEW c \in Client, RefuseJob(c)
    PROVE  IInv'
<1> USE DEF IInv
<1>1. TypeOK'
  <2>1. delivered' \in [Client -> BOOLEAN]
    BY DEF TypeOK, RefuseJob, Send
  <2>2. pc' \in [Client -> {"unconnected", "backlog", "accepted", "gone"} \cup ThreadPc]
    BY DEF TypeOK, RefuseJob, ThreadPc
  <2>3. answered' \in [Client -> {"none", "direct", "served", "refused"}] /\ jobAlive' \in [Client -> BOOLEAN]
    BY DEF TypeOK, RefuseJob
  <2> QED BY <2>1, <2>2, <2>3 DEF TypeOK, RefuseJob, sockets
<1>2. ClientInv'
    BY ClientAssumption DEF TypeOK, ClientInv, QueueInv, WorkerInv, MainInv, RefuseJob, SubmittedPc, ThreadPc, sockets, jobs, WakeWorker, stopRequested, Send
<1>3. QueueInv'
    BY ClientAssumption DEF TypeOK, ClientInv, QueueInv, WorkerInv, MainInv, RefuseJob, SubmittedPc, ThreadPc, sockets, jobs, WakeWorker, stopRequested, Send
<1>4. WorkerInv'
    BY ClientAssumption DEF TypeOK, ClientInv, QueueInv, WorkerInv, MainInv, RefuseJob, SubmittedPc, ThreadPc, sockets, jobs, WakeWorker, stopRequested, Send
<1>5. MainInv'
    BY ClientAssumption DEF TypeOK, ClientInv, QueueInv, WorkerInv, MainInv, RefuseJob, SubmittedPc, ThreadPc, sockets, jobs, WakeWorker, stopRequested, Send
<1>6. Counted' = Counted
    BY ClientAssumption DEF TypeOK, ClientInv, WorkerInv, MainInv, Counted, RefuseJob, SubmittedPc, ThreadPc, sockets, jobs, WakeWorker, stopRequested, Send
<1>7. CountInv'
    BY <1>6 DEF CountInv, RefuseJob
<1> QED BY <1>1, <1>2, <1>3, <1>4, <1>5, <1>7

(* A client tests done and sleeps or goes on. *)
LEMMA WaitDoneKeeps ==
    ASSUME IInv, NEW c \in Client, WaitDone(c)
    PROVE  IInv'
<1> USE DEF IInv
<1>1. TypeOK'
    BY ClientAssumption DEF TypeOK, WaitDone, SubmittedPc, ThreadPc, sockets, jobs, WakeWorker, stopRequested, Send
<1>2. ClientInv'
    BY ClientAssumption DEF TypeOK, ClientInv, QueueInv, WorkerInv, MainInv, WaitDone, SubmittedPc, ThreadPc, sockets, jobs, WakeWorker, stopRequested, Send
<1>3. QueueInv'
    BY ClientAssumption DEF TypeOK, ClientInv, QueueInv, WorkerInv, MainInv, WaitDone, SubmittedPc, ThreadPc, sockets, jobs, WakeWorker, stopRequested, Send
<1>4. WorkerInv'
    BY ClientAssumption DEF TypeOK, ClientInv, QueueInv, WorkerInv, MainInv, WaitDone, SubmittedPc, ThreadPc, sockets, jobs, WakeWorker, stopRequested, Send
<1>5. MainInv'
    BY ClientAssumption DEF TypeOK, ClientInv, QueueInv, WorkerInv, MainInv, WaitDone, SubmittedPc, ThreadPc, sockets, jobs, WakeWorker, stopRequested, Send
<1>6. Counted' = Counted
    BY ClientAssumption DEF TypeOK, ClientInv, WorkerInv, MainInv, Counted, WaitDone, SubmittedPc, ThreadPc, sockets, jobs, WakeWorker, stopRequested, Send
<1>7. CountInv'
    BY <1>6 DEF CountInv, WaitDone
<1> QED BY <1>1, <1>2, <1>3, <1>4, <1>5, <1>7

(* A client wakes up. *)
LEMMA ClientSpuriousKeeps ==
    ASSUME IInv, NEW c \in Client, ClientSpurious(c)
    PROVE  IInv'
<1> USE DEF IInv
<1>1. TypeOK'
    BY ClientAssumption DEF TypeOK, ClientSpurious, SubmittedPc, ThreadPc, sockets, jobs, WakeWorker, stopRequested, Send
<1>2. ClientInv'
    BY ClientAssumption DEF TypeOK, ClientInv, QueueInv, WorkerInv, MainInv, ClientSpurious, SubmittedPc, ThreadPc, sockets, jobs, WakeWorker, stopRequested, Send
<1>3. QueueInv'
    BY ClientAssumption DEF TypeOK, ClientInv, QueueInv, WorkerInv, MainInv, ClientSpurious, SubmittedPc, ThreadPc, sockets, jobs, WakeWorker, stopRequested, Send
<1>4. WorkerInv'
    BY ClientAssumption DEF TypeOK, ClientInv, QueueInv, WorkerInv, MainInv, ClientSpurious, SubmittedPc, ThreadPc, sockets, jobs, WakeWorker, stopRequested, Send
<1>5. MainInv'
    BY ClientAssumption DEF TypeOK, ClientInv, QueueInv, WorkerInv, MainInv, ClientSpurious, SubmittedPc, ThreadPc, sockets, jobs, WakeWorker, stopRequested, Send
<1>6. Counted' = Counted
    BY ClientAssumption DEF TypeOK, ClientInv, WorkerInv, MainInv, Counted, ClientSpurious, SubmittedPc, ThreadPc, sockets, jobs, WakeWorker, stopRequested, Send
<1>7. CountInv'
    BY <1>6 DEF CountInv, ClientSpurious
<1> QED BY <1>1, <1>2, <1>3, <1>4, <1>5, <1>7

(* A client locks its job again. *)
LEMMA RelockKeeps ==
    ASSUME IInv, NEW c \in Client, Relock(c)
    PROVE  IInv'
<1> USE DEF IInv
<1>1. TypeOK'
    BY ClientAssumption DEF TypeOK, Relock, SubmittedPc, ThreadPc, sockets, jobs, WakeWorker, stopRequested, Send
<1>2. ClientInv'
    BY ClientAssumption DEF TypeOK, ClientInv, QueueInv, WorkerInv, MainInv, Relock, SubmittedPc, ThreadPc, sockets, jobs, WakeWorker, stopRequested, Send
<1>3. QueueInv'
    BY ClientAssumption DEF TypeOK, ClientInv, QueueInv, WorkerInv, MainInv, Relock, SubmittedPc, ThreadPc, sockets, jobs, WakeWorker, stopRequested, Send
<1>4. WorkerInv'
    BY ClientAssumption DEF TypeOK, ClientInv, QueueInv, WorkerInv, MainInv, Relock, SubmittedPc, ThreadPc, sockets, jobs, WakeWorker, stopRequested, Send
<1>5. MainInv'
    BY ClientAssumption DEF TypeOK, ClientInv, QueueInv, WorkerInv, MainInv, Relock, SubmittedPc, ThreadPc, sockets, jobs, WakeWorker, stopRequested, Send
<1>6. Counted' = Counted
    BY ClientAssumption DEF TypeOK, ClientInv, WorkerInv, MainInv, Counted, Relock, SubmittedPc, ThreadPc, sockets, jobs, WakeWorker, stopRequested, Send
<1>7. CountInv'
    BY <1>6 DEF CountInv, Relock
<1> QED BY <1>1, <1>2, <1>3, <1>4, <1>5, <1>7

(* A client destroys its job. *)
LEMMA DestroyJobKeeps ==
    ASSUME IInv, NEW c \in Client, DestroyJob(c)
    PROVE  IInv'
<1> USE DEF IInv
<1>1. TypeOK'
    BY ClientAssumption DEF TypeOK, DestroyJob, SubmittedPc, ThreadPc, sockets, jobs, WakeWorker, stopRequested, Send
<1>2. ClientInv'
    BY ClientAssumption DEF TypeOK, ClientInv, QueueInv, WorkerInv, MainInv, DestroyJob, SubmittedPc, ThreadPc, sockets, jobs, WakeWorker, stopRequested, Send
<1>3. QueueInv'
    BY ClientAssumption DEF TypeOK, ClientInv, QueueInv, WorkerInv, MainInv, DestroyJob, SubmittedPc, ThreadPc, sockets, jobs, WakeWorker, stopRequested, Send
<1>4. WorkerInv'
    BY ClientAssumption DEF TypeOK, ClientInv, QueueInv, WorkerInv, MainInv, DestroyJob, SubmittedPc, ThreadPc, sockets, jobs, WakeWorker, stopRequested, Send
<1>5. MainInv'
    BY ClientAssumption DEF TypeOK, ClientInv, QueueInv, WorkerInv, MainInv, DestroyJob, SubmittedPc, ThreadPc, sockets, jobs, WakeWorker, stopRequested, Send
<1>6. Counted' = Counted
    BY ClientAssumption DEF TypeOK, ClientInv, WorkerInv, MainInv, Counted, DestroyJob, SubmittedPc, ThreadPc, sockets, jobs, WakeWorker, stopRequested, Send
<1>7. CountInv'
    BY <1>6 DEF CountInv, DestroyJob
<1> QED BY <1>1, <1>2, <1>3, <1>4, <1>5, <1>7

(* The worker sleeps. *)
LEMMA WorkerSleepKeeps ==
    ASSUME IInv, WorkerSleep
    PROVE  IInv'
<1> USE DEF IInv
<1>1. TypeOK'
    BY ClientAssumption DEF TypeOK, WorkerSleep, SubmittedPc, ThreadPc, sockets, jobs, WakeWorker, stopRequested, Send
<1>2. ClientInv'
    BY ClientAssumption DEF TypeOK, ClientInv, QueueInv, WorkerInv, MainInv, WorkerSleep, SubmittedPc, ThreadPc, sockets, jobs, WakeWorker, stopRequested, Send
<1>3. QueueInv'
    BY ClientAssumption DEF TypeOK, ClientInv, QueueInv, WorkerInv, MainInv, WorkerSleep, SubmittedPc, ThreadPc, sockets, jobs, WakeWorker, stopRequested, Send
<1>4. WorkerInv'
    BY ClientAssumption DEF TypeOK, ClientInv, QueueInv, WorkerInv, MainInv, WorkerSleep, SubmittedPc, ThreadPc, sockets, jobs, WakeWorker, stopRequested, Send
<1>5. MainInv'
    BY ClientAssumption DEF TypeOK, ClientInv, QueueInv, WorkerInv, MainInv, WorkerSleep, SubmittedPc, ThreadPc, sockets, jobs, WakeWorker, stopRequested, Send
<1>6. Counted' = Counted
    BY ClientAssumption DEF TypeOK, ClientInv, WorkerInv, MainInv, Counted, WorkerSleep, SubmittedPc, ThreadPc, sockets, jobs, WakeWorker, stopRequested, Send
<1>7. CountInv'
    BY <1>6 DEF CountInv, WorkerSleep
<1> QED BY <1>1, <1>2, <1>3, <1>4, <1>5, <1>7

(* The worker wakes up. *)
LEMMA WorkerSpuriousKeeps ==
    ASSUME IInv, WorkerSpurious
    PROVE  IInv'
<1> USE DEF IInv
<1>1. TypeOK'
    BY ClientAssumption DEF TypeOK, WorkerSpurious, SubmittedPc, ThreadPc, sockets, jobs, WakeWorker, stopRequested, Send
<1>2. ClientInv'
    BY ClientAssumption DEF TypeOK, ClientInv, QueueInv, WorkerInv, MainInv, WorkerSpurious, SubmittedPc, ThreadPc, sockets, jobs, WakeWorker, stopRequested, Send
<1>3. QueueInv'
    BY ClientAssumption DEF TypeOK, ClientInv, QueueInv, WorkerInv, MainInv, WorkerSpurious, SubmittedPc, ThreadPc, sockets, jobs, WakeWorker, stopRequested, Send
<1>4. WorkerInv'
    BY ClientAssumption DEF TypeOK, ClientInv, QueueInv, WorkerInv, MainInv, WorkerSpurious, SubmittedPc, ThreadPc, sockets, jobs, WakeWorker, stopRequested, Send
<1>5. MainInv'
    BY ClientAssumption DEF TypeOK, ClientInv, QueueInv, WorkerInv, MainInv, WorkerSpurious, SubmittedPc, ThreadPc, sockets, jobs, WakeWorker, stopRequested, Send
<1>6. Counted' = Counted
    BY ClientAssumption DEF TypeOK, ClientInv, WorkerInv, MainInv, Counted, WorkerSpurious, SubmittedPc, ThreadPc, sockets, jobs, WakeWorker, stopRequested, Send
<1>7. CountInv'
    BY <1>6 DEF CountInv, WorkerSpurious
<1> QED BY <1>1, <1>2, <1>3, <1>4, <1>5, <1>7

(* The worker leaves. *)
LEMMA WorkerExitKeeps ==
    ASSUME IInv, WorkerExit
    PROVE  IInv'
<1> USE DEF IInv
<1>1. TypeOK'
    BY ClientAssumption DEF TypeOK, WorkerExit, SubmittedPc, ThreadPc, sockets, jobs, WakeWorker, stopRequested, Send
<1>2. ClientInv'
    BY ClientAssumption DEF TypeOK, ClientInv, QueueInv, WorkerInv, MainInv, WorkerExit, SubmittedPc, ThreadPc, sockets, jobs, WakeWorker, stopRequested, Send
<1>3. QueueInv'
    BY ClientAssumption DEF TypeOK, ClientInv, QueueInv, WorkerInv, MainInv, WorkerExit, SubmittedPc, ThreadPc, sockets, jobs, WakeWorker, stopRequested, Send
<1>4. WorkerInv'
    BY ClientAssumption DEF TypeOK, ClientInv, QueueInv, WorkerInv, MainInv, WorkerExit, SubmittedPc, ThreadPc, sockets, jobs, WakeWorker, stopRequested, Send
<1>5. MainInv'
    BY ClientAssumption DEF TypeOK, ClientInv, QueueInv, WorkerInv, MainInv, WorkerExit, SubmittedPc, ThreadPc, sockets, jobs, WakeWorker, stopRequested, Send
<1>6. Counted' = Counted
    BY ClientAssumption DEF TypeOK, ClientInv, WorkerInv, MainInv, Counted, WorkerExit, SubmittedPc, ThreadPc, sockets, jobs, WakeWorker, stopRequested, Send
<1>7. CountInv'
    BY <1>6 DEF CountInv, WorkerExit
<1> QED BY <1>1, <1>2, <1>3, <1>4, <1>5, <1>7

(* The worker answers. *)
LEMMA GenerateKeeps ==
    ASSUME IInv, Generate
    PROVE  IInv'
<1> USE DEF IInv
<1>1. TypeOK'
    BY ClientAssumption DEF TypeOK, Generate, SubmittedPc, ThreadPc, sockets, jobs, WakeWorker, stopRequested, Send
<1>2. ClientInv'
    BY ClientAssumption DEF TypeOK, ClientInv, QueueInv, WorkerInv, MainInv, Generate, SubmittedPc, ThreadPc, sockets, jobs, WakeWorker, stopRequested, Send
<1>3. QueueInv'
    BY ClientAssumption DEF TypeOK, ClientInv, QueueInv, WorkerInv, MainInv, Generate, SubmittedPc, ThreadPc, sockets, jobs, WakeWorker, stopRequested, Send
<1>4. WorkerInv'
    BY ClientAssumption DEF TypeOK, ClientInv, QueueInv, WorkerInv, MainInv, Generate, SubmittedPc, ThreadPc, sockets, jobs, WakeWorker, stopRequested, Send
<1>5. MainInv'
    BY ClientAssumption DEF TypeOK, ClientInv, QueueInv, WorkerInv, MainInv, Generate, SubmittedPc, ThreadPc, sockets, jobs, WakeWorker, stopRequested, Send
<1>6. Counted' = Counted
    BY ClientAssumption DEF TypeOK, ClientInv, WorkerInv, MainInv, Counted, Generate, SubmittedPc, ThreadPc, sockets, jobs, WakeWorker, stopRequested, Send
<1>7. CountInv'
    BY <1>6 DEF CountInv, Generate
<1> QED BY <1>1, <1>2, <1>3, <1>4, <1>5, <1>7

(* The worker reports the job done. *)
LEMMA FinishJobKeeps ==
    ASSUME IInv, FinishJob
    PROVE  IInv'
<1> USE DEF IInv
<1>1. TypeOK'
    BY ClientAssumption DEF TypeOK, FinishJob, SubmittedPc, ThreadPc, sockets, jobs, WakeWorker, stopRequested, Send
<1>2. ClientInv'
    BY ClientAssumption DEF TypeOK, ClientInv, QueueInv, WorkerInv, MainInv, FinishJob, SubmittedPc, ThreadPc, sockets, jobs, WakeWorker, stopRequested, Send
<1>3. QueueInv'
    BY ClientAssumption DEF TypeOK, ClientInv, QueueInv, WorkerInv, MainInv, FinishJob, SubmittedPc, ThreadPc, sockets, jobs, WakeWorker, stopRequested, Send
<1>4. WorkerInv'
    BY ClientAssumption DEF TypeOK, ClientInv, QueueInv, WorkerInv, MainInv, FinishJob, SubmittedPc, ThreadPc, sockets, jobs, WakeWorker, stopRequested, Send
<1>5. MainInv'
    BY ClientAssumption DEF TypeOK, ClientInv, QueueInv, WorkerInv, MainInv, FinishJob, SubmittedPc, ThreadPc, sockets, jobs, WakeWorker, stopRequested, Send
<1>6. Counted' = Counted
    BY ClientAssumption DEF TypeOK, ClientInv, WorkerInv, MainInv, Counted, FinishJob, SubmittedPc, ThreadPc, sockets, jobs, WakeWorker, stopRequested, Send
<1>7. CountInv'
    BY <1>6 DEF CountInv, FinishJob
<1> QED BY <1>1, <1>2, <1>3, <1>4, <1>5, <1>7

(* main counts a client. *)
LEMMA CountClientKeeps ==
    ASSUME IInv, CountClient
    PROVE  IInv'
<1> USE DEF IInv
<1>1. TypeOK'
    BY ClientAssumption DEF TypeOK, CountClient, SubmittedPc, ThreadPc, sockets, jobs, WakeWorker, stopRequested, Send
<1>2. ClientInv'
    BY ClientAssumption DEF TypeOK, ClientInv, QueueInv, WorkerInv, MainInv, CountClient, SubmittedPc, ThreadPc, sockets, jobs, WakeWorker, stopRequested, Send
<1>3. QueueInv'
    BY ClientAssumption DEF TypeOK, ClientInv, QueueInv, WorkerInv, MainInv, CountClient, SubmittedPc, ThreadPc, sockets, jobs, WakeWorker, stopRequested, Send
<1>4. WorkerInv'
    BY ClientAssumption DEF TypeOK, ClientInv, QueueInv, WorkerInv, MainInv, CountClient, SubmittedPc, ThreadPc, sockets, jobs, WakeWorker, stopRequested, Send
<1>5. MainInv'
    BY ClientAssumption DEF TypeOK, ClientInv, QueueInv, WorkerInv, MainInv, CountClient, SubmittedPc, ThreadPc, sockets, jobs, WakeWorker, stopRequested, Send
<1>6. fd \in Client /\ fd \notin Counted /\ Counted' = Counted \cup {fd}
    BY ClientAssumption DEF TypeOK, MainInv, Counted, CountClient, ThreadPc, sockets, jobs
<1>7. CountInv'
    BY <1>6, Counting DEF CountInv, CountClient
<1> QED BY <1>1, <1>2, <1>3, <1>4, <1>5, <1>7

(* main takes the count back. *)
LEMMA SpawnFailsKeeps ==
    ASSUME IInv, SpawnFails
    PROVE  IInv'
<1> USE DEF IInv
<1>6. fd \in Client /\ fd \in Counted /\ Counted' = Counted \ {fd}
    BY ClientAssumption DEF TypeOK, ClientInv, MainInv, Counted, SpawnFails, ThreadPc, sockets, jobs
<1>0. clients - 1 \in Nat
    BY <1>6, Counting DEF CountInv
<1>1. TypeOK'
    BY <1>0, ClientAssumption DEF TypeOK, SpawnFails, SubmittedPc, ThreadPc, sockets, jobs, WakeWorker, stopRequested, Send
<1>2. ClientInv'
    BY <1>0, ClientAssumption DEF TypeOK, ClientInv, QueueInv, WorkerInv, MainInv, SpawnFails, SubmittedPc, ThreadPc, sockets, jobs, WakeWorker, stopRequested, Send
<1>3. QueueInv'
    BY <1>0, ClientAssumption DEF TypeOK, ClientInv, QueueInv, WorkerInv, MainInv, SpawnFails, SubmittedPc, ThreadPc, sockets, jobs, WakeWorker, stopRequested, Send
<1>4. WorkerInv'
    BY <1>0, ClientAssumption DEF TypeOK, ClientInv, QueueInv, WorkerInv, MainInv, SpawnFails, SubmittedPc, ThreadPc, sockets, jobs, WakeWorker, stopRequested, Send
<1>5. MainInv'
    BY <1>0, ClientAssumption DEF TypeOK, ClientInv, QueueInv, WorkerInv, MainInv, SpawnFails, SubmittedPc, ThreadPc, sockets, jobs, WakeWorker, stopRequested, Send
<1>7. CountInv'
    BY <1>6, Counting DEF CountInv, SpawnFails
<1> QED BY <1>1, <1>2, <1>3, <1>4, <1>5, <1>7

(* A client thread ends. *)
LEMMA LeaveKeeps ==
    ASSUME IInv, NEW c \in Client, Leave(c)
    PROVE  IInv'
<1> USE DEF IInv
<1>6. c \in Counted /\ Counted' = Counted \ {c}
    BY ClientAssumption DEF TypeOK, MainInv, Counted, Leave, ThreadPc, sockets, jobs
<1>0. clients > 0 /\ clients - 1 \in Nat
    BY <1>6, Counting DEF CountInv
<1>1. TypeOK'
    BY <1>0, ClientAssumption DEF TypeOK, Leave, SubmittedPc, ThreadPc, sockets, jobs, WakeWorker, stopRequested, Send
<1>2. ClientInv'
    BY <1>0, ClientAssumption DEF TypeOK, ClientInv, QueueInv, WorkerInv, MainInv, Leave, SubmittedPc, ThreadPc, sockets, jobs, WakeWorker, stopRequested, Send
<1>3. QueueInv'
    BY <1>0, ClientAssumption DEF TypeOK, ClientInv, QueueInv, WorkerInv, MainInv, Leave, SubmittedPc, ThreadPc, sockets, jobs, WakeWorker, stopRequested, Send
<1>4. WorkerInv'
    BY <1>0, ClientAssumption DEF TypeOK, ClientInv, QueueInv, WorkerInv, MainInv, Leave, SubmittedPc, ThreadPc, sockets, jobs, WakeWorker, stopRequested, Send
<1>5. MainInv'
    BY <1>0, ClientAssumption DEF TypeOK, ClientInv, QueueInv, WorkerInv, MainInv, Leave, SubmittedPc, ThreadPc, sockets, jobs, WakeWorker, stopRequested, Send
<1>7. CountInv'
    BY <1>0, <1>6, Counting DEF CountInv, Leave
<1> QED BY <1>1, <1>2, <1>3, <1>4, <1>5, <1>7

(* main frees the resources: nobody is left. *)
LEMMA CloseKeeps ==
    ASSUME IInv, Close
    PROVE  IInv'
<1> USE DEF IInv
<1>0. \A c \in Client : pc[c] \notin ThreadPc
    <2>1. CASE mainPc = "drain" /\ clients = 0
        <3>1. Counted = {}
            BY <2>1, Counting, FS_EmptySet DEF CountInv
        <3> QED BY <3>1 DEF Counted
    <2>2. CASE mainPc = "joinUnused"
        BY <2>2 DEF MainInv, ThreadPc
    <2> QED BY <2>1, <2>2 DEF Close
<1>1. TypeOK'
    BY <1>0, ClientAssumption DEF TypeOK, Close, SubmittedPc, ThreadPc, sockets, jobs, WakeWorker, stopRequested, Send
<1>2. ClientInv'
    BY <1>0, ClientAssumption DEF TypeOK, ClientInv, QueueInv, WorkerInv, MainInv, Close, SubmittedPc, ThreadPc, sockets, jobs, WakeWorker, stopRequested, Send
<1>3. QueueInv'
    BY <1>0, ClientAssumption DEF TypeOK, ClientInv, QueueInv, WorkerInv, MainInv, Close, SubmittedPc, ThreadPc, sockets, jobs, WakeWorker, stopRequested, Send
<1>4. WorkerInv'
    BY <1>0, ClientAssumption DEF TypeOK, ClientInv, QueueInv, WorkerInv, MainInv, Close, SubmittedPc, ThreadPc, sockets, jobs, WakeWorker, stopRequested, Send
<1>5. MainInv'
    BY <1>0, ClientAssumption DEF TypeOK, ClientInv, QueueInv, WorkerInv, MainInv, Close, SubmittedPc, ThreadPc, sockets, jobs, WakeWorker, stopRequested, Send
<1>6. Counted' = Counted
    BY <1>0, ClientAssumption DEF TypeOK, ClientInv, WorkerInv, MainInv, Counted, Close, SubmittedPc, ThreadPc, sockets, jobs, WakeWorker, stopRequested, Send
<1>7. CountInv'
    BY <1>6 DEF CountInv, Close
<1> QED BY <1>1, <1>2, <1>3, <1>4, <1>5, <1>7

(* A job joins the queue. *)
LEMMA EnqueueKeeps ==
    ASSUME IInv, NEW c \in Client, Enqueue(c)
    PROVE  IInv'
<1> USE DEF IInv
<1>0. /\ queue' \in Seq(Client)
      /\ \A d \in Client : In(d, queue') <=> In(d, queue) \/ d = c
      /\ NoDups(queue')
    <2>1. queue \in Seq(Client) /\ NoDups(queue) /\ ~In(c, queue) /\ queue' = Append(queue, c)
        BY DEF TypeOK, QueueInv, Enqueue, SubmittedPc
    <2> QED BY <2>1, AppendMembers
<1>1. TypeOK'
    BY <1>0, ClientAssumption DEF TypeOK, Enqueue, SubmittedPc, ThreadPc, sockets, jobs, WakeWorker, stopRequested, Send
<1>2. ClientInv'
    BY <1>0, ClientAssumption DEF TypeOK, ClientInv, QueueInv, WorkerInv, MainInv, Enqueue, SubmittedPc, ThreadPc, sockets, jobs, WakeWorker, stopRequested, Send
<1>3. QueueInv'
    BY <1>0, ClientAssumption DEF TypeOK, ClientInv, QueueInv, WorkerInv, MainInv, Enqueue, SubmittedPc, ThreadPc, sockets, jobs, WakeWorker, stopRequested, Send
<1>4. WorkerInv'
    BY <1>0, ClientAssumption DEF TypeOK, ClientInv, QueueInv, WorkerInv, MainInv, Enqueue, SubmittedPc, ThreadPc, sockets, jobs, WakeWorker, stopRequested, Send
<1>5. MainInv'
    BY <1>0, ClientAssumption DEF TypeOK, ClientInv, QueueInv, WorkerInv, MainInv, Enqueue, SubmittedPc, ThreadPc, sockets, jobs, WakeWorker, stopRequested, Send
<1>6. Counted' = Counted
    BY <1>0, ClientAssumption DEF TypeOK, ClientInv, WorkerInv, MainInv, Counted, Enqueue, SubmittedPc, ThreadPc, sockets, jobs, WakeWorker, stopRequested, Send
<1>7. CountInv'
    BY <1>6 DEF CountInv, Enqueue
<1> QED BY <1>1, <1>2, <1>3, <1>4, <1>5, <1>7

(* The worker takes a job. *)
LEMMA DequeueKeeps ==
    ASSUME IInv, Dequeue
    PROVE  IInv'
<1> USE DEF IInv
<1>0. /\ queue' \in Seq(Client)
      /\ job' \in Client /\ In(job', queue)
      /\ \A d \in Client : In(d, queue') <=> In(d, queue) /\ d # job'
      /\ NoDups(queue')
    <2>1. queue \in Seq(Client) /\ NoDups(queue) /\ queue # <<>>
          /\ queue' = Tail(queue) /\ job' = Head(queue)
        BY DEF TypeOK, QueueInv, Dequeue
    <2> QED BY <2>1, TailMembers
<1>1. TypeOK'
    BY <1>0, ClientAssumption DEF TypeOK, Dequeue, SubmittedPc, ThreadPc, sockets, jobs, WakeWorker, stopRequested, Send
<1>2. ClientInv'
    BY <1>0, ClientAssumption DEF TypeOK, ClientInv, QueueInv, WorkerInv, MainInv, Dequeue, SubmittedPc, ThreadPc, sockets, jobs, WakeWorker, stopRequested, Send
<1>3. QueueInv'
    BY <1>0, ClientAssumption DEF TypeOK, ClientInv, QueueInv, WorkerInv, MainInv, Dequeue, SubmittedPc, ThreadPc, sockets, jobs, WakeWorker, stopRequested, Send
<1>4. WorkerInv'
    BY <1>0, ClientAssumption DEF TypeOK, ClientInv, QueueInv, WorkerInv, MainInv, Dequeue, SubmittedPc, ThreadPc, sockets, jobs, WakeWorker, stopRequested, Send
<1>5. MainInv'
    BY <1>0, ClientAssumption DEF TypeOK, ClientInv, QueueInv, WorkerInv, MainInv, Dequeue, SubmittedPc, ThreadPc, sockets, jobs, WakeWorker, stopRequested, Send
<1>6. Counted' = Counted
    BY <1>0, ClientAssumption DEF TypeOK, ClientInv, WorkerInv, MainInv, Counted, Dequeue, SubmittedPc, ThreadPc, sockets, jobs, WakeWorker, stopRequested, Send
<1>7. CountInv'
    BY <1>6 DEF CountInv, Dequeue
<1> QED BY <1>1, <1>2, <1>3, <1>4, <1>5, <1>7

(* Stuttering changes nothing. *)
LEMMA StutterKeeps ==
    ASSUME IInv, UNCHANGED vars
    PROVE  IInv'
BY DEF vars, sockets, jobs, IInv, TypeOK, ClientInv, QueueInv, WorkerInv, MainInv, CountInv, Counted

(* Every step keeps the invariant. *)
LEMMA NextIInv == IInv /\ [Next]_vars => IInv'
BY SignalFlagKeeps, SignalCloseKeeps, ConnectKeeps, ListenKeeps, ListenFailsKeeps, CheckStopKeeps, AcceptKeeps, AcceptFailsKeeps, DropConnectionKeeps, SpawnKeeps, SetStoppingKeeps, JoinWorkerKeeps, DrainSleepKeeps, DrainSpuriousKeeps, AnswerDirectlyKeeps, PrepareJobKeeps, RefuseJobKeeps, WaitDoneKeeps, ClientSpuriousKeeps, RelockKeeps, DestroyJobKeeps, WorkerSleepKeeps, WorkerSpuriousKeeps, WorkerExitKeeps, GenerateKeeps, FinishJobKeeps, CountClientKeeps, SpawnFailsKeeps, LeaveKeeps, CloseKeeps, EnqueueKeeps, DequeueKeeps, StutterKeeps
   DEF Next, MainStep, ClientStep, WorkerStep, Ended

-----------------------------------------------------------------------------
(* The invariant holds in every reachable state. *)
THEOREM Invariance == Spec => []IInv
BY InitIInv, NextIInv, PTL DEF Spec

(* Type correctness; server.clients never goes below zero. *)
THEOREM TypeCorrectness == Spec => []TypeOK
<1>1. IInv => TypeOK
    BY DEF IInv
<1> QED BY <1>1, Invariance, PTL

(* The worker never touches a job whose client thread has left its frame.*)
THEOREM JobLifetime == Spec => []JobOutlivesWorker
<1>1. IInv => JobOutlivesWorker
    BY ClientAssumption DEF IInv, ClientInv, QueueInv, WorkerInv, JobOutlivesWorker, Queued, In
<1> QED BY <1>1, Invariance, PTL

(* A waiting client's job is done, in hand or queued, in one place only.   *)
THEOREM NothingLost == Spec => []NoneForgotten
<1>1. IInv => NoneForgotten
    BY ClientAssumption DEF IInv, ClientInv, QueueInv, WorkerInv, NoneForgotten, Queued, In
<1> QED BY <1>1, Invariance, PTL

(* Session, engine, caches and mutexes outlive every thread that uses them. *)
THEOREM CleanShutdown == Spec => []ResourcesCloseLast
<1>1. IInv => ResourcesCloseLast
    BY DEF IInv, MainInv, ResourcesCloseLast
<1> QED BY <1>1, Invariance, PTL

-----------------------------------------------------------------------------
(* The threads implement the abstract service. *)

(* Both start empty. *)
LEMMA ServiceInit == Init => Service!SvcInit
BY DEF Init, Service!SvcInit

(* The steps the service sees.  Enqueueing joins the line.             *)
LEMMA ServiceJoins ==
    ASSUME IInv, NEW c \in Client, Enqueue(c)
    PROVE  Service!Join(c)
BY DEF IInv, TypeOK, ClientInv, MainInv, Enqueue, Service!Join, WakeWorker, sockets, jobs

(* A 503 is a refusal. *)
LEMMA ServiceRefuses ==
    ASSUME IInv, NEW c \in Client, RefuseJob(c)
    PROVE  Service!Refuse(c)
BY DEF IInv, TypeOK, ClientInv, MainInv, RefuseJob, Service!Refuse, sockets, jobs

(* Dequeueing starts to serve the head of the line. *)
LEMMA ServiceStarts ==
    ASSUME IInv, Dequeue
    PROVE  Service!StartServing
BY ClientAssumption DEF IInv, TypeOK, WorkerInv, MainInv, Dequeue, Service!StartServing, sockets, jobs

(* generate_job answers the job in hand. *)
LEMMA ServiceAnswers ==
    ASSUME IInv, Generate
    PROVE  Service!Answer
BY ClientAssumption DEF IInv, TypeOK, WorkerInv, MainInv, Generate, Service!Answer, sockets, jobs

(* Setting stopping turns away those who come later. *)
LEMMA ServiceStops ==
    ASSUME IInv, SetStopping \/ ListenFails
    PROVE  Service!StopAccepting
BY DEF IInv, MainInv, WorkerInv, SetStopping, ListenFails, WakeWorker, Service!StopAccepting, sockets, jobs

(* The resources are freed when the line is empty. *)
LEMMA ServiceCloses ==
    ASSUME IInv, Close
    PROVE  Service!CloseService
BY DEF IInv, MainInv, WorkerInv, Close, Service!CloseService, sockets, jobs

(* Every other step leaves the service as it is. *)
LEMMA ServiceStutters ==
    ASSUME IInv,
           \/ SignalFlag \/ SignalClose \/ Listen \/ CheckStop \/ AcceptFails
           \/ DropConnection \/ CountClient \/ Spawn \/ SpawnFails
           \/ JoinWorker \/ DrainSleep \/ DrainSpurious
           \/ WorkerSleep \/ WorkerSpurious \/ WorkerExit \/ FinishJob
           \/ UNCHANGED vars
           \/ \E c \in Client :
                \/ Connect(c) \/ Accept(c) \/ AnswerDirectly(c) \/ PrepareJob(c)
                \/ WaitDone(c) \/ ClientSpurious(c) \/ Relock(c) \/ DestroyJob(c) \/ Leave(c)
    PROVE  UNCHANGED Service!svcVars
<1> USE DEF IInv, Service!svcVars, sockets, jobs
<1>1. CASE SignalFlag \/ SignalClose \/ Listen \/ CheckStop \/ AcceptFails
           \/ DropConnection \/ CountClient \/ Spawn \/ SpawnFails
           \/ JoinWorker \/ DrainSleep \/ DrainSpurious
    BY <1>1 DEF SignalFlag, SignalClose, Listen, CheckStop, AcceptFails, DropConnection,
                CountClient, Spawn, SpawnFails, JoinWorker, DrainSleep, DrainSpurious
<1>2. CASE WorkerSleep \/ WorkerSpurious \/ WorkerExit \/ FinishJob \/ UNCHANGED vars
    BY <1>2 DEF WorkerSleep, WorkerSpurious, WorkerExit, FinishJob, vars
<1>3. ASSUME NEW c \in Client,
             \/ Connect(c) \/ Accept(c) \/ PrepareJob(c) \/ WaitDone(c)
             \/ ClientSpurious(c) \/ Relock(c) \/ DestroyJob(c) \/ Leave(c)
      PROVE  UNCHANGED Service!svcVars
    BY <1>3 DEF Connect, Accept, PrepareJob, WaitDone, ClientSpurious, Relock, DestroyJob, Leave
<1>4. ASSUME NEW c \in Client, AnswerDirectly(c)
      PROVE  UNCHANGED Service!svcVars
    BY <1>4 DEF AnswerDirectly, TypeOK, ClientInv
<1> QED BY <1>1, <1>2, <1>3, <1>4

(* Every step is a step of the service or leaves it alone. *)
LEMMA ServiceNext == IInv /\ [Next]_vars => [Service!SvcNext]_(Service!svcVars)
<1> SUFFICES ASSUME IInv, [Next]_vars
             PROVE  Service!SvcNext \/ UNCHANGED Service!svcVars
    OBVIOUS
<1>1. ASSUME NEW c \in Client, Enqueue(c) \/ RefuseJob(c)
      PROVE  Service!SvcNext
    BY <1>1, ServiceJoins, ServiceRefuses DEF Service!SvcNext
<1>2. CASE Dequeue \/ Generate \/ SetStopping \/ ListenFails \/ Close
    BY <1>2, ServiceStarts, ServiceAnswers, ServiceStops, ServiceCloses DEF Service!SvcNext
<1> QED BY <1>1, <1>2, ServiceStutters DEF Next, MainStep, ClientStep, WorkerStep, Ended

(* Accepted requests are served once each, in order, one at a time, and    *)
(* none is turned away before the server is stopping.                      *)
THEOREM Refinement == Spec => ImplementsService
<1>1. Spec => Service!SvcInit /\ [][Service!SvcNext]_(Service!svcVars)
    BY ServiceInit, ServiceNext, Invariance, PTL DEF Spec
<1> QED BY <1>1 DEF ImplementsService, Service!SvcSpec
=============================================================================
