----------------------------- MODULE ServerLoop -----------------------------
(***************************************************************************)
(* The threads of ds4_server.c: main accepts connections and starts one    *)
(* detached thread per client; a client thread parses its request, puts a  *)
(* job that lives on its own stack into one FIFO queue and sleeps until    *)
(* the single worker, which owns the model session, has run it.  A         *)
(* signal closes the listening socket; main then stops the queue, joins    *)
(* the worker, waits for the client threads and frees everything.          *)
(*                                                                         *)
(* A critical section of server.mu is one step.  A job's own mutex is held *)
(* by its client from before the enqueue until it sleeps, so it has a      *)
(* place in the state (the client pc "holding").  A condition wait is a pc *)
(* value ("asleep") that a signal, a broadcast or a spurious wake-up ends. *)
(* What generate_job computes is not modelled here; the second signal's    *)
(* _exit is not modelled either, it ends every behaviour.                  *)
(***************************************************************************)
EXTENDS Integers, Sequences, FiniteSets

CONSTANTS
    Client,     \* the connections ever made, each with at most one job
    Stalling,   \* the peers that may stop reading or go away
    NoClient    \* NULL

ASSUME ClientAssumption ==
    IsFiniteSet(Client) /\ NoClient \notin Client /\ Stalling \subseteq Client

VARIABLES
    handler,        \* the stop signal's handler: idle, flagged, done
    listening,      \* the listening socket is open
    stopping,       \* server.stopping
    clients,        \* server.clients
    queue,          \* the list from server.head to server.tail
    mainPc, fd,     \* where main is, and the connection it just accepted
    workerPc, job,  \* where the worker is, and the job in its hands
    pc,             \* where each client thread is
    jobAlive,       \* the job on the client's stack is initialised
    jobDone,        \* job.done
    answered,       \* how the request ended: "none", "direct", "served" (generate_job
                    \* ran, delivered or not), "refused"
    delivered       \* the whole answer was handed to the peer

vars == <<handler, listening, stopping, clients, queue, mainPc, fd,
          workerPc, job, pc, jobAlive, jobDone, answered, delivered>>

stopRequested == handler # "idle"

sockets == <<handler, listening>>
jobs    == <<jobAlive, jobDone, answered, delivered>>

(* A client thread runs, or its creation is under way. *)
ThreadPc == {"reading", "ready", "holding", "asleep", "woken", "cleanup", "closing"}

(* The client has a job the worker may have to answer. *)
SubmittedPc == {"holding", "asleep", "woken"}

-----------------------------------------------------------------------------
(* The process starts with its worker running and main about to listen.    *)
Init ==
    /\ handler = "idle"
    /\ listening = FALSE
    /\ stopping = FALSE
    /\ clients = 0
    /\ queue = <<>>
    /\ mainPc = "listen"
    /\ fd = NoClient
    /\ workerPc = "top"
    /\ job = NoClient
    /\ pc = [c \in Client |-> "unconnected"]
    /\ jobAlive = [c \in Client |-> FALSE]
    /\ jobDone = [c \in Client |-> FALSE]
    /\ answered = [c \in Client |-> "none"]
    /\ delivered = [c \in Client |-> FALSE]

(* stop_signal_handler, possibly on another thread than main: first the    *)
(* flag, then the socket.                                                  *)
SignalFlag ==
    /\ handler = "idle"
    /\ handler' = "flagged"
    /\ UNCHANGED <<listening, stopping, clients, queue, mainPc, fd, workerPc,
                   job, pc, jobs>>

SignalClose ==
    /\ handler = "flagged"
    /\ handler' = "done"
    /\ listening' = FALSE
    /\ UNCHANGED <<stopping, clients, queue, mainPc, fd, workerPc, job, pc, jobs>>

(* A peer connects: the kernel queues the connection. *)
Connect(c) ==
    /\ listening
    /\ pc[c] = "unconnected"
    /\ pc' = [pc EXCEPT ![c] = "backlog"]
    /\ UNCHANGED <<sockets, stopping, clients, queue, mainPc, fd, workerPc,
                   job, jobs>>

-----------------------------------------------------------------------------
(* main *)

Listen ==
    /\ mainPc = "listen"
    /\ listening' = TRUE
    /\ mainPc' = "check"
    /\ UNCHANGED <<handler, stopping, clients, queue, fd, workerPc, job,
                   pc, jobs>>

WakeWorker == IF workerPc = "asleep" THEN "top" ELSE workerPc

(* listen_on failed: stop and join the worker, then close the resources.   *)
ListenFails ==
    /\ mainPc = "listen"
    /\ stopping' = TRUE
    /\ workerPc' = WakeWorker
    /\ mainPc' = "joinUnused"
    /\ UNCHANGED <<sockets, clients, queue, fd, job, pc, jobs>>

(* while (!g_stop_requested) accept(...), and the close after the loop.    *)
CheckStop ==
    /\ mainPc = "check"
    /\ IF stopRequested
       THEN mainPc' = "stop" /\ listening' = FALSE
       ELSE mainPc' = "accept" /\ UNCHANGED listening
    /\ UNCHANGED <<handler, stopping, clients, queue, fd, workerPc, job,
                   pc, jobs>>

Accept(c) ==
    /\ mainPc = "accept" /\ listening
    /\ pc[c] = "backlog"
    /\ mainPc' = "accepted"
    /\ fd' = c
    /\ pc' = [pc EXCEPT ![c] = "accepted"]
    /\ UNCHANGED <<sockets, stopping, clients, queue, workerPc, job, jobs>>

(* accept fails: interrupted, out of descriptors, or the socket is closed. *)
(* Back to the loop test, which sees the flag the handler set first.       *)
AcceptFails ==
    /\ mainPc = "accept"
    /\ mainPc' = "check"
    /\ UNCHANGED <<sockets, stopping, clients, queue, fd, workerPc, job, pc, jobs>>

(* A connection that arrives with the stop request is closed unread.       *)
DropConnection ==
    /\ mainPc = "accepted" /\ stopRequested
    /\ pc' = [pc EXCEPT ![fd] = "gone"]
    /\ fd' = NoClient
    /\ mainPc' = "check"
    /\ UNCHANGED <<sockets, stopping, clients, queue, workerPc, job, jobs>>

CountClient ==
    /\ mainPc = "accepted" /\ ~stopRequested
    /\ clients' = clients + 1
    /\ mainPc' = "spawn"
    /\ UNCHANGED <<sockets, stopping, queue, fd, workerPc, job, pc, jobs>>

Spawn ==
    /\ mainPc = "spawn"
    /\ pc' = [pc EXCEPT ![fd] = "reading"]
    /\ fd' = NoClient
    /\ mainPc' = "check"
    /\ UNCHANGED <<sockets, stopping, clients, queue, workerPc, job, jobs>>

(* pthread_create failed: take the count back and drop the connection.     *)
SpawnFails ==
    /\ mainPc = "spawn"
    /\ clients' = clients - 1
    /\ pc' = [pc EXCEPT ![fd] = "gone"]
    /\ fd' = NoClient
    /\ mainPc' = "check"
    /\ UNCHANGED <<sockets, stopping, queue, workerPc, job, jobs>>

(* stopping = true; broadcast to the worker. *)
SetStopping ==
    /\ mainPc = "stop"
    /\ stopping' = TRUE
    /\ workerPc' = WakeWorker
    /\ mainPc' = "join"
    /\ UNCHANGED <<sockets, clients, queue, fd, job, pc, jobs>>

JoinWorker ==
    /\ mainPc = "join" /\ workerPc = "exited"
    /\ mainPc' = "drain"
    /\ UNCHANGED <<sockets, stopping, clients, queue, fd, workerPc, job, pc, jobs>>

(* while (clients > 0) pthread_cond_wait(clients_cv) *)
DrainSleep ==
    /\ mainPc = "drain" /\ clients > 0
    /\ mainPc' = "drainAsleep"
    /\ UNCHANGED <<sockets, stopping, clients, queue, fd, workerPc, job, pc, jobs>>

DrainSpurious ==
    /\ mainPc = "drainAsleep"
    /\ mainPc' = "drain"
    /\ UNCHANGED <<sockets, stopping, clients, queue, fd, workerPc, job, pc, jobs>>

(* Mutant: main closes as soon as the worker is joined. *)
CloseUndrained ==
    /\ mainPc \in {"drain", "joinUnused"} /\ workerPc = "exited"
    /\ mainPc' = "closed"
    /\ UNCHANGED <<sockets, stopping, clients, queue, fd, workerPc, job, pc, jobs>>

(* All client threads are gone (or none was ever started): persist the     *)
(* session and free session, engine, caches and mutexes.                   *)
Close ==
    /\ \/ mainPc = "drain" /\ clients = 0
       \/ mainPc = "joinUnused" /\ workerPc = "exited"
    /\ mainPc' = "closed"
    /\ UNCHANGED <<sockets, stopping, clients, queue, fd, workerPc, job, pc, jobs>>

-----------------------------------------------------------------------------
(* send_all: gives up at once when a stop was requested, and after two     *)
(* seconds on a peer that does not read.                                   *)
Send(c) ==
    \E ok \in (IF stopRequested THEN {FALSE} ELSE IF c \in Stalling THEN BOOLEAN ELSE {TRUE}) :
        delivered' = [delivered EXCEPT ![c] = ok]

-----------------------------------------------------------------------------
(* client_main *)

(* Not a generation request, or a bad one: answered by the client thread.  *)
AnswerDirectly(c) ==
    /\ pc[c] = "reading"
    /\ answered' = [answered EXCEPT ![c] = "direct"]
    /\ Send(c)
    /\ pc' = [pc EXCEPT ![c] = "closing"]
    /\ UNCHANGED <<sockets, stopping, clients, queue, mainPc, fd, workerPc,
                   job, jobAlive, jobDone>>

(* The request parsed: initialise the job on the stack and lock it.        *)
PrepareJob(c) ==
    /\ pc[c] = "reading"
    /\ jobAlive' = [jobAlive EXCEPT ![c] = TRUE]
    /\ pc' = [pc EXCEPT ![c] = "ready"]
    /\ UNCHANGED <<sockets, stopping, clients, queue, mainPc, fd, workerPc,
                   job, jobDone, answered, delivered>>

(* enqueue: append under server.mu and signal the worker.  j.mu stays held. *)
Enqueue(c) ==
    /\ pc[c] = "ready" /\ ~stopping
    /\ queue' = Append(queue, c)
    /\ workerPc' = WakeWorker
    /\ pc' = [pc EXCEPT ![c] = "holding"]
    /\ UNCHANGED <<sockets, stopping, clients, mainPc, fd, job, jobs>>

(* enqueue returned false: answer 503 and destroy the job.                 *)
RefuseJob(c) ==
    /\ pc[c] = "ready" /\ stopping
    /\ answered' = [answered EXCEPT ![c] = "refused"]
    /\ Send(c)
    /\ jobAlive' = [jobAlive EXCEPT ![c] = FALSE]
    /\ pc' = [pc EXCEPT ![c] = "closing"]
    /\ UNCHANGED <<sockets, stopping, clients, queue, mainPc, fd, workerPc,
                   job, jobDone>>

(* while (!j.done) pthread_cond_wait(&j.cv, &j.mu), entered holding j.mu.  *)
WaitDone(c) ==
    /\ pc[c] = "holding"
    /\ pc' = [pc EXCEPT ![c] = IF jobDone[c] THEN "cleanup" ELSE "asleep"]
    /\ UNCHANGED <<sockets, stopping, clients, queue, mainPc, fd, workerPc,
                   job, jobs>>

ClientSpurious(c) ==
    /\ pc[c] = "asleep"
    /\ pc' = [pc EXCEPT ![c] = "woken"]
    /\ UNCHANGED <<sockets, stopping, clients, queue, mainPc, fd, workerPc,
                   job, jobs>>

(* Mutant: `if` instead of `while` around the wait. *)
RelockNoLoop(c) ==
    /\ pc[c] = "woken"
    /\ pc' = [pc EXCEPT ![c] = "cleanup"]
    /\ UNCHANGED <<sockets, stopping, clients, queue, mainPc, fd, workerPc,
                   job, jobs>>

(* The wait returns with j.mu locked again. *)
Relock(c) ==
    /\ pc[c] = "woken"
    /\ pc' = [pc EXCEPT ![c] = "holding"]
    /\ UNCHANGED <<sockets, stopping, clients, queue, mainPc, fd, workerPc,
                   job, jobs>>

(* Destroy the job's mutex and condition, free its request.                *)
DestroyJob(c) ==
    /\ pc[c] = "cleanup"
    /\ jobAlive' = [jobAlive EXCEPT ![c] = FALSE]
    /\ pc' = [pc EXCEPT ![c] = "closing"]
    /\ UNCHANGED <<sockets, stopping, clients, queue, mainPc, fd, workerPc,
                   job, jobDone, answered, delivered>>

(* Mutant: client_done decrements but does not wake main. *)
LeaveQuiet(c) ==
    /\ pc[c] = "closing"
    /\ clients' = clients - 1
    /\ pc' = [pc EXCEPT ![c] = "gone"]
    /\ UNCHANGED <<sockets, stopping, queue, mainPc, fd, workerPc, job, jobs>>

(* close(fd); client_done(s): the thread's last use of the server.         *)
Leave(c) ==
    /\ pc[c] = "closing"
    /\ clients' = IF clients > 0 THEN clients - 1 ELSE clients
    /\ mainPc' = IF mainPc = "drainAsleep" THEN "drain" ELSE mainPc
    /\ pc' = [pc EXCEPT ![c] = "gone"]
    /\ UNCHANGED <<sockets, stopping, queue, fd, workerPc, job, jobs>>

-----------------------------------------------------------------------------
(* worker_main *)

WorkerSleep ==
    /\ workerPc = "top" /\ queue = <<>> /\ ~stopping
    /\ workerPc' = "asleep"
    /\ UNCHANGED <<sockets, stopping, clients, queue, mainPc, fd, job, pc, jobs>>

WorkerSpurious ==
    /\ workerPc = "asleep"
    /\ workerPc' = "top"
    /\ UNCHANGED <<sockets, stopping, clients, queue, mainPc, fd, job, pc, jobs>>

(* Mutant: the worker leaves as soon as the server is stopping. *)
WorkerExitEarly ==
    /\ workerPc = "top" /\ stopping
    /\ workerPc' = "exited"
    /\ UNCHANGED <<sockets, stopping, clients, queue, mainPc, fd, job, pc, jobs>>

(* dequeue returns NULL: stopping, and the queue is drained.               *)
WorkerExit ==
    /\ workerPc = "top" /\ queue = <<>> /\ stopping
    /\ workerPc' = "exited"
    /\ UNCHANGED <<sockets, stopping, clients, queue, mainPc, fd, job, pc, jobs>>

(* Mutant: head is cleared instead of moved to the next job. *)
DequeueDropsRest ==
    /\ workerPc = "top" /\ queue # <<>>
    /\ job' = Head(queue)
    /\ queue' = <<>>
    /\ workerPc' = "generating"
    /\ UNCHANGED <<sockets, stopping, clients, mainPc, fd, pc, jobs>>

(* Mutant: the queue is a stack. *)
DequeueLast ==
    /\ workerPc = "top" /\ queue # <<>>
    /\ job' = queue[Len(queue)]
    /\ queue' = SubSeq(queue, 1, Len(queue) - 1)
    /\ workerPc' = "generating"
    /\ UNCHANGED <<sockets, stopping, clients, mainPc, fd, pc, jobs>>

(* dequeue: take the head of the list. *)
Dequeue ==
    /\ workerPc = "top" /\ queue # <<>>
    /\ job' = Head(queue)
    /\ queue' = Tail(queue)
    /\ workerPc' = "generating"
    /\ UNCHANGED <<sockets, stopping, clients, mainPc, fd, pc, jobs>>

(* generate_job: reads the request and sends the answer; on a stop request *)
(* it ends the turn early.                                                 *)
Generate ==
    /\ workerPc = "generating"
    /\ answered' = [answered EXCEPT ![job] = "served"]
    /\ Send(job)
    /\ workerPc' = "finish"
    /\ UNCHANGED <<sockets, stopping, clients, queue, mainPc, fd, job, pc,
                   jobAlive, jobDone>>

(* done = true and signal under j.mu: needs the client not to hold it.     *)
FinishJob ==
    /\ workerPc = "finish"
    /\ pc[job] # "holding"
    /\ jobDone' = [jobDone EXCEPT ![job] = TRUE]
    /\ pc' = [pc EXCEPT ![job] = IF @ = "asleep" THEN "woken" ELSE @]
    /\ job' = NoClient
    /\ workerPc' = "top"
    /\ UNCHANGED <<sockets, stopping, clients, queue, mainPc, fd, jobAlive, answered, delivered>>

-----------------------------------------------------------------------------
MainStep ==
    \/ Listen \/ ListenFails \/ CheckStop \/ DropConnection \/ CountClient
    \/ Spawn \/ SpawnFails \/ SetStopping \/ JoinWorker \/ DrainSleep \/ Close

ClientStep(c) ==
    \/ AnswerDirectly(c) \/ PrepareJob(c) \/ Enqueue(c) \/ RefuseJob(c)
    \/ WaitDone(c) \/ Relock(c) \/ DestroyJob(c) \/ Leave(c)

WorkerStep == WorkerSleep \/ WorkerExit \/ Dequeue \/ Generate \/ FinishJob

(* The process has ended; nothing more happens. *)
Ended == mainPc = "closed" /\ UNCHANGED vars

Next ==
    \/ SignalFlag \/ SignalClose
    \/ \E c \in Client : Connect(c) \/ Accept(c) \/ ClientStep(c) \/ ClientSpurious(c)
    \/ AcceptFails \/ MainStep \/ DrainSpurious
    \/ WorkerStep \/ WorkerSpurious
    \/ Ended

Spec == Init /\ [][Next]_vars

(* Every thread that can run is run.  A client thread does leave its read: *)
(* each recv times out and header and body have a maximal size.  accept    *)
(* returns once the listening socket has been closed by the handler; it    *)
(* need never return while the socket is open.  Signals, connections and   *)
(* spurious wake-ups are not owed.  Strong fairness for FinishJob: its     *)
(* pthread_mutex_lock gets j.mu if the client releases it again and again, *)
(* which a client that is woken spuriously for ever does.                  *)
Fairness ==
    /\ WF_vars(MainStep)
    /\ WF_vars(SignalClose)
    /\ WF_vars(AcceptFails /\ ~listening)
    /\ WF_vars(WorkerStep) /\ SF_vars(FinishJob)
    /\ \A c \in Client : WF_vars(ClientStep(c))

FairSpec == Spec /\ Fairness

-----------------------------------------------------------------------------
TypeOK ==
    /\ handler \in {"idle", "flagged", "done"}
    /\ listening \in BOOLEAN /\ stopping \in BOOLEAN
    /\ clients \in Nat
    /\ queue \in Seq(Client)
    /\ mainPc \in {"listen", "joinUnused", "check", "accept", "accepted", "spawn",
                   "stop", "join", "drain", "drainAsleep", "closed"}
    /\ fd \in Client \cup {NoClient}
    /\ workerPc \in {"top", "asleep", "generating", "finish", "exited"}
    /\ job \in Client \cup {NoClient}
    /\ pc \in [Client -> {"unconnected", "backlog", "accepted", "gone"} \cup ThreadPc]
    /\ jobAlive \in [Client -> BOOLEAN]
    /\ jobDone \in [Client -> BOOLEAN]
    /\ answered \in [Client -> {"none", "direct", "served", "refused"}]
    /\ delivered \in [Client -> BOOLEAN]

Queued(c) == \E i \in 1..Len(queue) : queue[i] = c

(* The worker reaches jobs only through the queue and its hand; every job  *)
(* it can reach still lives on its client's stack.                         *)
JobOutlivesWorker ==
    \A c \in Client : (Queued(c) \/ job = c) => jobAlive[c]

(* A client that waits for its answer is waited for: its job is done, in   *)
(* the worker's hand or in the queue, and in one of these only.            *)
NoneForgotten ==
    \A c \in Client :
        pc[c] \in SubmittedPc =>
            /\ jobDone[c] \/ job = c \/ Queued(c)
            /\ ~(jobDone[c] /\ (job = c \/ Queued(c)))
            /\ ~(job = c /\ Queued(c))

(* The mutexes, the session and the engine are freed when no other thread  *)
(* is left that could use them.                                            *)
ResourcesCloseLast ==
    mainPc = "closed" =>
        /\ workerPc = "exited"
        /\ \A c \in Client : pc[c] \notin ThreadPc

(* Every accepted request is run by the worker, even when a stop request   *)
(* comes while it waits.  Its whole answer is handed to a peer that reads, *)
(* unless a stop was requested by the time it is sent: send_all discards   *)
(* what is left from then on, so that a request run while the server       *)
(* drains is run for nothing.                                              *)
AcceptedIsRun ==
    \A c \in Client : Queued(c) ~>
        /\ answered[c] = "served"
        /\ delivered[c] \/ stopRequested \/ c \in Stalling

(* A stop request ends the process, whatever the clients are doing.        *)
StopEnds == stopRequested ~> mainPc = "closed"

(* A client that is turned away is told so: the answer "503 server         *)
(* shutting down" reaches every peer that reads.                           *)
RefusedIsTold ==
    \A c \in Client \ Stalling : answered[c] = "refused" => delivered[c]

(* The threads implement the service. *)
Service == INSTANCE RequestService WITH
    accepting <- ~stopping,
    open      <- mainPc # "closed",
    line      <- queue,
    serving   <- IF workerPc = "generating" THEN job ELSE NoClient,
    answer    <- [c \in Client |-> IF answered[c] = "direct" THEN "none" ELSE answered[c]]

ImplementsService == Service!SvcSpec
=============================================================================
