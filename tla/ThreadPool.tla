----------------------------- MODULE ThreadPool -----------------------------
(***************************************************************************)
(* The persistent worker pool of the CPU backend (ds4.c, ds4_thread_pool): *)
(* one calling thread splits the rows of a kernel over NThreads slices,    *)
(* runs slice 0 itself and wakes NThreads-1 pthreads for the others.  A    *)
(* generation counter tells a worker that a new job was posted and a done  *)
(* counter tells the caller that all slices ran.  The job (fn, ctx) lives  *)
(* in the caller's stack frame, so no worker may run it once the call has  *)
(* returned.                                                               *)
(*                                                                         *)
(* Each critical section of g_pool.mutex is one step.  A wait on a         *)
(* condition variable is a pc value of its own ("asleep") that a signal, a *)
(* broadcast or a spurious wake-up leaves.  A parallel_for nested in a     *)
(* kernel runs serially on its own thread (g_parallel_depth > 0) and       *)
(* changes nothing here.                                                   *)
(***************************************************************************)
EXTENDS Integers

CONSTANTS
    NThreads,   \* g_pool.n_threads, the caller included
    MaxRows,    \* the largest n_rows a kernel is called with
    MinRows,    \* min_parallel_rows
    GenMod,     \* the generation counter is taken modulo GenMod (2^32 in C)
    Ctx,        \* the stack frames a kernel's ctx pointer can point to
    NoCtx       \* NULL

ASSUME NThreadsAssumption == NThreads \in Nat \ {0}
ASSUME RowsAssumption     == MaxRows \in Nat /\ MinRows \in Nat
ASSUME GenModAssumption   == GenMod \in Nat /\ GenMod >= 2
ASSUME CtxAssumption      == NoCtx \notin Ctx

VARIABLES
    initialized, shutdown, generation, done,
    job,        \* g_pool.ctx and g_pool.n_rows
    mainPc,     \* where the calling thread is
    frame,      \* the ctx whose stack frame is live, NoCtx between calls
    workerPc,   \* where each worker is
    seen,       \* seen_generation of each worker
    local,      \* each worker's private copy of the job
    runs        \* history: how often fn was applied to each row of this call

vars == <<initialized, shutdown, generation, done, job, mainPc, frame,
          workerPc, seen, local, runs>>

Worker   == 1..(NThreads - 1)
NWorkers == NThreads - 1
Row      == 0..(MaxRows - 1)
Job      == [ctx : Ctx \cup {NoCtx}, rows : 0..MaxRows]
NoJob    == [ctx |-> NoCtx, rows |-> 0]

-----------------------------------------------------------------------------
(* rows_per_thread and the half-open slice row0 <= r < row1 of thread tid. *)

(* Mutant: the division rounds down and the tail rows are lost. *)
RowsPerThreadFloor(n) == n \div NThreads

RowsPerThread(n) == (n + NThreads - 1) \div NThreads

InSlice(tid, n, r) ==
    /\ tid * RowsPerThread(n) <= r
    /\ r < (tid + 1) * RowsPerThread(n)
    /\ r < n

Apply(tid, n) ==
    runs' = [r \in Row |-> IF InSlice(tid, n, r) THEN runs[r] + 1 ELSE runs[r]]

NextGeneration == (generation + 1) % GenMod

Broadcast == [w \in Worker |-> IF workerPc[w] = "asleep" THEN "top" ELSE workerPc[w]]

-----------------------------------------------------------------------------
Init ==
    /\ initialized = FALSE
    /\ shutdown = FALSE
    /\ generation = 0
    /\ done = 0
    /\ job = NoJob
    /\ mainPc = "idle"
    /\ frame = NoCtx
    /\ workerPc = [w \in Worker |-> "none"]
    /\ seen = [w \in Worker |-> 0]
    /\ local = [w \in Worker |-> NoJob]
    /\ runs = [r \in Row |-> 0]

(* ds4_threads_init: every new worker starts its loop with                 *)
(* seen_generation = 0, at its own pace.                                   *)
ThreadsInit ==
    /\ mainPc = "idle" /\ ~initialized
    /\ initialized' = TRUE
    /\ shutdown' = FALSE
    /\ generation' = 0
    /\ done' = 0
    /\ workerPc' = [w \in Worker |-> "top"]
    /\ seen' = [w \in Worker |-> 0]
    /\ UNCHANGED <<job, mainPc, frame, local, runs>>

(* ds4_parallel_for_min_rows, serial branch: too few rows or one thread.   *)
CallSerial(n) ==
    /\ mainPc = "idle" /\ initialized
    /\ NThreads <= 1 \/ n < MinRows
    /\ runs' = [r \in Row |-> IF r < n THEN 1 ELSE 0]
    /\ UNCHANGED <<initialized, shutdown, generation, done, job, mainPc, frame,
                   workerPc, seen, local>>

(* ds4_parallel_for_min_rows, parallel branch, first critical section:     *)
(* post the job, bump the generation, wake everybody.                      *)
Post(c, n) ==
    /\ mainPc = "idle" /\ initialized
    /\ NThreads > 1 /\ n >= MinRows
    /\ job' = [ctx |-> c, rows |-> n]
    /\ done' = 0
    /\ generation' = NextGeneration
    /\ workerPc' = Broadcast
    /\ mainPc' = "run"
    /\ frame' = c
    /\ runs' = [r \in Row |-> 0]
    /\ UNCHANGED <<initialized, shutdown, seen, local>>

(* The caller runs slice 0 outside the lock.                               *)
MainRun ==
    /\ mainPc = "run"
    /\ Apply(0, job.rows)
    /\ mainPc' = "wait"
    /\ UNCHANGED <<initialized, shutdown, generation, done, job, frame,
                   workerPc, seen, local>>

(* while (done < n_workers) pthread_cond_wait(done_cond)                   *)
MainSleep ==
    /\ mainPc = "wait" /\ done < NWorkers
    /\ mainPc' = "asleep"
    /\ UNCHANGED <<initialized, shutdown, generation, done, job, frame,
                   workerPc, seen, local, runs>>

MainSpurious ==
    /\ mainPc = "asleep"
    /\ mainPc' = "wait"
    /\ UNCHANGED <<initialized, shutdown, generation, done, job, frame,
                   workerPc, seen, local, runs>>

(* Mutant: the barrier counts threads from zero and opens one worker early. *)
MainReturnEarly ==
    /\ mainPc = "wait" /\ done >= NWorkers - 1
    /\ mainPc' = "idle"
    /\ frame' = NoCtx
    /\ UNCHANGED <<initialized, shutdown, generation, done, job,
                   workerPc, seen, local, runs>>

(* The barrier is open: the call returns and its frame dies.               *)
MainReturn ==
    /\ mainPc = "wait" /\ done >= NWorkers
    /\ mainPc' = "idle"
    /\ frame' = NoCtx
    /\ UNCHANGED <<initialized, shutdown, generation, done, job,
                   workerPc, seen, local, runs>>

(* Mutant: the shutdown wakes nobody. *)
ShutdownQuiet ==
    /\ mainPc = "idle" /\ initialized
    /\ shutdown' = TRUE
    /\ generation' = NextGeneration
    /\ mainPc' = "join"
    /\ UNCHANGED <<initialized, done, job, frame, workerPc, seen, local, runs>>

(* ds4_threads_shutdown: post the shutdown, then join every worker and     *)
(* clear the pool, which the next call lazily initialises again.           *)
Shutdown ==
    /\ mainPc = "idle" /\ initialized
    /\ shutdown' = TRUE
    /\ generation' = NextGeneration
    /\ workerPc' = Broadcast
    /\ mainPc' = "join"
    /\ UNCHANGED <<initialized, done, job, frame, seen, local, runs>>

Joined ==
    /\ mainPc = "join"
    /\ \A w \in Worker : workerPc[w] = "exited"
    /\ workerPc' = [w \in Worker |-> "none"]
    /\ initialized' = FALSE
    /\ shutdown' = FALSE
    /\ generation' = 0
    /\ done' = 0
    /\ job' = NoJob
    /\ mainPc' = "idle"
    /\ UNCHANGED <<frame, seen, local, runs>>

-----------------------------------------------------------------------------
(* ds4_worker_main.  The wait loop and the copy of the job are one critical *)
(* section: sleep while the generation is the one already served, leave on  *)
(* shutdown, otherwise take the job.                                        *)

WorkerSleep(w) ==
    /\ workerPc[w] = "top"
    /\ seen[w] = generation /\ ~shutdown
    /\ workerPc' = [workerPc EXCEPT ![w] = "asleep"]
    /\ UNCHANGED <<initialized, shutdown, generation, done, job, mainPc, frame,
                   seen, local, runs>>

WorkerSpurious(w) ==
    /\ workerPc[w] = "asleep"
    /\ workerPc' = [workerPc EXCEPT ![w] = "top"]
    /\ UNCHANGED <<initialized, shutdown, generation, done, job, mainPc, frame,
                   seen, local, runs>>

WorkerExit(w) ==
    /\ workerPc[w] = "top" /\ shutdown
    /\ workerPc' = [workerPc EXCEPT ![w] = "exited"]
    /\ UNCHANGED <<initialized, shutdown, generation, done, job, mainPc, frame,
                   seen, local, runs>>

WorkerTake(w) ==
    /\ workerPc[w] = "top"
    /\ seen[w] # generation /\ ~shutdown
    /\ seen' = [seen EXCEPT ![w] = generation]
    /\ local' = [local EXCEPT ![w] = job]
    /\ workerPc' = [workerPc EXCEPT ![w] = "run"]
    /\ UNCHANGED <<initialized, shutdown, generation, done, job, mainPc, frame, runs>>

(* fn(ctx, row0, row1) on the worker's slice, outside the lock.            *)
WorkerRun(w) ==
    /\ workerPc[w] = "run"
    /\ Apply(w, local[w].rows)
    /\ workerPc' = [workerPc EXCEPT ![w] = "finish"]
    /\ UNCHANGED <<initialized, shutdown, generation, done, job, mainPc, frame,
                   seen, local>>

(* Mutant: the last worker compares with n_threads and never signals. *)
WorkerFinishQuiet(w) ==
    /\ workerPc[w] = "finish"
    /\ done' = done + 1
    /\ mainPc' = IF done + 1 = NThreads /\ mainPc = "asleep" THEN "wait" ELSE mainPc
    /\ workerPc' = [workerPc EXCEPT ![w] = "top"]
    /\ UNCHANGED <<initialized, shutdown, generation, job, frame, seen, local, runs>>

(* done++ under the lock; the last worker signals the caller.              *)
WorkerFinish(w) ==
    /\ workerPc[w] = "finish"
    /\ done' = done + 1
    /\ mainPc' = IF done + 1 = NWorkers /\ mainPc = "asleep" THEN "wait" ELSE mainPc
    /\ workerPc' = [workerPc EXCEPT ![w] = "top"]
    /\ UNCHANGED <<initialized, shutdown, generation, job, frame, seen, local, runs>>

-----------------------------------------------------------------------------
MainStep == MainRun \/ MainSleep \/ MainReturn \/ Joined

WorkerStep(w) ==
    WorkerSleep(w) \/ WorkerExit(w) \/ WorkerTake(w) \/ WorkerRun(w) \/ WorkerFinish(w)

Next ==
    \/ ThreadsInit \/ Shutdown \/ MainSpurious
    \/ \E n \in 0..MaxRows : CallSerial(n) \/ \E c \in Ctx : Post(c, n)
    \/ MainStep
    \/ \E w \in Worker : WorkerStep(w) \/ WorkerSpurious(w)

Spec == Init /\ [][Next]_vars

(* The scheduler runs every thread that can run.  Nobody is obliged to     *)
(* call a kernel, to shut the pool down or to wake up spuriously.          *)
Fairness == WF_vars(MainStep) /\ \A w \in Worker : WF_vars(WorkerStep(w))

FairSpec == Spec /\ Fairness

-----------------------------------------------------------------------------
TypeOK ==
    /\ initialized \in BOOLEAN
    /\ shutdown \in BOOLEAN
    /\ generation \in 0..(GenMod - 1)
    /\ done \in 0..NWorkers
    /\ job \in Job
    /\ mainPc \in {"idle", "run", "wait", "asleep", "join"}
    /\ frame \in Ctx \cup {NoCtx}
    /\ workerPc \in [Worker -> {"none", "top", "asleep", "run", "finish", "exited"}]
    /\ seen \in [Worker -> 0..(GenMod - 1)]
    /\ local \in [Worker -> Job]
    /\ runs \in [Row -> Nat]

(* A worker that holds a job holds the one whose caller is still inside    *)
(* parallel_for: fn never touches a ctx on a stack frame that is gone.     *)
FrameIsLive ==
    \A w \in Worker :
        workerPc[w] \in {"run", "finish"} =>
            /\ frame # NoCtx
            /\ local[w] = job
            /\ local[w].ctx = frame

(* When a call has returned, fn was applied exactly once to each of its    *)
(* rows: the slices neither overlap nor miss the tail, and no slice of an  *)
(* earlier call is still to come.                                          *)
EveryRowOnce ==
    (mainPc = "wait" /\ done = NWorkers) =>
        \A r \in Row : runs[r] = (IF r < job.rows THEN 1 ELSE 0)

(* Every call returns: no wake-up is lost between posting and the barrier. *)
CallReturns == (frame # NoCtx) ~> (frame = NoCtx)

(* ds4_threads_shutdown joins all its workers: none sleeps through it.     *)
ShutdownEnds == (mainPc = "join") ~> (mainPc = "idle")
=============================================================================
