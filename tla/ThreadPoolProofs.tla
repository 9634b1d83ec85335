-------------------------- MODULE ThreadPoolProofs --------------------------
(* Proofs about ThreadPool, for every number of threads and rows and every *)
(* width of the generation counter.                                        *)
EXTENDS ThreadPool, FiniteSetTheorems, TLAPS

-----------------------------------------------------------------------------
(* Arithmetic of the slices. *)

(* Multiplication by a natural number is monotone. *)
LEMMA TimesMonotone ==
    ASSUME NEW a \in Nat, NEW b \in Nat, NEW k \in Nat, a <= b
    PROVE  a * k <= b * k
<1>1. PICK d \in Nat : b = a + d
    <2>1. b - a \in Nat /\ b = a + (b - a)
        OBVIOUS
    <2> QED BY <2>1
<1>2. b * k = a * k + d * k
    BY <1>1
<1>3. d * k >= 0 /\ a * k \in Nat /\ d * k \in Nat
    OBVIOUS
<1> QED BY <1>2, <1>3

(* Rounding up: NThreads slices of rows_per_thread rows hold all n rows.   *)
LEMMA SlicesAreEnough ==
    ASSUME NEW n \in Nat
    PROVE  /\ RowsPerThread(n) \in Nat
           /\ n <= NThreads * RowsPerThread(n)
<1> DEFINE k == RowsPerThread(n)
<1>1. NThreads \in Nat /\ NThreads > 0
    BY NThreadsAssumption
<1>2. n + NThreads - 1 \in Nat
    BY <1>1
<1>3. /\ k \in Nat
      /\ n + NThreads - 1 = NThreads * k + ((n + NThreads - 1) % NThreads)
      /\ (n + NThreads - 1) % NThreads \in 0..(NThreads - 1)
    BY <1>1, <1>2, SMTT(30) DEF RowsPerThread
<1>4. NThreads * k \in Nat
    BY <1>1, <1>3
<1> QED BY <1>1, <1>3, <1>4

(* No row is in two slices.                                                *)
LEMMA SliceIsUnique ==
    ASSUME NEW n \in Nat, NEW r \in Nat, NEW s \in Nat, NEW t \in Nat,
           InSlice(s, n, r), InSlice(t, n, r)
    PROVE  s = t
<1> DEFINE k == RowsPerThread(n)
<1>0. k \in Nat
    BY SlicesAreEnough
<1>1. ASSUME NEW a \in Nat, NEW b \in Nat, a < b,
             r < (a + 1) * k, b * k <= r
      PROVE  FALSE
    <2>1. (a + 1) * k <= b * k
        BY <1>0, <1>1, TimesMonotone
    <2>2. (a + 1) * k \in Nat /\ b * k \in Nat
        BY <1>0
    <2> QED BY <1>1, <2>1, <2>2
<1>2. ~(s < t)
    BY <1>1 DEF InSlice
<1>3. ~(t < s)
    BY <1>1 DEF InSlice
<1> QED BY <1>2, <1>3

(* Every row is in some slice.                                             *)
LEMMA SliceExists ==
    ASSUME NEW n \in Nat, NEW r \in Nat, r < n
    PROVE  \E t \in 0..(NThreads - 1) : InSlice(t, n, r)
<1> DEFINE k == RowsPerThread(n)
           t == r \div k
<1>1. k \in Nat /\ n <= NThreads * k /\ NThreads \in Nat /\ NThreads > 0
    BY SlicesAreEnough, NThreadsAssumption
<1>2. k > 0
    BY <1>1
<1> HIDE DEF k
<1>3. t \in Nat /\ r = k * t + (r % k) /\ r % k \in 0..(k - 1)
    BY <1>1, <1>2, SMTT(30)
<1> HIDE DEF t
<1>4. t * k \in Nat /\ k * t = t * k /\ (t + 1) * k = t * k + k
    BY <1>1, <1>3
<1>5. t * k <= r /\ r < (t + 1) * k
    BY <1>1, <1>2, <1>3, <1>4
<1>6. t < NThreads
    <2> SUFFICES ASSUME NThreads <= t PROVE FALSE
        BY <1>1, <1>3
    <2>1. NThreads * k <= t * k
        BY <1>1, <1>3, TimesMonotone
    <2>2. NThreads * k \in Nat
        BY <1>1
    <2> QED BY <1>1, <1>4, <1>5, <2>1, <2>2
<1>7. InSlice(t, n, r)
    BY <1>5 DEF InSlice, k
<1> QED BY <1>1, <1>3, <1>6, <1>7

(* The successor of a generation is another generation: one bit is enough. *)
LEMMA GenerationMoves ==
    ASSUME generation \in 0..(GenMod - 1)
    PROVE  NextGeneration \in 0..(GenMod - 1) /\ NextGeneration # generation
<1>1. GenMod \in Nat /\ GenMod >= 2
    BY GenModAssumption
<1>2. CASE generation + 1 < GenMod
    <2>1. (generation + 1) % GenMod = generation + 1
        BY <1>1, <1>2, SMTT(30)
    <2> QED BY <1>1, <1>2, <2>1 DEF NextGeneration
<1>3. CASE generation + 1 = GenMod
    <2>1. GenMod % GenMod = 0
        BY <1>1, SMTT(30)
    <2> QED BY <1>1, <1>3, <2>1 DEF NextGeneration
<1> QED BY <1>1, <1>2, <1>3

-----------------------------------------------------------------------------
(* The inductive invariant.  A worker is in one of three positions with    *)
(* respect to the job being run: it has not taken it yet (Pending), it is  *)
(* on it (Busy), or it has reported it done (Served).  done counts the     *)
(* served workers, and what fn was applied to is the union of the slices   *)
(* of the threads that are past their run step.                            *)

InCall == mainPc \in {"run", "wait", "asleep"}

Waiting(w) == workerPc[w] \in {"top", "asleep"}
Busy(w)    == workerPc[w] \in {"run", "finish"}
Served(w)  == Waiting(w) /\ seen[w] = generation
Pending(w) == workerPc[w] = "top" /\ seen[w] # generation

ServedWorkers == {w \in Worker : Served(w)}

Applied(t) == IF t = 0 THEN mainPc # "run"
                       ELSE workerPc[t] = "finish" \/ Served(t)

(* What the calling thread's position says of the pool as a whole. *)
MainInv ==
    /\ frame # NoCtx <=> InCall
    /\ InCall => initialized /\ NThreads > 1 /\ frame = job.ctx
    /\ shutdown <=> mainPc = "join"
    /\ shutdown => initialized

(* Where each worker may be, given the calling thread's position. *)
WorkersInv ==
    \A w \in Worker :
        /\ workerPc[w] = "none" <=> ~initialized
        /\ workerPc[w] = "exited" => shutdown
        /\ InCall => Served(w) \/ Busy(w) \/ Pending(w)
        /\ Busy(w) => InCall /\ seen[w] = generation /\ local[w] = job
        /\ mainPc = "idle" /\ initialized => Served(w)
        /\ shutdown => workerPc[w] \in {"top", "exited"}

CountInv == InCall => done = Cardinality(ServedWorkers)

RowsInv ==
    InCall => \A r \in Row :
        runs[r] = IF \E t \in 0..(NThreads - 1) : Applied(t) /\ InSlice(t, job.rows, r)
                  THEN 1 ELSE 0

IInv == TypeOK /\ MainInv /\ WorkersInv /\ CountInv /\ RowsInv

-----------------------------------------------------------------------------
(* The served workers are a finite set that can be as large as Worker, and *)
(* is Worker only when every worker is served.                             *)
LEMMA CountingServed ==
    /\ IsFiniteSet(Worker) /\ Cardinality(Worker) = NWorkers
    /\ IsFiniteSet(ServedWorkers)
    /\ Cardinality(ServedWorkers) \in 0..NWorkers
    /\ Cardinality(ServedWorkers) = NWorkers => ServedWorkers = Worker
<1>1. NThreads \in Nat /\ NThreads > 0
    BY NThreadsAssumption
<1>2. IsFiniteSet(Worker) /\ Cardinality(Worker) = NWorkers
    <2>1. /\ IsFiniteSet(1..(NThreads - 1))
          /\ Cardinality(1..(NThreads - 1)) =
                IF 1 > NThreads - 1 THEN 0 ELSE NThreads - 1 - 1 + 1
        BY <1>1, FS_Interval
    <2> QED BY <1>1, <2>1 DEF Worker, NWorkers
<1>3. ServedWorkers \in SUBSET Worker
    BY DEF ServedWorkers
<1>4. /\ IsFiniteSet(ServedWorkers)
      /\ Cardinality(ServedWorkers) <= Cardinality(Worker)
      /\ Cardinality(Worker) = Cardinality(ServedWorkers) => Worker = ServedWorkers
    BY <1>2, <1>3, FS_Subset
<1>5. Cardinality(ServedWorkers) \in Nat
    BY <1>4, FS_CardinalityType
<1> QED BY <1>1, <1>2, <1>4, <1>5 DEF NWorkers

(* When the barrier opens, every slice has been applied.                   *)
LEMMA BarrierMeansServed ==
    ASSUME IInv, mainPc = "wait", done >= NWorkers
    PROVE  \A w \in Worker : Served(w)
<1>1. done = NWorkers /\ done = Cardinality(ServedWorkers)
    BY NThreadsAssumption DEF IInv, TypeOK, CountInv, InCall, NWorkers
<1> QED BY <1>1, CountingServed DEF ServedWorkers

(* A call in which every worker is served has applied fn once to each row. *)
LEMMA AllRowsApplied ==
    ASSUME IInv, mainPc = "wait", \A w \in Worker : Served(w), NEW r \in Row
    PROVE  runs[r] = IF r < job.rows THEN 1 ELSE 0
<1>1. \A t \in 0..(NThreads - 1) : Applied(t)
    BY NThreadsAssumption DEF Applied, Worker
<1>2. job.rows \in Nat /\ r \in Nat
    BY RowsAssumption DEF IInv, TypeOK, Job, Row
<1>3. runs[r] = IF \E t \in 0..(NThreads - 1) : InSlice(t, job.rows, r) THEN 1 ELSE 0
    BY <1>1 DEF IInv, RowsInv, InCall
<1>4. CASE r < job.rows
    BY <1>2, <1>3, <1>4, SliceExists
<1>5. CASE ~(r < job.rows)
    BY <1>3, <1>5 DEF InSlice
<1> QED BY <1>4, <1>5

(* Applying the slice of thread t, which was not applied yet, keeps the    *)
(* row history in step with the set of applied slices.                     *)
LEMMA ApplyKeepsRows ==
    ASSUME IInv, InCall, NEW t \in 0..(NThreads - 1),
           Apply(t, job.rows), job' = job,
           ~Applied(t), Applied(t)',
           \A u \in 0..(NThreads - 1) : u # t => (Applied(u)' <=> Applied(u))
    PROVE  /\ runs' \in [Row -> Nat]
           /\ RowsInv'
<1>0. NThreads \in Nat /\ runs \in [Row -> Nat] /\ job.rows \in Nat /\ Row \subseteq Nat
    BY NThreadsAssumption, RowsAssumption DEF IInv, TypeOK, Job, Row
<1>1. runs' \in [Row -> Nat]
    BY <1>0 DEF Apply
<1>2. ASSUME NEW r \in Row
      PROVE  runs'[r] = IF \E u \in 0..(NThreads - 1) : Applied(u)' /\ InSlice(u, job.rows, r)
                        THEN 1 ELSE 0
    <2>1. runs[r] = IF \E u \in 0..(NThreads - 1) : Applied(u) /\ InSlice(u, job.rows, r)
                    THEN 1 ELSE 0
        BY DEF IInv, RowsInv
    <2>2. runs'[r] = IF InSlice(t, job.rows, r) THEN runs[r] + 1 ELSE runs[r]
        BY <1>0 DEF Apply
    <2>3. CASE InSlice(t, job.rows, r)
        <3>1. \A u \in 0..(NThreads - 1) : InSlice(u, job.rows, r) => u = t
            BY <1>0, <2>3, SliceIsUnique
        <3>2. runs[r] = 0
            BY <2>1, <3>1
        <3> QED BY <2>2, <2>3, <3>2
    <2>4. CASE ~InSlice(t, job.rows, r)
        BY <2>1, <2>2, <2>4
    <2> QED BY <2>3, <2>4
<1>3. RowsInv'
    BY <1>2 DEF RowsInv, InSlice, RowsPerThread
<1> QED BY <1>1, <1>3

-----------------------------------------------------------------------------
(* The invariant holds initially and every step keeps it. *)
LEMMA InitIInv == Init => IInv
<1> SUFFICES ASSUME Init PROVE IInv
    OBVIOUS
<1>1. 0 \in 0..(GenMod - 1) /\ 0 \in 0..NWorkers
    BY GenModAssumption, NThreadsAssumption DEF NWorkers
<1>4. NoJob \in Job
    BY RowsAssumption DEF Job, NoJob
<1>5. /\ seen \in [Worker -> 0..(GenMod - 1)]
      /\ local \in [Worker -> Job]
      /\ runs \in [Row -> Nat]
      /\ workerPc \in [Worker -> {"none", "top", "asleep", "run", "finish", "exited"}]
    BY <1>1, <1>4 DEF Init
<1>2. TypeOK
    BY <1>1, <1>4, <1>5 DEF Init, TypeOK
<1>3. MainInv /\ WorkersInv /\ CountInv /\ RowsInv
    BY CtxAssumption DEF Init, MainInv, WorkersInv, CountInv, RowsInv, InCall, Busy, NoJob
<1> QED BY <1>2, <1>3 DEF IInv

(* Starting the pool. *)
LEMMA ThreadsInitKeeps ==
    ASSUME IInv, ThreadsInit
    PROVE  IInv'
<1>0. 0 \in 0..(GenMod - 1) /\ 0 \in 0..NWorkers
    BY GenModAssumption, NThreadsAssumption DEF NWorkers
<1>7. /\ seen' \in [Worker -> 0..(GenMod - 1)]
      /\ workerPc' \in [Worker -> {"none", "top", "asleep", "run", "finish", "exited"}]
    BY <1>0 DEF ThreadsInit
<1> USE DEF IInv
<1>1. TypeOK'
    BY <1>0, <1>7 DEF TypeOK, ThreadsInit
<1>2. MainInv'
    BY NThreadsAssumption, CtxAssumption DEF TypeOK, MainInv, InCall, ThreadsInit
<1>3. WorkersInv'
    BY <1>0, NThreadsAssumption DEF TypeOK, MainInv, WorkersInv, InCall, Waiting, Busy, Served, Pending, ThreadsInit
<1>4. ~InCall'
    BY DEF MainInv, InCall, ThreadsInit
<1>5. CountInv'
    BY <1>4 DEF CountInv
<1>6. RowsInv'
    BY <1>4 DEF RowsInv
<1> QED BY <1>1, <1>2, <1>3, <1>5, <1>6

(* A call that runs serially. *)
LEMMA CallSerialKeeps ==
    ASSUME IInv, NEW n \in 0..MaxRows, CallSerial(n)
    PROVE  IInv'
<1> USE DEF IInv
<1>1. TypeOK'
    BY NThreadsAssumption DEF TypeOK, CallSerial
<1>2. MainInv'
    BY NThreadsAssumption, CtxAssumption DEF TypeOK, MainInv, InCall, CallSerial
<1>3. WorkersInv'
    BY NThreadsAssumption DEF TypeOK, MainInv, WorkersInv, InCall, Waiting, Busy, Served, Pending, CallSerial
<1>4. ~InCall'
    BY DEF MainInv, InCall, CallSerial
<1>5. CountInv'
    BY <1>4 DEF CountInv
<1>6. RowsInv'
    BY <1>4 DEF RowsInv
<1> QED BY <1>1, <1>2, <1>3, <1>5, <1>6

(* Posting a job: every worker becomes pending, nothing is applied yet.  *)
LEMMA PostKeeps ==
    ASSUME IInv, NEW c \in Ctx, NEW n \in 0..MaxRows, Post(c, n)
    PROVE  IInv'
<1>0. NextGeneration \in 0..(GenMod - 1) /\ NextGeneration # generation
    BY GenerationMoves DEF IInv, TypeOK
<1> USE DEF IInv
<1>1. TypeOK'
    BY <1>0, NThreadsAssumption DEF TypeOK, Post, Job, NWorkers, Broadcast
<1>2. MainInv'
    BY NThreadsAssumption, CtxAssumption DEF TypeOK, MainInv, InCall, Post
<1>3. WorkersInv'
    BY <1>0, NThreadsAssumption DEF TypeOK, MainInv, WorkersInv, InCall, Waiting, Busy, Served, Pending, Post, Broadcast
<1>7. ASSUME NEW w \in Worker PROVE ~Served(w)' /\ workerPc'[w] # "finish"
    BY <1>0 DEF TypeOK, WorkersInv, Served, Waiting, Post, Broadcast
<1>4. Cardinality(ServedWorkers') = 0
    <2>1. ServedWorkers' = {}
        BY <1>7 DEF ServedWorkers
    <2> QED BY <2>1, FS_EmptySet
<1>5. CountInv'
    BY <1>4 DEF CountInv, Post
<1>8. \A t \in 0..(NThreads - 1) : ~Applied(t)'
    BY <1>7, NThreadsAssumption DEF Applied, Post, Worker
<1>6. RowsInv'
    BY <1>8 DEF RowsInv, Post
<1> QED BY <1>1, <1>2, <1>3, <1>5, <1>6

(* The caller applies slice 0. *)
LEMMA MainRunKeeps ==
    ASSUME IInv, MainRun
    PROVE  IInv'
<1> USE DEF IInv
<1>0. 0 \in 0..(NThreads - 1)
    BY NThreadsAssumption
<1>7. \A t \in 0..(NThreads - 1) : t # 0 => (Applied(t)' <=> Applied(t))
    BY DEF Applied, Served, Waiting, MainRun
<1>8. ~Applied(0) /\ Applied(0)' /\ InCall /\ Apply(0, job.rows) /\ job' = job
    BY DEF Applied, MainRun, InCall
<1>6. runs' \in [Row -> Nat] /\ RowsInv'
    BY <1>0, <1>7, <1>8, ApplyKeepsRows
<1>1. TypeOK'
    BY <1>6 DEF TypeOK, MainRun
<1>2. MainInv'
    BY NThreadsAssumption, CtxAssumption DEF TypeOK, MainInv, InCall, MainRun
<1>3. WorkersInv'
    BY NThreadsAssumption DEF TypeOK, MainInv, WorkersInv, InCall, Waiting, Busy, Served, Pending, MainRun
<1>4. ServedWorkers' = ServedWorkers
    BY DEF TypeOK, MainInv, WorkersInv, InCall, Waiting, Served, ServedWorkers, MainRun
<1>5. CountInv'
    BY <1>4 DEF CountInv, InCall, MainRun
<1> QED BY <1>1, <1>2, <1>3, <1>5, <1>6

(* The caller goes to sleep at the barrier. *)
LEMMA MainSleepKeeps ==
    ASSUME IInv, MainSleep
    PROVE  IInv'
<1> USE DEF IInv
<1>1. TypeOK'
    BY NThreadsAssumption DEF TypeOK, MainSleep
<1>2. MainInv'
    BY NThreadsAssumption, CtxAssumption DEF TypeOK, MainInv, InCall, MainSleep
<1>3. WorkersInv'
    BY NThreadsAssumption DEF TypeOK, MainInv, WorkersInv, InCall, Waiting, Busy, Served, Pending, MainSleep
<1>4. ServedWorkers' = ServedWorkers
    BY DEF TypeOK, MainInv, WorkersInv, InCall, Waiting, Served, ServedWorkers, MainSleep
<1>5. CountInv'
    BY <1>4 DEF CountInv, InCall, MainSleep
<1>6. RowsInv'
    BY DEF TypeOK, MainInv, WorkersInv, RowsInv, InCall, Applied, Waiting, Served, Worker, InSlice, RowsPerThread, MainSleep
<1> QED BY <1>1, <1>2, <1>3, <1>5, <1>6

(* The caller wakes up. *)
LEMMA MainSpuriousKeeps ==
    ASSUME IInv, MainSpurious
    PROVE  IInv'
<1> USE DEF IInv
<1>1. TypeOK'
    BY NThreadsAssumption DEF TypeOK, MainSpurious
<1>2. MainInv'
    BY NThreadsAssumption, CtxAssumption DEF TypeOK, MainInv, InCall, MainSpurious
<1>3. WorkersInv'
    BY NThreadsAssumption DEF TypeOK, MainInv, WorkersInv, InCall, Waiting, Busy, Served, Pending, MainSpurious
<1>4. ServedWorkers' = ServedWorkers
    BY DEF TypeOK, MainInv, WorkersInv, InCall, Waiting, Served, ServedWorkers, MainSpurious
<1>5. CountInv'
    BY <1>4 DEF CountInv, InCall, MainSpurious
<1>6. RowsInv'
    BY DEF TypeOK, MainInv, WorkersInv, RowsInv, InCall, Applied, Waiting, Served, Worker, InSlice, RowsPerThread, MainSpurious
<1> QED BY <1>1, <1>2, <1>3, <1>5, <1>6

(* The barrier opens: every worker is served. *)
LEMMA MainReturnKeeps ==
    ASSUME IInv, MainReturn
    PROVE  IInv'
<1>0. \A w \in Worker : Served(w)
    BY BarrierMeansServed DEF MainReturn
<1> USE DEF IInv
<1>1. TypeOK'
    BY NThreadsAssumption DEF TypeOK, MainReturn
<1>2. MainInv'
    BY NThreadsAssumption, CtxAssumption DEF TypeOK, MainInv, InCall, MainReturn
<1>3. WorkersInv'
    BY <1>0, NThreadsAssumption DEF TypeOK, MainInv, WorkersInv, InCall, Waiting, Busy, Served, Pending, MainReturn
<1>4. ~InCall'
    BY DEF MainInv, InCall, MainReturn
<1>5. CountInv'
    BY <1>4 DEF CountInv
<1>6. RowsInv'
    BY <1>4 DEF RowsInv
<1> QED BY <1>1, <1>2, <1>3, <1>5, <1>6

(* Shutdown: no worker stays asleep. *)
LEMMA ShutdownKeeps ==
    ASSUME IInv, Shutdown
    PROVE  IInv'
<1>0. NextGeneration \in 0..(GenMod - 1)
    BY GenerationMoves DEF IInv, TypeOK
<1> USE DEF IInv
<1>1. TypeOK'
    BY <1>0, NThreadsAssumption DEF TypeOK, Shutdown, Broadcast
<1>2. MainInv'
    BY NThreadsAssumption, CtxAssumption DEF TypeOK, MainInv, InCall, Shutdown
<1>3. WorkersInv'
    BY NThreadsAssumption DEF TypeOK, MainInv, WorkersInv, InCall, Waiting, Busy, Served, Pending, Shutdown, Broadcast
<1>4. ~InCall'
    BY DEF MainInv, InCall, Shutdown
<1>5. CountInv'
    BY <1>4 DEF CountInv
<1>6. RowsInv'
    BY <1>4 DEF RowsInv
<1> QED BY <1>1, <1>2, <1>3, <1>5, <1>6

(* The pool is cleared once its workers have exited. *)
LEMMA JoinedKeeps ==
    ASSUME IInv, Joined
    PROVE  IInv'
<1>0. 0 \in 0..(GenMod - 1) /\ 0 \in 0..NWorkers /\ NoJob \in Job
    BY GenModAssumption, NThreadsAssumption, RowsAssumption DEF NWorkers, Job, NoJob
<1> USE DEF IInv
<1>1. TypeOK'
    BY <1>0 DEF TypeOK, Joined
<1>2. MainInv'
    BY NThreadsAssumption, CtxAssumption DEF TypeOK, MainInv, InCall, Joined
<1>3. WorkersInv'
    BY NThreadsAssumption DEF TypeOK, MainInv, WorkersInv, InCall, Waiting, Busy, Served, Pending, Joined
<1>4. ~InCall'
    BY DEF MainInv, InCall, Joined
<1>5. CountInv'
    BY <1>4 DEF CountInv
<1>6. RowsInv'
    BY <1>4 DEF RowsInv
<1> QED BY <1>1, <1>2, <1>3, <1>5, <1>6

(* A served worker goes to sleep. *)
LEMMA WorkerSleepKeeps ==
    ASSUME IInv, NEW w \in Worker, WorkerSleep(w)
    PROVE  IInv'
<1> USE DEF IInv
<1>1. TypeOK'
    BY NThreadsAssumption DEF TypeOK, WorkerSleep
<1>2. MainInv'
    BY NThreadsAssumption, CtxAssumption DEF TypeOK, MainInv, InCall, WorkerSleep
<1>3. WorkersInv'
    BY NThreadsAssumption DEF TypeOK, MainInv, WorkersInv, InCall, Waiting, Busy, Served, Pending, WorkerSleep
<1>4. ServedWorkers' = ServedWorkers
    BY DEF TypeOK, MainInv, WorkersInv, InCall, Waiting, Served, ServedWorkers, WorkerSleep
<1>5. CountInv'
    BY <1>4 DEF CountInv, InCall, WorkerSleep
<1>6. RowsInv'
    BY DEF TypeOK, MainInv, WorkersInv, RowsInv, InCall, Applied, Waiting, Served, Worker, InSlice, RowsPerThread, WorkerSleep
<1> QED BY <1>1, <1>2, <1>3, <1>5, <1>6

(* A worker wakes up. *)
LEMMA WorkerSpuriousKeeps ==
    ASSUME IInv, NEW w \in Worker, WorkerSpurious(w)
    PROVE  IInv'
<1> USE DEF IInv
<1>1. TypeOK'
    BY NThreadsAssumption DEF TypeOK, WorkerSpurious
<1>2. MainInv'
    BY NThreadsAssumption, CtxAssumption DEF TypeOK, MainInv, InCall, WorkerSpurious
<1>3. WorkersInv'
    BY NThreadsAssumption DEF TypeOK, MainInv, WorkersInv, InCall, Waiting, Busy, Served, Pending, WorkerSpurious
<1>4. ServedWorkers' = ServedWorkers
    BY DEF TypeOK, MainInv, WorkersInv, InCall, Waiting, Served, ServedWorkers, WorkerSpurious
<1>5. CountInv'
    BY <1>4 DEF CountInv, InCall, WorkerSpurious
<1>6. RowsInv'
    BY DEF TypeOK, MainInv, WorkersInv, RowsInv, InCall, Applied, Waiting, Served, Worker, InSlice, RowsPerThread, WorkerSpurious
<1> QED BY <1>1, <1>2, <1>3, <1>5, <1>6

(* A pending worker takes the job. *)
LEMMA WorkerTakeKeeps ==
    ASSUME IInv, NEW w \in Worker, WorkerTake(w)
    PROVE  IInv'
<1> USE DEF IInv
<1>1. TypeOK'
    BY NThreadsAssumption DEF TypeOK, WorkerTake
<1>2. MainInv'
    BY NThreadsAssumption, CtxAssumption DEF TypeOK, MainInv, InCall, WorkerTake
<1>3. WorkersInv'
    BY NThreadsAssumption DEF TypeOK, MainInv, WorkersInv, InCall, Waiting, Busy, Served, Pending, WorkerTake
<1>4. ServedWorkers' = ServedWorkers
    BY DEF TypeOK, MainInv, WorkersInv, InCall, Waiting, Served, ServedWorkers, WorkerTake
<1>5. CountInv'
    BY <1>4 DEF CountInv, InCall, WorkerTake
<1>6. RowsInv'
    BY DEF TypeOK, MainInv, WorkersInv, RowsInv, InCall, Applied, Waiting, Served, Worker, InSlice, RowsPerThread, WorkerTake
<1> QED BY <1>1, <1>2, <1>3, <1>5, <1>6

(* A worker leaves on shutdown. *)
LEMMA WorkerExitKeeps ==
    ASSUME IInv, NEW w \in Worker, WorkerExit(w)
    PROVE  IInv'
<1> USE DEF IInv
<1>1. TypeOK'
    BY NThreadsAssumption DEF TypeOK, WorkerExit
<1>2. MainInv'
    BY NThreadsAssumption, CtxAssumption DEF TypeOK, MainInv, InCall, WorkerExit
<1>3. WorkersInv'
    BY NThreadsAssumption DEF TypeOK, MainInv, WorkersInv, InCall, Waiting, Busy, Served, Pending, WorkerExit
<1>4. ~InCall'
    BY DEF MainInv, InCall, WorkerExit
<1>5. CountInv'
    BY <1>4 DEF CountInv
<1>6. RowsInv'
    BY <1>4 DEF RowsInv
<1> QED BY <1>1, <1>2, <1>3, <1>5, <1>6

(* A worker applies its slice. *)
LEMMA WorkerRunKeeps ==
    ASSUME IInv, NEW w \in Worker, WorkerRun(w)
    PROVE  IInv'
<1> USE DEF IInv
<1>0. w \in 0..(NThreads - 1) /\ w # 0
    BY NThreadsAssumption DEF Worker
<1>7. \A t \in 0..(NThreads - 1) : t # w => (Applied(t)' <=> Applied(t))
    BY DEF TypeOK, Applied, Served, Waiting, WorkerRun
<1>8. InCall /\ local[w] = job
    BY DEF WorkersInv, Busy, WorkerRun
<1>9. ~Applied(w) /\ Applied(w)' /\ Apply(w, job.rows) /\ job' = job
    BY <1>0, <1>8 DEF TypeOK, Applied, Served, Waiting, WorkerRun
<1>6. runs' \in [Row -> Nat] /\ RowsInv'
    BY <1>0, <1>7, <1>8, <1>9, ApplyKeepsRows
<1>1. TypeOK'
    BY <1>6 DEF TypeOK, WorkerRun
<1>2. MainInv'
    BY NThreadsAssumption, CtxAssumption DEF TypeOK, MainInv, InCall, WorkerRun
<1>3. WorkersInv'
    BY NThreadsAssumption DEF TypeOK, MainInv, WorkersInv, InCall, Waiting, Busy, Served, Pending, WorkerRun
<1>4. ServedWorkers' = ServedWorkers
    BY DEF TypeOK, MainInv, WorkersInv, InCall, Waiting, Served, ServedWorkers, WorkerRun
<1>5. CountInv'
    BY <1>4 DEF CountInv, InCall, WorkerRun
<1> QED BY <1>1, <1>2, <1>3, <1>5, <1>6

(* A worker reports: one more is served. *)
LEMMA WorkerFinishKeeps ==
    ASSUME IInv, NEW w \in Worker, WorkerFinish(w)
    PROVE  IInv'
<1> USE DEF IInv
<1>0. InCall /\ seen[w] = generation /\ w \notin ServedWorkers
    BY DEF WorkersInv, Busy, WorkerFinish, ServedWorkers, Served, Waiting
<1>4. ServedWorkers' = ServedWorkers \cup {w}
    BY <1>0 DEF TypeOK, ServedWorkers, Served, Waiting, WorkerFinish
<1>7. Cardinality(ServedWorkers') = done + 1
    BY <1>0, <1>4, CountingServed, FS_AddElement DEF CountInv
<1>8. done + 1 <= NWorkers
    <2>1. ServedWorkers \cup {w} \in SUBSET Worker
        BY DEF ServedWorkers
    <2> QED BY <1>4, <1>7, <2>1, CountingServed, FS_Subset
<1>1. TypeOK'
    BY <1>8 DEF TypeOK, WorkerFinish
<1>2. MainInv'
    BY <1>0, NThreadsAssumption, CtxAssumption DEF TypeOK, MainInv, InCall, WorkerFinish
<1>3. WorkersInv'
    BY <1>0, NThreadsAssumption DEF TypeOK, MainInv, WorkersInv, InCall, Waiting, Busy, Served, Pending, WorkerFinish
<1>5. CountInv'
    BY <1>7 DEF CountInv, WorkerFinish
<1>9. \A t \in 0..(NThreads - 1) : Applied(t)' <=> Applied(t)
    BY <1>0, NThreadsAssumption DEF TypeOK, Applied, Served, Waiting, WorkerFinish, Worker, InCall
<1>6. RowsInv'
    BY <1>0, <1>9 DEF RowsInv, WorkerFinish, InSlice, RowsPerThread
<1> QED BY <1>1, <1>2, <1>3, <1>5, <1>6

(* Stuttering changes nothing. *)
LEMMA StutterKeeps ==
    ASSUME IInv, UNCHANGED vars
    PROVE  IInv'
BY DEF IInv, vars, TypeOK, MainInv, WorkersInv, CountInv, RowsInv, InCall, Waiting, Busy,
       Served, Pending, ServedWorkers, Applied, InSlice, RowsPerThread

LEMMA NextIInv == IInv /\ [Next]_vars => IInv'
BY ThreadsInitKeeps, ShutdownKeeps, MainSpuriousKeeps, CallSerialKeeps, PostKeeps, MainRunKeeps, MainSleepKeeps, MainReturnKeeps, JoinedKeeps, WorkerSleepKeeps, WorkerSpuriousKeeps, WorkerExitKeeps, WorkerTakeKeeps, WorkerRunKeeps, WorkerFinishKeeps, StutterKeeps
   DEF Next, MainStep, WorkerStep

-----------------------------------------------------------------------------
(* The invariant holds in every reachable state. *)
THEOREM Invariance == Spec => []IInv
BY InitIInv, NextIInv, PTL DEF Spec

(* Type correctness; in particular done never exceeds n_workers, so that   *)
(* the barrier's counter never runs ahead of the job it belongs to.        *)
THEOREM TypeCorrectness == Spec => []TypeOK
<1>1. IInv => TypeOK
    BY DEF IInv
<1> QED BY <1>1, Invariance, PTL

(* No worker ever runs a kernel whose caller has returned: the stack frame *)
(* that ctx points to is live, for any number of threads and for a         *)
(* generation counter of any width, one bit included.                      *)
THEOREM FrameSafety == Spec => []FrameIsLive
<1>1. IInv => FrameIsLive
    BY DEF IInv, MainInv, WorkersInv, Busy, FrameIsLive
<1> QED BY <1>1, Invariance, PTL

(* A call that may return has applied fn to each of its rows exactly once. *)
THEOREM ExactlyOnce == Spec => []EveryRowOnce
<1>1. IInv => EveryRowOnce
    <2> SUFFICES ASSUME IInv, mainPc = "wait", done = NWorkers, NEW r \in Row
                 PROVE  runs[r] = IF r < job.rows THEN 1 ELSE 0
        BY DEF EveryRowOnce
    <2>1. \A w \in Worker : Served(w)
        BY BarrierMeansServed, NThreadsAssumption DEF NWorkers
    <2> QED BY <2>1, AllRowsApplied
<1> QED BY <1>1, Invariance, PTL
=============================================================================
