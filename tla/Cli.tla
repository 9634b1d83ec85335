-------------------------------- MODULE Cli --------------------------------
(***************************************************************************)
(* The ds4 program from main to exit (ds4_cli.c, ds4.c): the engine opens  *)
(* under an instance lock, one flock for all ds4 processes, maps the model *)
(* and initializes the backend; then the interactive or the one-shot       *)
(* program runs; then the engine is closed.  Any process may be killed at  *)
(* any point, and exit() in the middle gives up the lock (an atexit        *)
(* handler) while the model is still mapped.  --dump-tokens, which maps    *)
(* the model's metadata without an engine, is left out.                    *)
(*                                                                         *)
(* The kernel's part, flock and the release of a dead process's files, is  *)
(* in Lock and Killed.  Only the process that runs has a conversation, so  *)
(* one set of Repl's variables stands for all of them.                     *)
(***************************************************************************)
EXTENDS Repl

CONSTANTS
    Proc,      \* ds4 processes
    Nobody

ASSUME ProcAssumption == Nobody \notin Proc

VARIABLES
    proc,      \* where each process is
    lock,      \* who holds the flock
    pidfile    \* the pid in the lock file

vars == <<proc, lock, pidfile, repl, session>>
engine == <<proc, lock, pidfile>>
idle == <<repl, session>>

Places == {"off", "opened", "locked", "cut", "held", "mapped", "running", "closing",
           "unmapped", "exiting", "gone"}

Init ==
    /\ proc = [p \in Proc |-> "off"] /\ lock = Nobody /\ pidfile = Nobody
    /\ InitRepl

Go(p, from, to) == proc[p] = from /\ proc' = [proc EXCEPT ![p] = to]

(* What a conversation leaves when its process ends.                       *)
Forgotten ==
    /\ task' = "none" /\ at' = "ended" /\ think' = "none"
    /\ transcript' = <<>> /\ prefixTokens' = 0
    /\ rollback' = 0 /\ generated' = 0 /\ limit' = 0
    /\ interrupted' = FALSE /\ system' = <<>> /\ turns' = <<>> /\ hit' = FALSE
    /\ NoSession /\ UNCHANGED config

-----------------------------------------------------------------------------
(* ds4_acquire_instance_lock: open, lock, empty, write the pid.            *)
OpenLockFile(p) ==
    /\ Go(p, "off", "opened")
    /\ UNCHANGED <<lock, pidfile, idle>>

Lock(p) ==
    /\ lock = Nobody
    /\ Go(p, "opened", "locked")
    /\ lock' = p
    /\ UNCHANGED <<pidfile, idle>>

Refused(p) ==
    /\ lock # Nobody
    /\ Go(p, "opened", "off")
    /\ UNCHANGED <<lock, pidfile, idle>>

Truncate(p) ==
    /\ Go(p, "locked", "cut")
    /\ pidfile' = Nobody
    /\ UNCHANGED <<lock, idle>>

TruncateFails(p) ==
    /\ Go(p, "locked", "off")
    /\ lock' = Nobody
    /\ UNCHANGED <<pidfile, idle>>

WritePid(p) ==
    /\ Go(p, "cut", "held")
    /\ pidfile' = p
    /\ UNCHANGED <<lock, idle>>

-----------------------------------------------------------------------------
(* The rest of ds4_engine_open: the model is mapped and bound, or the      *)
(* process exits; the backend starts, or the engine is closed.             *)
Map(p) ==
    /\ Go(p, "held", "mapped")
    /\ UNCHANGED <<lock, pidfile, idle>>

MapFails(p) ==
    /\ proc[p] \in {"held", "mapped"}
    /\ proc' = [proc EXCEPT ![p] = "exiting"]
    /\ UNCHANGED <<lock, pidfile, idle>>

Run(p) ==
    /\ Go(p, "mapped", "running")
    /\ \E mode \in ThinkModes, sys \in Systems, c \in Configs :
        \/ StartRepl(mode, sys, c)
        \/ \E question \in Question : StartOnce(mode, sys, c, question)
    /\ UNCHANGED <<lock, pidfile>>

BackendFails(p) ==
    /\ Go(p, "mapped", "closing")
    /\ UNCHANGED <<lock, pidfile, idle>>

Converse(p) ==
    /\ proc[p] = "running" /\ at # "ended"
    /\ ReplStep
    /\ UNCHANGED engine

Returned(p) ==
    /\ at = "ended"
    /\ Go(p, "running", "closing")
    /\ Forgotten
    /\ UNCHANGED <<lock, pidfile>>

(* A context size that is no positive number, or memory that runs out:     *)
(* exit() wherever the conversation is.                                    *)
Exit(p) ==
    /\ Go(p, "running", "exiting")
    /\ Forgotten
    /\ UNCHANGED <<lock, pidfile>>

-----------------------------------------------------------------------------
(* Mutant: the lock is released first.                                     *)
UnmapUnlocked(p) ==
    /\ Go(p, "closing", "unmapped")
    /\ lock' = Nobody
    /\ UNCHANGED <<pidfile, idle>>

(* ds4_engine_close unmaps the model before it gives up the lock.          *)
Unmap(p) ==
    /\ Go(p, "closing", "unmapped")
    /\ UNCHANGED <<lock, pidfile, idle>>

Release(p) ==
    /\ Go(p, "unmapped", "off")
    /\ lock' = Nobody
    /\ UNCHANGED <<pidfile, idle>>

(* The atexit handler, and the end of the process behind it.               *)
ExitHandler(p) ==
    /\ Go(p, "exiting", "gone")
    /\ lock' = Nobody
    /\ UNCHANGED <<pidfile, idle>>

Gone(p) ==
    /\ Go(p, "gone", "off")
    /\ UNCHANGED <<lock, pidfile, idle>>

Killed(p) ==
    /\ proc[p] # "off"
    /\ proc' = [proc EXCEPT ![p] = "off"]
    /\ lock' = IF lock = p THEN Nobody ELSE lock
    /\ IF proc[p] = "running" THEN Forgotten ELSE UNCHANGED idle
    /\ UNCHANGED pidfile

Step(p) ==
    \/ OpenLockFile(p) \/ Lock(p) \/ Refused(p) \/ Truncate(p) \/ TruncateFails(p) \/ WritePid(p)
    \/ Map(p) \/ MapFails(p) \/ Run(p) \/ BackendFails(p) \/ Converse(p) \/ Returned(p) \/ Exit(p)
    \/ Unmap(p) \/ Release(p) \/ ExitHandler(p) \/ Gone(p) \/ Killed(p)

Next == \E p \in Proc : Step(p)

Spec == Init /\ [][Next]_vars

-----------------------------------------------------------------------------
HasModel(p) == proc[p] \in {"mapped", "running", "closing"}

(* Two processes never have the model mapped at once, a process that is    *)
(* already past its exit handler aside, and from the moment the pid is     *)
(* written until the engine is closed the lock file names the one that     *)
(* has it: neither a refused process nor a late one can disturb it.        *)
OneEngine ==
    /\ \A p, q \in Proc : (HasModel(p) /\ HasModel(q)) => p = q
    /\ \A p \in Proc : (HasModel(p) \/ proc[p] = "held") => lock = p /\ pidfile = p
=============================================================================
