------------------------------- MODULE Runner -------------------------------
(***************************************************************************)
(* The job runner of each replica (internal/worker/worker.go): one         *)
(* goroutine per job that runs it at once and then on every tick, until    *)
(* the context is cancelled.  What a run does is Archive's subject; here   *)
(* it ends well, with an error, by a panic or by its timeout.              *)
(***************************************************************************)
CONSTANTS
    Process,    \* the processes that run jobs
    Job

VARIABLES
    loop,       \* loop[r][j]: "off", "run", "record", "wait" or "stopped"
    stopping    \* stopping[r]: workerCtx is cancelled

RunnerTypeOK ==
    /\ loop \in [Process -> [Job -> {"off", "run", "record", "wait", "stopped"}]]
    /\ stopping \in [Process -> BOOLEAN]

RunnerInit ==
    /\ loop = [r \in Process |-> [j \in Job |-> "off"]]
    /\ stopping = [r \in Process |-> FALSE]

-----------------------------------------------------------------------------

SetLoop(r, j, s) ==
    /\ loop' = [loop EXCEPT ![r][j] = s]
    /\ UNCHANGED stopping

StartJobs(r) ==
    /\ loop' = [loop EXCEPT ![r] = [j \in Job |-> "run"]]
    /\ stopping' = [stopping EXCEPT ![r] = FALSE]

(* The process is gone, and its goroutines with it.                        *)
KillJobs(r) ==
    /\ loop' = [loop EXCEPT ![r] = [j \in Job |-> "off"]]
    /\ stopping' = [stopping EXCEPT ![r] = FALSE]

(* Mutant: the panic is recovered in loop and ends it.                     *)
RunEndsLoop(r, j, panic) ==
    /\ loop[r][j] = "run"
    /\ SetLoop(r, j, IF panic THEN "stopped" ELSE "record")

(* safeRun turns a panic into an error; an error is logged.  Either way    *)
(* the run is recorded.                                                    *)
RunEnds(r, j, panic) ==
    /\ loop[r][j] = "run"
    /\ SetLoop(r, j, "record")

(* record uses workerCtx; its failure is logged and changes nothing.       *)
RecordRun(r, j) ==
    /\ loop[r][j] = "record"
    /\ SetLoop(r, j, "wait")

(* With the tick due and the context cancelled select takes either.        *)
Tick(r, j) ==
    /\ loop[r][j] = "wait"
    /\ SetLoop(r, j, "run")

Stop(r, j) ==
    /\ loop[r][j] = "wait"
    /\ stopping[r]
    /\ SetLoop(r, j, "stopped")

LoopStep(r, j) ==
    \/ \E panic \in BOOLEAN : RunEnds(r, j, panic)
    \/ RecordRun(r, j)

AllOff(r) == \A j \in Job : loop[r][j] = "off"
=============================================================================
