------------------------------- MODULE Server -------------------------------
(***************************************************************************)
(* The life of a process (internal/server/server.go, cmd/main.go): New     *)
(* migrates and loads the verifier, Start runs the jobs and serves until   *)
(* a signal, then drains the requests, stops the workers and closes the    *)
(* pool, each wait with a time limit.  Replicas share the database, where  *)
(* they meet in Migrate.                                                   *)
(***************************************************************************)
EXTENDS Migrate

CONSTANTS
    Job,
    MaxInFlight    \* bound on concurrent requests of a replica

ASSUME ServerAssumption ==
    /\ Job # {}
    /\ MaxInFlight \in Nat

VARIABLES
    loop, stopping,
    inFlight,   \* inFlight[r]: requests being handled
    pool,       \* pool[r]: "open" or "closed"
    verifier    \* verifier[r]: the signed-in routes are mounted

INSTANCE Runner WITH Process <- Replica

runnerVars == <<loop, stopping>>
serverVars == <<inFlight, pool, verifier>>
vars == <<migrateVars, runnerVars, serverVars>>

Up == {"serving", "draining", "waiting", "closing", "closed"}

TypeOK ==
    /\ phase \in [Replica -> {"down", "keys"} \cup Migrating \cup Up]
    /\ MigrateTypeOK
    /\ RunnerTypeOK
    /\ inFlight \in [Replica -> 0 .. MaxInFlight]
    /\ pool \in [Replica -> {"open", "closed"}]
    /\ verifier \in [Replica -> BOOLEAN]
    /\ \A r \in Replica :
          /\ phase[r] \notin Up => AllOff(r) /\ inFlight[r] = 0
          /\ phase[r] \in Up => ~ AllOff(r)

Init ==
    /\ MigrateInit
    /\ RunnerInit
    /\ inFlight = [r \in Replica |-> 0]
    /\ pool = [r \in Replica |-> "closed"]
    /\ verifier = [r \in Replica |-> FALSE]

-----------------------------------------------------------------------------

(* The process ends: requests, goroutines and database sessions with it.   *)
Exit(r) ==
    /\ Enter(r, "down")
    /\ lock' = Unlocked(r)
    /\ KillJobs(r)
    /\ inFlight' = [inFlight EXCEPT ![r] = 0]
    /\ pool' = [pool EXCEPT ![r] = "closed"]
    /\ UNCHANGED <<schema, versions, seen, blame, verifier>>

Crash(r) ==
    /\ phase[r] # "down"
    /\ Fault
    /\ Exit(r)

(* Mutant: the jobs start with the connection.                             *)
BootWithJobs(r) ==
    /\ phase[r] = "down"
    /\ NoFault
    /\ Enter(r, "lock")
    /\ StartJobs(r)
    /\ pool' = [pool EXCEPT ![r] = "open"]
    /\ UNCHANGED <<dbVars, seen, blame, inFlight, verifier>>

(* pgxpool.New and Ping.                                                   *)
Boot(r) ==
    /\ phase[r] = "down"
    /\ \/ /\ NoFault
          /\ Enter(r, "lock")
          /\ pool' = [pool EXCEPT ![r] = "open"]
          /\ UNCHANGED blame
       \/ /\ Fault
          /\ blame' = [blame EXCEPT ![r] = "fault"]
          /\ UNCHANGED <<phase, pool>>
    /\ UNCHANGED <<dbVars, seen, runnerVars, inFlight, verifier>>

(* A failed boot ends the process: the pool is gone as well.               *)
BootStep(r) ==
    /\ Lock(r) \/ MigrateStep(r)
    /\ pool' = [pool EXCEPT ![r] = IF phase'[r] = "down" THEN "closed" ELSE @]
    /\ UNCHANGED <<runnerVars, inFlight, verifier>>

(* The key set is fetched and checked; without it the signed-in routes     *)
(* stay unmounted and the boot goes on.                                    *)
NewVerifier(r) ==
    \E loaded \in BOOLEAN : verifier' = [verifier EXCEPT ![r] = loaded]

(* The end of New, then Start: the jobs start and the port opens.          *)
Start(r) ==
    /\ phase[r] = "keys"
    /\ NewVerifier(r)
    /\ StartJobs(r)
    /\ Enter(r, "serving")
    /\ UNCHANGED <<dbVars, seen, blame, faults, inFlight, pool>>

(* ListenAndServe fails: Start returns its error and main exits.           *)
ListenError(r) ==
    /\ phase[r] = "serving"
    /\ Fault
    /\ Exit(r)

Jobs(r, j) ==
    /\ LoopStep(r, j) \/ Tick(r, j) \/ Stop(r, j)
    /\ UNCHANGED <<migrateVars, serverVars>>

Request(r) ==
    /\ phase[r] = "serving"
    /\ inFlight[r] < MaxInFlight
    /\ inFlight' = [inFlight EXCEPT ![r] = @ + 1]
    /\ UNCHANGED <<migrateVars, runnerVars, pool, verifier>>

Respond(r) ==
    /\ inFlight[r] > 0
    /\ inFlight' = [inFlight EXCEPT ![r] = @ - 1]
    /\ UNCHANGED <<migrateVars, runnerVars, pool, verifier>>

-----------------------------------------------------------------------------

Signal(r) ==
    /\ phase[r] = "serving"
    /\ Enter(r, "draining")
    /\ UNCHANGED <<dbVars, seen, blame, faults, runnerVars, serverVars>>

StopWorkers(r) ==
    /\ stopping' = [stopping EXCEPT ![r] = TRUE]
    /\ Enter(r, "waiting")
    /\ UNCHANGED <<dbVars, seen, blame, faults, loop, serverVars>>

(* httpServer.Shutdown returns once no request is left.                    *)
Drained(r) ==
    /\ phase[r] = "draining"
    /\ inFlight[r] = 0
    /\ StopWorkers(r)

(* Mutant: the error of Shutdown is logged and the shutdown goes on.       *)
DrainGivesUp(r) ==
    /\ phase[r] = "draining"
    /\ inFlight[r] > 0
    /\ StopWorkers(r)

(* Mutant: Shutdown without a deadline.                                    *)
DrainForever(r) == FALSE

(* Shutdown gives up: Start returns the error and main exits at once.      *)
DrainTimeout(r) ==
    /\ phase[r] = "draining"
    /\ inFlight[r] > 0
    /\ NoFault
    /\ Exit(r)

(* The wait for the workers, which ends with them or with its time limit.  *)
WorkersWaited(r) ==
    /\ phase[r] = "waiting"
    /\ Enter(r, "closing")
    /\ UNCHANGED <<dbVars, seen, blame, faults, runnerVars, serverVars>>

(* A call of a job gives its connection back when its context is           *)
(* cancelled, so Close does not wait for jobs.                             *)
ClosePool(r) ==
    /\ phase[r] = "closing"
    /\ pool' = [pool EXCEPT ![r] = "closed"]
    /\ Enter(r, "closed")
    /\ UNCHANGED <<dbVars, seen, blame, faults, runnerVars, inFlight, verifier>>

Stopped(r) ==
    /\ phase[r] = "closed"
    /\ NoFault
    /\ Exit(r)

Shutdown(r) ==
    \/ Drained(r) \/ DrainTimeout(r)
    \/ WorkersWaited(r) \/ ClosePool(r) \/ Stopped(r)

Next ==
    \E r \in Replica :
        \/ Boot(r) \/ BootStep(r) \/ Start(r) \/ ListenError(r) \/ Crash(r)
        \/ \E j \in Job : Jobs(r, j)
        \/ Request(r) \/ Respond(r)
        \/ Signal(r) \/ Shutdown(r)

Spec == Init /\ [][Next]_vars

(* A booting process goes on; the queue of the advisory lock is first come *)
(* first served.  A run ends by its timeout and a ticker ticks.  The steps *)
(* of a shutdown have time limits.  No request has to end.                 *)
FairSpec ==
    /\ Spec
    /\ \A r \in Replica :
          /\ SF_vars(BootStep(r)) /\ WF_vars(Start(r))
          /\ WF_vars(Shutdown(r))
          /\ \A j \in Job : WF_vars(Jobs(r, j))

-----------------------------------------------------------------------------

(* "each is applied exactly once, in order": whoever boots at the same     *)
(* time, with more or fewer files, and whatever fails or dies on the way,  *)
(* the schema is a prefix of the files and the table says which.           *)
AppliedInOrder ==
    /\ schema = [i \in 1 .. Len(schema) |-> i]
    /\ versions = 1 .. Len(schema)

(* A boot never fails because another replica boots, only because a call   *)
(* to the database does: no two replicas apply the same file.              *)
BootUncontended == \A r \in Replica : blame[r] # "conflict"

(* A replica that serves has every migration it was built with, also when  *)
(* an earlier boot died half way or another replica went first.            *)
ServesMigrated ==
    \A r \in Replica : phase[r] \in Up => 1 .. Files[r] \subseteq versions

(* The database pool is open as long as a request is being handled, also   *)
(* when the drain runs out of time.                                        *)
PoolOutlivesRequests == \A r \in Replica : inFlight[r] > 0 => pool[r] = "open"

(* A boot ends, one way or the other: no replica waits for ever for the    *)
(* advisory lock of one that serves, failed or died, and none is held up   *)
(* by a key set it cannot load.                                            *)
BootEnds ==
    \A r \in Replica :
        phase[r] \in Migrating \cup {"keys"} ~> phase[r] \in {"serving", "down"}

(* "one job misbehaving never takes down the runner": while a replica      *)
(* serves, each job runs again and again, after errors and panics too.     *)
JobsGoOn ==
    \A r \in Replica, j \in Job :
        phase[r] = "serving" ~> (loop[r][j] = "run" \/ phase[r] # "serving")

(* A process told to stop stops, also when a request or a job hangs.       *)
ShutdownEnds ==
    \A r \in Replica : phase[r] = "draining" ~> phase[r] = "down"
=============================================================================
