---------------------------- MODULE ServerProofs ----------------------------
(***************************************************************************)
(* Theorems about Server for any number of replicas, of any releases, with *)
(* any number of failures: what the boots leave in the database, and the   *)
(* pool during a shutdown.                                                 *)
(***************************************************************************)
EXTENDS Server, TLAPS

(* What the boots rely on.  A replica that reads or applies holds the lock *)
(* and so is alone; the versions it believes applied are then the ones     *)
(* that are, and the next file is the one after the last.                  *)
MigrateInv ==
    /\ phase \in [Replica -> {"down", "keys"} \cup Migrating \cup Up]
    /\ seen \in [Replica -> SUBSET Nat]
    /\ blame \in [Replica -> {"none", "fault", "conflict"}]
    /\ schema \in Seq(Nat)
    /\ AppliedInOrder
    /\ BootUncontended
    /\ \A r \in Replica :
          /\ phase[r] \in {"read", "apply"} => lock = r
          /\ phase[r] = "apply" => seen[r] = versions
          /\ phase[r] \in Up \cup {"keys"} => 1 .. Files[r] \subseteq versions

(* The next file of a replica that applies is the one after the last.      *)
LEMMA NextIsNew ==
    ASSUME MigrateInv, NEW r \in Replica, phase[r] = "apply", Pending(r) # {}
    PROVE  NextFile(r) = Len(schema) + 1 /\ NextFile(r) \notin Applied
<1>1. Len(schema) \in Nat /\ Files[r] \in Nat
  BY MigrateAssumption DEF MigrateInv
<1>2. Pending(r) = (1 .. Files[r]) \ (1 .. Len(schema))
  BY DEF MigrateInv, AppliedInOrder, Pending
<1>3. Len(schema) + 1 \in Pending(r) /\ \A x \in Pending(r) : Len(schema) + 1 <= x
  BY <1>1, <1>2
<1>4. Pending(r) \subseteq Nat
  BY <1>1, <1>2
<1>5. NextFile(r) = Len(schema) + 1
  BY <1>1, <1>3, <1>4 DEF NextFile, Min
<1>6. Applied = 1 .. Len(schema)
  BY <1>1 DEF MigrateInv, AppliedInOrder, Applied
<1> QED
  BY <1>1, <1>5, <1>6

(* Committing the file after the last one keeps the order.                 *)
LEMMA CommitInOrder ==
    ASSUME schema \in Seq(Nat), AppliedInOrder, Commit(Len(schema) + 1)
    PROVE  /\ schema' \in Seq(Nat) /\ AppliedInOrder'
           /\ versions' = versions \cup {Len(schema) + 1}
<1>1. Len(schema) \in Nat
  OBVIOUS
<1>2. schema' = Append(schema, Len(schema) + 1) /\ Len(schema') = Len(schema) + 1
  BY DEF Commit
<1>3. schema' \in Seq(Nat)
  BY <1>1, <1>2
<1>4. versions' = 1 .. Len(schema')
  BY <1>1, <1>2 DEF AppliedInOrder, Commit
<1>5. \A i \in 1 .. Len(schema') : schema'[i] = i
  BY <1>1, <1>2 DEF AppliedInOrder
<1>6. schema' = [i \in 1 .. Len(schema') |-> i]
  BY <1>3, <1>5
<1> QED
  BY <1>3, <1>4, <1>6 DEF AppliedInOrder, Commit

-----------------------------------------------------------------------------

Phase == {"down", "keys"} \cup Migrating \cup Up

(* A replica that leaves for a phase without lock, or stays where it is,   *)
(* disturbs no one: it gives back its own lock only, and a file it may     *)
(* have committed was committed while no other replica was applying.       *)
LEMMA LeavePhase ==
    ASSUME MigrateInv, NEW r \in Replica, NEW p \in Phase \ {"read", "apply"},
           Enter(r, p), lock' \in {lock, Unlocked(r)},
           p \in Up \cup {"keys"} => 1 .. Files[r] \subseteq versions,
           schema' \in Seq(Nat), AppliedInOrder', versions \subseteq versions',
           \A q \in Replica \ {r} : phase[q] = "apply" => versions' = versions,
           blame' \in {blame, [blame EXCEPT ![r] = "fault"]},
           UNCHANGED seen
    PROVE  MigrateInv'
<1>1. phase' = [phase EXCEPT ![r] = p] /\ phase' \in [Replica -> Phase]
  BY DEF MigrateInv, Enter, Phase
<1>2. BootUncontended' /\ blame' \in [Replica -> {"none", "fault", "conflict"}]
  BY DEF MigrateInv, BootUncontended
<1>3. ASSUME NEW q \in Replica
      PROVE  /\ phase'[q] \in {"read", "apply"} => lock' = q
             /\ phase'[q] = "apply" => seen'[q] = versions'
             /\ phase'[q] \in Up \cup {"keys"} => 1 .. Files[q] \subseteq versions'
  <2>1. CASE q = r
    BY <1>1, <2>1 DEF MigrateInv
  <2>2. CASE q # r
    <3>1. phase'[q] = phase[q]
      BY <1>1, <2>2 DEF MigrateInv
    <3>2. lock = q => lock' = q
      BY <2>2 DEF Unlocked
    <3> QED
      BY <2>2, <3>1, <3>2 DEF MigrateInv
  <2> QED
    BY <2>1, <2>2
<1> QED
  BY <1>1, <1>2, <1>3 DEF MigrateInv, Phase

(* The same for a step that leaves the tables alone.                       *)
LEMMA LeaveTables ==
    ASSUME MigrateInv, NEW r \in Replica, NEW p \in Phase \ {"read", "apply"},
           Enter(r, p), lock' \in {lock, Unlocked(r)},
           p \in Up \cup {"keys"} => 1 .. Files[r] \subseteq versions,
           blame' \in {blame, [blame EXCEPT ![r] = "fault"]},
           UNCHANGED <<schema, versions, seen>>
    PROVE  MigrateInv'
<1>1. schema' \in Seq(Nat) /\ AppliedInOrder' /\ versions' = versions
  BY DEF MigrateInv, AppliedInOrder
<1> QED
  BY <1>1, LeavePhase

(* Acquiring the lock: it was free, so no one reads or applies.            *)
LEMMA LockStep ==
    ASSUME MigrateInv, NEW r \in Replica, Lock(r)
    PROVE  MigrateInv'
<1>1. CASE NoFault /\ lock = NoOne /\ lock' = r /\ Enter(r, "read")
           /\ UNCHANGED <<seen, blame, schema, versions>>
  <2>1. phase' = [phase EXCEPT ![r] = "read"]
    BY <1>1 DEF Enter
  <2>2. \A q \in Replica : phase[q] \notin {"read", "apply"}
    BY <1>1, MigrateAssumption DEF MigrateInv
  <2>3. AppliedInOrder' /\ BootUncontended'
    BY <1>1 DEF MigrateInv, AppliedInOrder, BootUncontended
  <2> QED
    BY <1>1, <2>1, <2>2, <2>3 DEF MigrateInv, Migrating, Up
<1>2. CASE Fault /\ BootFails(r, "fault") /\ UNCHANGED <<schema, versions>>
  BY <1>2, LeaveTables DEF BootFails, Phase, Up
<1> QED
  BY <1>1, <1>2 DEF Lock

(* Reading the table: what r has seen is what there is.                    *)
LEMMA ReadStep ==
    ASSUME MigrateInv, NEW r \in Replica, ReadApplied(r)
    PROVE  MigrateInv'
<1>1. CASE /\ phase[r] = "read" /\ seen' = [seen EXCEPT ![r] = versions]
           /\ Enter(r, "apply") /\ UNCHANGED <<lock, blame, schema, versions>>
  <2>1. phase' = [phase EXCEPT ![r] = "apply"]
    BY <1>1 DEF Enter
  <2>2. versions \subseteq Nat
    BY DEF MigrateInv, AppliedInOrder
  <2>3. AppliedInOrder' /\ BootUncontended'
    BY <1>1 DEF MigrateInv, AppliedInOrder, BootUncontended
  <2> QED
    BY <1>1, <2>1, <2>2, <2>3 DEF MigrateInv, Migrating, Up
<1>2. CASE Fault /\ BootFails(r, "fault") /\ UNCHANGED <<schema, versions>>
  BY <1>2, LeaveTables DEF BootFails, Phase, Up
<1> QED
  BY <1>1, <1>2 DEF ReadApplied

(* Applying a file, with or without an answer: the next one, and only r    *)
(* is applying.                                                            *)
LEMMA ApplyStep ==
    ASSUME MigrateInv, NEW r \in Replica, ApplyFile(r)
    PROVE  MigrateInv'
<1> DEFINE f == NextFile(r)
<1>1. f = Len(schema) + 1 /\ f \notin Applied /\ f \in Nat
  BY NextIsNew DEF ApplyFile, MigrateInv
<1>2. phase[r] = "apply" /\ \A q \in Replica \ {r} : phase[q] \notin {"read", "apply"}
  BY DEF ApplyFile, MigrateInv
<1>3. ASSUME Commit(f)
      PROVE  /\ schema' \in Seq(Nat) /\ AppliedInOrder'
             /\ versions' = versions \cup {f}
  BY <1>1, <1>3, CommitInOrder DEF MigrateInv
<1>4. CASE Commit(f) /\ seen' = [seen EXCEPT ![r] = @ \cup {f}]
           /\ UNCHANGED <<phase, lock, blame>>
  <2>1. BootUncontended' /\ seen' \in [Replica -> SUBSET Nat]
    BY <1>1, <1>4 DEF MigrateInv, BootUncontended
  <2>2. seen'[r] = versions'
    BY <1>2, <1>3, <1>4 DEF MigrateInv
  <2> QED
    BY <1>2, <1>3, <1>4, <2>1, <2>2 DEF MigrateInv
<1>5. CASE /\ BootFails(r, "fault")
           /\ UNCHANGED <<schema, versions>> \/ Commit(f)
  <2>1. CASE UNCHANGED <<schema, versions>>
    BY <1>5, <2>1, LeaveTables DEF BootFails, Phase, Up
  <2>2. CASE Commit(f)
    BY <1>2, <1>3, <1>5, <2>2, LeavePhase DEF BootFails, Phase, Up
  <2> QED
    BY <1>5, <2>1, <2>2
<1> QED
  BY <1>1, <1>4, <1>5 DEF ApplyFile

(* Leaving the loop: nothing is pending, so every file is there.           *)
LEMMA FinishStep ==
    ASSUME MigrateInv, NEW r \in Replica, FinishMigrations(r)
    PROVE  MigrateInv'
<1>1. 1 .. Files[r] \subseteq versions
  BY DEF FinishMigrations, Pending, MigrateInv
<1> QED
  BY <1>1, LeaveTables DEF FinishMigrations, Phase, Up

(* The migration invariant is inductive: one step per action of Next.      *)
LEMMA MigrateInvStep ==
    ASSUME MigrateInv, [Next]_vars
    PROVE  MigrateInv'
<1>1. ASSUME UNCHANGED <<phase, lock, schema, versions, seen, blame>>
      PROVE  MigrateInv'
  BY <1>1 DEF MigrateInv, AppliedInOrder, BootUncontended
<1>2. CASE UNCHANGED vars
  BY <1>1, <1>2 DEF vars, migrateVars
<1>3. ASSUME NEW r \in Replica, Exit(r)
      PROVE  MigrateInv'
  BY <1>3, LeaveTables DEF Exit, Phase, Up
<1>4. ASSUME NEW r \in Replica, Boot(r)
      PROVE  MigrateInv'
  <2>1. CASE Enter(r, "lock") /\ UNCHANGED <<blame, dbVars, seen>>
    BY <2>1, LeaveTables DEF dbVars, Phase, Up, Migrating
  <2>2. CASE /\ phase[r] = "down" /\ blame' = [blame EXCEPT ![r] = "fault"]
             /\ UNCHANGED <<phase, dbVars, seen>>
    <3>1. Enter(r, "down")
      BY <2>2 DEF Enter, MigrateInv
    <3> QED
      BY <2>2, <3>1, LeaveTables DEF dbVars, Phase, Up
  <2> QED
    BY <1>4, <2>1, <2>2 DEF Boot
<1>5. ASSUME NEW r \in Replica, BootStep(r)
      PROVE  MigrateInv'
  BY <1>5, LockStep, ReadStep, ApplyStep, FinishStep DEF BootStep, MigrateStep
<1>6. ASSUME NEW r \in Replica, Start(r)
      PROVE  MigrateInv'
  <2>1. 1 .. Files[r] \subseteq versions
    BY <1>6 DEF Start, MigrateInv
  <2> QED
    BY <1>6, <2>1, LeaveTables DEF Start, dbVars, Phase, Up
<1>7. ASSUME NEW r \in Replica, NEW p \in Up, phase[r] \in Up, Enter(r, p),
             UNCHANGED <<dbVars, seen, blame>>
      PROVE  MigrateInv'
  <2>1. 1 .. Files[r] \subseteq versions
    BY <1>7 DEF MigrateInv
  <2>2. p \in Phase \ {"read", "apply"}
    BY <1>7 DEF Phase, Up
  <2> QED
    BY <1>7, <2>1, <2>2, LeaveTables DEF dbVars
<1>8. ASSUME NEW r \in Replica, Signal(r) \/ Shutdown(r)
      PROVE  MigrateInv'
  <2>1. CASE Signal(r)
    BY <1>7, <2>1 DEF Signal, Up
  <2>2. CASE Drained(r)
    BY <1>7, <2>2 DEF Drained, StopWorkers, Up
  <2>3. CASE DrainTimeout(r) \/ Stopped(r)
    BY <1>3, <2>3 DEF DrainTimeout, Stopped
  <2>4. CASE WorkersWaited(r)
    BY <1>7, <2>4 DEF WorkersWaited, Up
  <2>5. CASE ClosePool(r)
    BY <1>7, <2>5 DEF ClosePool, Up
  <2> QED
    BY <1>8, <2>1, <2>2, <2>3, <2>4, <2>5 DEF Shutdown
<1>9. ASSUME NEW r \in Replica,
             (\E j \in Job : Jobs(r, j)) \/ Request(r) \/ Respond(r)
      PROVE  MigrateInv'
  BY <1>1, <1>9 DEF Jobs, Request, Respond, migrateVars
<1>10. ASSUME NEW r \in Replica, ListenError(r) \/ Crash(r)
       PROVE  MigrateInv'
  BY <1>3, <1>10 DEF ListenError, Crash
<1> QED
  BY <1>2, <1>4, <1>5, <1>6, <1>8, <1>9, <1>10 DEF Next

(* Whatever boots, dies and fails, every reachable state has the migration *)
(* invariant.                                                              *)
THEOREM MigrateInvariance == Spec => []MigrateInv
<1>1. Init => MigrateInv
  BY DEF Init, MigrateInit, MigrateInv, AppliedInOrder, BootUncontended, Up
<1> QED
  BY <1>1, MigrateInvStep, PTL DEF Spec

(* The schema is always a prefix of the files, and the table says which:   *)
(* migrate.Run applies each file once and in order.                        *)
THEOREM MigrationsInOrder == Spec => []AppliedInOrder
<1>1. MigrateInv => AppliedInOrder
  BY DEF MigrateInv
<1> QED
  BY <1>1, MigrateInvariance, PTL

(* No boot fails on a file another replica applied: the advisory lock      *)
(* keeps the versions a replica read true until it is done.                *)
THEOREM BootsUncontended == Spec => []BootUncontended
<1>1. MigrateInv => BootUncontended
  BY DEF MigrateInv
<1> QED
  BY <1>1, MigrateInvariance, PTL

(* A replica that serves, or is shutting down, has the whole schema of its *)
(* binary: server.New returns only after migrate.Run.                      *)
THEOREM ServersMigrated == Spec => []ServesMigrated
<1>1. MigrateInv => ServesMigrated
  BY DEF MigrateInv, ServesMigrated
<1> QED
  BY <1>1, MigrateInvariance, PTL

-----------------------------------------------------------------------------

(* Requests are handled while serving and draining only, and the pool is   *)
(* open from the boot to the end of the shutdown.                          *)
PoolInv ==
    /\ phase \in [Replica -> Phase]
    /\ inFlight \in [Replica -> Nat]
    /\ pool \in [Replica -> {"open", "closed"}]
    /\ \A r \in Replica :
          /\ inFlight[r] > 0 => phase[r] \in {"serving", "draining"}
          /\ phase[r] \notin {"down", "closed"} => pool[r] = "open"

(* The pool invariant is inductive.                                        *)
LEMMA PoolInvStep ==
    ASSUME PoolInv, [Next]_vars
    PROVE  PoolInv'
<1>1. ASSUME UNCHANGED <<phase, inFlight, pool>>
      PROVE  PoolInv'
  BY <1>1 DEF PoolInv
<1>2. CASE UNCHANGED vars
  BY <1>1, <1>2 DEF vars, migrateVars, serverVars
<1>3. ASSUME NEW r \in Replica, Exit(r)
      PROVE  PoolInv'
  BY <1>3 DEF Exit, Enter, PoolInv, Phase
<1>4. ASSUME NEW r \in Replica, Boot(r)
      PROVE  PoolInv'
  BY <1>4 DEF Boot, Enter, PoolInv, Phase, Migrating
<1>5. ASSUME NEW r \in Replica, BootStep(r)
      PROVE  PoolInv'
  <2>1. PICK p \in {"down", "read", "apply", "keys"} : Enter(r, p)
    <3>1. CASE UNCHANGED phase
      <4>1. phase[r] = "apply" /\ phase' = [phase EXCEPT ![r] = "apply"]
        BY <1>5, <3>1 DEF BootStep, Lock, MigrateStep, ReadApplied, ApplyFile,
                          FinishMigrations, BootFails, Enter, PoolInv
      <4> QED
        BY <4>1 DEF Enter
    <3>2. CASE ~ UNCHANGED phase
      BY <1>5, <3>2 DEF BootStep, Lock, MigrateStep, ReadApplied, ApplyFile,
                        FinishMigrations, BootFails
    <3> QED
      BY <3>1, <3>2
  <2>2. phase[r] \in Migrating
    BY <1>5 DEF BootStep, Lock, MigrateStep, ReadApplied, ApplyFile,
                FinishMigrations, Migrating
  <2>3. /\ pool' = [pool EXCEPT ![r] = IF phase'[r] = "down" THEN "closed" ELSE @]
        /\ UNCHANGED inFlight
    BY <1>5 DEF BootStep
  <2>4. inFlight[r] = 0 /\ pool[r] = "open"
    BY <2>2 DEF PoolInv, Migrating
  <2> QED
    BY <2>1, <2>3, <2>4 DEF Enter, PoolInv, Phase, Migrating
<1>6. ASSUME NEW r \in Replica, Start(r) \/ Signal(r) \/ Drained(r)
                                 \/ WorkersWaited(r) \/ ClosePool(r)
      PROVE  PoolInv'
  <2>1. CASE Start(r)
    BY <2>1 DEF Start, Enter, PoolInv, Phase, Up
  <2>2. CASE Signal(r)
    BY <2>2 DEF Signal, serverVars, Enter, PoolInv, Phase, Up
  <2>3. CASE Drained(r)
    BY <2>3 DEF Drained, StopWorkers, serverVars, Enter, PoolInv, Phase, Up
  <2>4. CASE WorkersWaited(r)
    BY <2>4 DEF WorkersWaited, serverVars, Enter, PoolInv, Phase, Up
  <2>5. CASE ClosePool(r)
    BY <2>5 DEF ClosePool, Enter, PoolInv, Phase, Up
  <2> QED
    BY <1>6, <2>1, <2>2, <2>3, <2>4, <2>5
<1>7. ASSUME NEW r \in Replica, Request(r) \/ Respond(r)
      PROVE  PoolInv'
  <2>1. CASE Request(r)
    BY <2>1 DEF Request, migrateVars, PoolInv
  <2>2. CASE Respond(r)
    BY <2>2 DEF Respond, migrateVars, PoolInv
  <2> QED
    BY <1>7, <2>1, <2>2
<1>8. ASSUME NEW r \in Replica, NEW j \in Job, Jobs(r, j)
      PROVE  PoolInv'
  BY <1>1, <1>8 DEF Jobs, migrateVars, serverVars
<1>9. ASSUME NEW r \in Replica,
             ListenError(r) \/ Crash(r) \/ DrainTimeout(r) \/ Stopped(r)
      PROVE  PoolInv'
  BY <1>3, <1>9 DEF ListenError, Crash, DrainTimeout, Stopped
<1> QED
  BY <1>2, <1>4, <1>5, <1>6, <1>7, <1>8, <1>9 DEF Next, Shutdown

(* No request is ever handled on a closed pool: Start returns at once when *)
(* the drain runs out of time, and closes the pool only after a full one.  *)
THEOREM PoolsOutliveRequests == Spec => []PoolOutlivesRequests
<1>1. Init => PoolInv
  BY DEF Init, MigrateInit, PoolInv, Phase
<1>2. PoolInv => PoolOutlivesRequests
  BY DEF PoolInv, PoolOutlivesRequests
<1> QED
  BY <1>1, <1>2, PoolInvStep, PTL DEF Spec

-----------------------------------------------------------------------------

(* What TypeOK says of a process beyond the two invariants above.  A job   *)
(* has a loop exactly while the process is up: StartJobs comes with the    *)
(* port, a stopped loop is not one that never ran, and only the end of the *)
(* process takes the goroutines away.                                      *)
LifeInv ==
    /\ lock \in Replica \cup {NoOne}
    /\ faults \in Nat
    /\ RunnerTypeOK
    /\ verifier \in [Replica -> BOOLEAN]
    /\ \A r \in Replica :
          /\ inFlight[r] <= MaxInFlight
          /\ phase[r] \in Up <=> ~ AllOff(r)

(* A step that leaves the loops alone, and the process on the same side of *)
(* Up.                                                                     *)
LEMMA SameLoops ==
    ASSUME PoolInv, LifeInv, UNCHANGED loop, stopping' \in [Replica -> BOOLEAN],
           NEW r \in Replica, NEW p \in Phase, Enter(r, p),
           p \in Up <=> phase[r] \in Up,
           lock' \in Replica \cup {NoOne}, faults' \in Nat,
           UNCHANGED <<inFlight, verifier>>
    PROVE  LifeInv'
<1>1. RunnerTypeOK'
  BY DEF LifeInv, RunnerTypeOK
<1>2. ASSUME NEW q \in Replica PROVE phase'[q] \in Up <=> ~ AllOff(q)'
  <2>1. AllOff(q)' <=> AllOff(q)
    BY DEF AllOff
  <2>2. phase'[q] \in Up <=> phase[q] \in Up
    BY DEF Enter, PoolInv
  <2> QED BY <2>1, <2>2 DEF LifeInv
<1> QED BY <1>1, <1>2 DEF LifeInv

(* A step that sets every loop of r at once.                               *)
LEMMA SetLoops ==
    ASSUME PoolInv, LifeInv, NEW r \in Replica, NEW s \in {"off", "run"},
           loop' = [loop EXCEPT ![r] = [j \in Job |-> s]],
           stopping' = [stopping EXCEPT ![r] = FALSE],
           NEW p \in Phase, Enter(r, p), p \in Up <=> s = "run",
           lock' \in Replica \cup {NoOne}, faults' \in Nat,
           inFlight' \in {inFlight, [inFlight EXCEPT ![r] = 0]},
           verifier' \in [Replica -> BOOLEAN]
    PROVE  LifeInv'
<1>1. RunnerTypeOK'
  BY DEF LifeInv, RunnerTypeOK
<1>2. ASSUME NEW q \in Replica PROVE phase'[q] \in Up <=> ~ AllOff(q)'
  <2>1. CASE q = r
    <3>1. \A j \in Job : loop'[r][j] = s
      BY DEF LifeInv, RunnerTypeOK
    <3>2. phase'[r] = p
      BY DEF Enter, PoolInv
    <3> QED BY <2>1, <3>1, <3>2, ServerAssumption DEF AllOff
  <2>2. CASE q # r
    <3>1. loop'[q] = loop[q] /\ phase'[q] = phase[q]
      BY <2>2 DEF LifeInv, RunnerTypeOK, Enter, PoolInv
    <3> QED BY <3>1 DEF AllOff, LifeInv
  <2> QED BY <2>1, <2>2
<1>3. ASSUME NEW q \in Replica PROVE inFlight'[q] <= MaxInFlight
  BY ServerAssumption DEF PoolInv, LifeInv
<1> QED BY <1>1, <1>2, <1>3 DEF LifeInv

(* A step of one loop, which is on before and after.                       *)
LEMMA OneLoop ==
    ASSUME LifeInv, NEW r \in Replica, NEW j \in Job, Jobs(r, j)
    PROVE  LifeInv'
<1>1. PICK s \in {"run", "record", "wait", "stopped"} :
         loop[r][j] # "off" /\ SetLoop(r, j, s)
  BY DEF Jobs, LoopStep, RunEnds, RecordRun, Tick, Stop
<1>2. loop' = [loop EXCEPT ![r][j] = s] /\ UNCHANGED stopping
  BY <1>1 DEF SetLoop
<1>3. RunnerTypeOK'
  BY <1>2 DEF LifeInv, RunnerTypeOK
<1>4. ASSUME NEW q \in Replica PROVE AllOff(q)' <=> AllOff(q)
  <2>1. CASE q = r
    <3>1. loop'[r][j] = s
      BY <1>2 DEF LifeInv, RunnerTypeOK
    <3> QED BY <1>1, <2>1, <3>1 DEF AllOff
  <2>2. CASE q # r
    BY <1>2, <2>2 DEF LifeInv, RunnerTypeOK, AllOff
  <2> QED BY <2>1, <2>2
<1> QED
  BY <1>3, <1>4 DEF LifeInv, Jobs, migrateVars, serverVars

(* The life of the processes is as LifeInv says: one step per action.      *)
LEMMA LifeInvStep ==
    ASSUME MigrateInv, PoolInv, LifeInv, [Next]_vars
    PROVE  LifeInv'
<1>0. faults \in Nat /\ lock \in Replica \cup {NoOne}
      /\ stopping \in [Replica -> BOOLEAN] /\ verifier \in [Replica -> BOOLEAN]
  BY DEF LifeInv, RunnerTypeOK
<1>1. CASE UNCHANGED vars
  BY <1>1 DEF vars, migrateVars, runnerVars, serverVars, LifeInv, RunnerTypeOK, AllOff
<1>2. ASSUME NEW r \in Replica, Exit(r), faults' \in Nat
      PROVE  LifeInv'
  <2>1. lock' \in Replica \cup {NoOne}
    BY <1>0, <1>2 DEF Exit, Unlocked
  <2>2. "down" \in Phase /\ "down" \notin Up
    BY DEF Phase, Up
  <2> QED BY <1>0, <1>2, <2>1, <2>2, SetLoops DEF Exit, KillJobs
<1>3. ASSUME NEW r \in Replica, Boot(r)
      PROVE  LifeInv'
  <2>1. faults' \in Nat /\ UNCHANGED <<lock, loop, stopping, inFlight, verifier>>
    BY <1>0, <1>3 DEF Boot, Fault, NoFault, dbVars, runnerVars
  <2>2. PICK p \in {"down", "lock"} : Enter(r, p)
    BY <1>3 DEF Boot, Enter, PoolInv
  <2>3. p \in Phase /\ p \notin Up /\ phase[r] \notin Up
    BY <1>3 DEF Boot, Phase, Up, Migrating
  <2> QED BY <1>0, <2>1, <2>2, <2>3, SameLoops
<1>4. ASSUME NEW r \in Replica, BootStep(r)
      PROVE  LifeInv'
  <2>1. /\ faults' \in Nat /\ lock' \in Replica \cup {NoOne}
        /\ phase[r] \in Migrating
    BY <1>0, <1>4 DEF BootStep, Lock, MigrateStep, ReadApplied, ApplyFile,
                      FinishMigrations, BootFails, Unlocked, Fault, NoFault, Migrating
  <2>2. PICK p \in {"down", "read", "apply", "keys"} : Enter(r, p)
    <3>1. CASE UNCHANGED phase
      <4>1. phase[r] = "apply" /\ phase' = [phase EXCEPT ![r] = "apply"]
        BY <1>4, <3>1 DEF BootStep, Lock, MigrateStep, ReadApplied, ApplyFile,
                          FinishMigrations, BootFails, Enter, PoolInv
      <4> QED BY <4>1 DEF Enter
    <3>2. CASE ~ UNCHANGED phase
      BY <1>4, <3>2 DEF BootStep, Lock, MigrateStep, ReadApplied, ApplyFile,
                        FinishMigrations, BootFails
    <3> QED BY <3>1, <3>2
  <2>3. p \in Phase /\ p \notin Up /\ phase[r] \notin Up
    BY <2>1 DEF Phase, Up, Migrating
  <2>4. UNCHANGED <<loop, stopping, inFlight, verifier>>
    BY <1>4 DEF BootStep, runnerVars
  <2> QED BY <1>0, <2>1, <2>2, <2>3, <2>4, SameLoops
<1>5. ASSUME NEW r \in Replica, Start(r)
      PROVE  LifeInv'
  <2>1. verifier' \in [Replica -> BOOLEAN]
    BY <1>0, <1>5 DEF Start, NewVerifier
  <2>2. "serving" \in Phase /\ "serving" \in Up
    BY DEF Phase, Up
  <2> QED BY <1>0, <1>5, <2>1, <2>2, SetLoops DEF Start, StartJobs, dbVars
<1>6. ASSUME NEW r \in Replica, Signal(r) \/ Drained(r)
                                 \/ WorkersWaited(r) \/ ClosePool(r)
      PROVE  LifeInv'
  <2>1. PICK p \in Up : Enter(r, p) /\ phase[r] \in Up
    BY <1>6 DEF Signal, Drained, StopWorkers, WorkersWaited, ClosePool, Up
  <2>2. /\ UNCHANGED <<lock, faults, loop, inFlight, verifier>>
        /\ stopping' \in [Replica -> BOOLEAN]
    BY <1>0, <1>6 DEF Signal, Drained, StopWorkers, WorkersWaited, ClosePool,
                      dbVars, runnerVars, serverVars
  <2>3. p \in Phase
    BY DEF Phase
  <2> QED BY <1>0, <2>1, <2>2, <2>3, SameLoops
<1>7. ASSUME NEW r \in Replica, Request(r) \/ Respond(r)
      PROVE  LifeInv'
  <2>1. UNCHANGED <<lock, faults, loop, stopping, phase, verifier>>
    BY <1>7 DEF Request, Respond, migrateVars, runnerVars
  <2>2. ASSUME NEW q \in Replica PROVE inFlight'[q] <= MaxInFlight
    <3>1. inFlight[q] \in Nat /\ inFlight[r] \in Nat /\ inFlight[q] <= MaxInFlight
      BY DEF PoolInv, LifeInv
    <3> QED BY <1>7, <3>1, ServerAssumption DEF Request, Respond, PoolInv
  <2> QED BY <2>1, <2>2 DEF LifeInv, RunnerTypeOK, AllOff
<1>8. ASSUME NEW r \in Replica,
             ListenError(r) \/ Crash(r) \/ DrainTimeout(r) \/ Stopped(r)
      PROVE  LifeInv'
  <2>1. Exit(r) /\ faults' \in Nat
    BY <1>0, <1>8 DEF ListenError, Crash, DrainTimeout, Stopped, Fault, NoFault
  <2> QED BY <1>2, <2>1
<1> QED
  BY <1>1, <1>3, <1>4, <1>5, <1>6, <1>7, <1>8, OneLoop DEF Next, Shutdown

(* The types, and with them: no job runs before a replica serves, none is  *)
(* left behind by a process that ended, and no request either.             *)
THEOREM ServerTypeCorrect == Spec => []TypeOK
<1>1. Init => PoolInv /\ LifeInv
  <2> SUFFICES ASSUME Init PROVE PoolInv /\ LifeInv
    OBVIOUS
  <2>1. PoolInv
    BY DEF Init, MigrateInit, PoolInv, Phase
  <2>2. RunnerTypeOK /\ \A r \in Replica : AllOff(r)
    BY DEF Init, RunnerInit, RunnerTypeOK, AllOff
  <2>3. \A r \in Replica : inFlight[r] = 0 /\ phase[r] = "down"
    BY DEF Init, MigrateInit
  <2> QED
    BY <2>1, <2>2, <2>3, ServerAssumption DEF Init, MigrateInit, LifeInv, Up
<1>2. MigrateInv /\ PoolInv /\ LifeInv => TypeOK
  <2> SUFFICES ASSUME MigrateInv, PoolInv, LifeInv PROVE TypeOK
    OBVIOUS
  <2>1. MigrateTypeOK
    BY DEF MigrateInv, LifeInv, AppliedInOrder, MigrateTypeOK
  <2>2. inFlight \in [Replica -> 0 .. MaxInFlight]
    BY ServerAssumption DEF PoolInv, LifeInv
  <2>3. \A r \in Replica : phase[r] \notin Up => inFlight[r] = 0
    BY DEF PoolInv, Up
  <2> QED
    BY <2>1, <2>2, <2>3 DEF MigrateInv, PoolInv, LifeInv, TypeOK
<1> QED
  BY <1>1, <1>2, MigrateInvariance, PoolInvStep, LifeInvStep, PTL DEF Spec
=============================================================================
