------------------------------ MODULE Migrate ------------------------------
(***************************************************************************)
(* Migrations at boot (internal/migrate/migrate.go).  Every replica runs   *)
(* them before it serves, on one connection and under one advisory lock of *)
(* the database; a file is applied and recorded in one transaction, which  *)
(* is one step here.  The lock belongs to the database session: it goes    *)
(* with the unlock, with the connection and with the process.              *)
(*                                                                         *)
(* Files are numbered in the order of their names.  During a rolling       *)
(* deployment replicas carry different numbers of files; a later release   *)
(* adds files after the ones there are.                                    *)
(***************************************************************************)
EXTENDS FiniteSetsExt, Integers, Sequences

CONSTANTS
    Replica,
    Files,       \* Files[r]: how many migrations the binary of r carries
    NoOne,       \* holder of a free lock
    MaxFaults    \* bound on failing calls and crashes

ASSUME MigrateAssumption ==
    /\ Files \in [Replica -> Nat]
    /\ NoOne \notin Replica
    /\ MaxFaults \in Nat

VARIABLES
    phase,      \* where replica r is in its life
    lock,       \* holder of the advisory lock
    schema,     \* migrations whose SQL is in effect, in the order applied
    versions,   \* table schema_migrations
    seen,       \* seen[r]: the versions r believes applied
    blame,      \* blame[r]: why the last boot of r failed (history)
    faults

dbVars == <<lock, schema, versions>>
migrateVars == <<phase, lock, schema, versions, seen, blame, faults>>

Migrating == {"lock", "read", "apply"}

MigrateTypeOK ==
    /\ lock \in Replica \cup {NoOne}
    /\ schema \in Seq(Nat)
    /\ versions \subseteq Nat
    /\ seen \in [Replica -> SUBSET Nat]
    /\ blame \in [Replica -> {"none", "fault", "conflict"}]
    /\ faults \in Nat

MigrateInit ==
    /\ phase = [r \in Replica |-> "down"]
    /\ lock = NoOne
    /\ schema = <<>>
    /\ versions = {}
    /\ seen = [r \in Replica |-> {}]
    /\ blame = [r \in Replica |-> "none"]
    /\ faults = 0

-----------------------------------------------------------------------------

NoFault == faults' = faults
Fault == faults < MaxFaults /\ faults' = faults + 1

Enter(r, p) == phase' = [phase EXCEPT ![r] = p]

Applied == {schema[i] : i \in 1 .. Len(schema)}
Pending(r) == (1 .. Files[r]) \ seen[r]

Unlocked(r) == IF lock = r THEN NoOne ELSE lock

(* An error of Run: the deferred unlock, then log.Fatalf ends the process. *)
BootFails(r, why) ==
    /\ Enter(r, "down")
    /\ lock' = Unlocked(r)
    /\ blame' = [blame EXCEPT ![r] = why]
    /\ UNCHANGED seen

(* Mutant: no lock is taken.                                               *)
NoLock(r) ==
    /\ phase[r] = "lock"
    /\ NoFault
    /\ Enter(r, "read")
    /\ UNCHANGED <<dbVars, seen, blame>>

(* pg_advisory_lock waits for the lock without a limit.                    *)
Lock(r) ==
    /\ phase[r] = "lock"
    /\ \/ /\ NoFault /\ lock = NoOne
          /\ lock' = r
          /\ Enter(r, "read")
          /\ UNCHANGED <<seen, blame>>
       \/ Fault /\ BootFails(r, "fault")
    /\ UNCHANGED <<schema, versions>>

ReadApplied(r) ==
    /\ phase[r] = "read"
    /\ \/ /\ NoFault
          /\ seen' = [seen EXCEPT ![r] = versions]
          /\ Enter(r, "apply")
          /\ UNCHANGED <<lock, blame>>
       \/ Fault /\ BootFails(r, "fault")
    /\ UNCHANGED <<schema, versions>>

(* Mutant: the directory listing taken in the wrong order.                 *)
LastFile(r) == Max(Pending(r))

(* The files are sorted by name, and those seen are skipped.               *)
NextFile(r) == Min(Pending(r))

(* The transaction of file f: its SQL and its version.                     *)
Commit(f) ==
    /\ schema' = Append(schema, f)
    /\ versions' = versions \cup {f}

(* SQL that is in effect already fails, and so does a recorded version.  A *)
(* commit that reports an error may have taken effect.                     *)
ApplyFile(r) ==
    /\ phase[r] = "apply"
    /\ Pending(r) # {}
    /\ LET f == NextFile(r)
       IN  \/ /\ NoFault /\ f \notin Applied
              /\ Commit(f)
              /\ seen' = [seen EXCEPT ![r] = @ \cup {f}]
              /\ UNCHANGED <<phase, lock, blame>>
           \/ /\ NoFault /\ f \in Applied
              /\ BootFails(r, "conflict")
              /\ UNCHANGED <<schema, versions>>
           \/ /\ Fault /\ BootFails(r, "fault")
              /\ \/ UNCHANGED <<schema, versions>>
                 \/ f \notin Applied /\ Commit(f)

(* Mutant: the first applied file ends the loop.                           *)
FinishAtApplied(r) ==
    /\ phase[r] = "apply"
    /\ Pending(r) = {} \/ 1 \in seen[r]
    /\ NoFault
    /\ lock' = Unlocked(r)
    /\ Enter(r, "keys")
    /\ UNCHANGED <<schema, versions, seen, blame>>

(* Mutant: the deferred unlock forgotten; the pool keeps the session.      *)
FinishLocked(r) ==
    /\ phase[r] = "apply"
    /\ Pending(r) = {}
    /\ NoFault
    /\ Enter(r, "keys")
    /\ UNCHANGED <<dbVars, seen, blame>>

(* Nothing is left to apply: unlock, release, go on with server.New.  The  *)
(* error of the unlock is ignored: it fails with its connection, which     *)
(* Release then drops, and the lock ends with the session.                 *)
FinishMigrations(r) ==
    /\ phase[r] = "apply"
    /\ Pending(r) = {}
    /\ NoFault \/ Fault
    /\ lock' = Unlocked(r)
    /\ Enter(r, "keys")
    /\ UNCHANGED <<schema, versions, seen, blame>>

MigrateStep(r) == ReadApplied(r) \/ ApplyFile(r) \/ FinishMigrations(r)
=============================================================================
