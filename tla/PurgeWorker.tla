---------------------------- MODULE PurgeWorker ----------------------------
(***************************************************************************)
(* The job purge-expired-shares (internal/worker/purge.go), one instance   *)
(* per replica.  A run reads a page of expired share rows and deletes them *)
(* one by one, by slug alone.  purging[w] is the snapshot whose row has    *)
(* been deleted and whose audit row is still to be written, Null between   *)
(* rows.                                                                   *)
(***************************************************************************)
EXTENDS Catalog

VARIABLES page, purging

purgeVars == <<page, purging>>

PurgeTypeOK ==
    /\ page \in [Replica -> SUBSET Share]
    /\ purging \in [Replica -> Share \cup {Null}]

PurgeInit ==
    /\ page = [w \in Replica |-> {}]
    /\ purging = [w \in Replica |-> Null]

-----------------------------------------------------------------------------

(* "order by expires_at asc limit BatchSize": the pages that can result.   *)
SharePages ==
    {P \in SUBSET ExpiredShares :
        /\ \/ P = ExpiredShares
           \/ Cardinality(P) = BatchSize
        /\ Cardinality(P) <= BatchSize
        /\ \A p \in P, q \in ExpiredShares \ P : p.expires <= q.expires}

StartPurge(w) ==
    /\ page[w] = {}
    /\ purging[w] = Null
    /\ \E P \in SharePages : page' = [page EXCEPT ![w] = P]
    /\ UNCHANGED <<now, shares, uploads, objects, audit, faults, purging>>

(* Mutant: a failing delete is audited all the same.                       *)
DeleteUnverified(w) ==
    /\ purging[w] = Null
    /\ \E s \in page[w] :
          /\ \A t \in page[w] : s.expires <= t.expires
          /\ page' = [page EXCEPT ![w] = @ \ {s}]
          /\ purging' = [purging EXCEPT ![w] = s]
          /\ \/ NoFault /\ shares' = DeleteBySlug(s.slug)
             \/ Fault("shares.Delete") /\ UNCHANGED shares
    /\ UNCHANGED <<now, uploads, objects, audit>>

(* DeleteBySlug on the row first in order; the expiry is not looked at     *)
(* again.                                                                  *)
DeleteExpired(w) ==
    /\ purging[w] = Null
    /\ \E s \in page[w] :
          /\ \A t \in page[w] : s.expires <= t.expires
          /\ page' = [page EXCEPT ![w] = @ \ {s}]
          /\ \/ /\ NoFault
                /\ shares' = DeleteBySlug(s.slug)
                /\ purging' = [purging EXCEPT ![w] = s]
             \/ /\ Fault("shares.Delete")
                /\ shares' \in {shares, DeleteBySlug(s.slug)}
                /\ UNCHANGED purging
    /\ UNCHANGED <<now, uploads, objects, audit>>

AuditShare(w) ==
    /\ purging[w] # Null
    /\ \/ NoFault /\ Record("purge_share", purging[w].slug)
       \/ /\ Fault("audit.Record")
          /\ Record("purge_share", purging[w].slug) \/ UNCHANGED audit
    /\ purging' = [purging EXCEPT ![w] = Null]
    /\ UNCHANGED <<now, shares, uploads, objects, page>>

PurgeStep(w) ==
    \/ StartPurge(w)
    \/ DeleteExpired(w)
    \/ AuditShare(w)

CrashPurge(w) ==
    /\ page' = [page EXCEPT ![w] = {}]
    /\ purging' = [purging EXCEPT ![w] = Null]
=============================================================================
