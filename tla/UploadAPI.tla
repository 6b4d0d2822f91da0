----------------------------- MODULE UploadAPI -----------------------------
(***************************************************************************)
(* How objects reach the bucket: POST /files/presign-upload                *)
(* (internal/handlers/file.go), the multipart endpoints                    *)
(* (internal/handlers/multipart.go) and the client's own PUT.              *)
(*                                                                         *)
(* The service records an upload before the client holds anything to       *)
(* upload with, and never hears whether the bytes arrived.  grant[k] is    *)
(* what the client holds for key k:                                        *)
(*                                                                         *)
(*   none     k has not been minted                                        *)
(*   put      a presigned PUT URL, good until at + UploadURLTTL            *)
(*   session  an open multipart session.  The bucket's lifecycle rule      *)
(*            (README, "Reclaim abandoned multipart uploads") aborts it    *)
(*            after SessionTTL.                                            *)
(*   void     nothing: the call failed, the session ended, or a legacy key *)
(*                                                                         *)
(* The parts of a session and their sizes are left out.                    *)
(***************************************************************************)
EXTENDS Catalog

CONSTANTS
    UploadURLTTL,   \* storage.UploadPresignTTL
    SessionTTL      \* age at which the bucket aborts a multipart session

ASSUME UploadAssumption == UploadURLTTL \in Nat /\ SessionTTL \in Nat

VARIABLES
    grant,
    landed      \* history: the keys that ever had an object

uploadVars == <<grant, landed>>

Grant == [kind: {"none", "put", "session", "void"}, at: Nat, owner: Owner]

UploadTypeOK ==
    /\ grant \in [Key -> Grant]
    /\ landed \subseteq Key

UploadInit ==
    /\ grant = [k \in Key |->
                  [kind |-> IF k \in LegacyKey THEN "void" ELSE "none",
                   at |-> 0, owner |-> Anon]]
    /\ landed = LegacyKey

Minted(key) == grant[key].kind # "none"

(* The last instant at which the retention worker must keep the object.    *)
Deadline(key) == grant[key].at + Window(grant[key].owner)

-----------------------------------------------------------------------------

UploadRow(key, owner) ==
    [key |-> key, owner |-> owner, created |-> now, attempts |-> 0]

(* Mutant: a failing record is logged and the client served.               *)
RecordBestEffort(key, user, kind) ==
    /\ grant[key].kind = "none"
    /\ \/ NoFault /\ uploads' = uploads \cup {UploadRow(key, user)}
       \/ Fault("uploads.Create") /\ UNCHANGED uploads
    /\ grant' = [grant EXCEPT
                   ![key] = [kind |-> kind, at |-> now, owner |-> user]]
    /\ UNCHANGED <<now, shares, objects, audit, landed>>

(* recordUploadFor with a freshly minted key: the row is written before    *)
(* the client is given kind.  If the insert reports an error the client    *)
(* gets nothing, and a multipart session is aborted.                       *)
RecordUploadFor(key, user, kind) ==
    /\ grant[key].kind = "none"
    /\ \/ /\ NoFault
          /\ uploads' = uploads \cup {UploadRow(key, user)}
          /\ grant' = [grant EXCEPT
                         ![key] = [kind |-> kind, at |-> now, owner |-> user]]
       \/ /\ Fault("uploads.Create")
          /\ uploads' \in {uploads, uploads \cup {UploadRow(key, user)}}
          /\ grant' = [grant EXCEPT
                         ![key] = [kind |-> "void", at |-> now, owner |-> user]]
    /\ UNCHANGED <<now, shares, objects, audit, landed>>

PresignUpload(key, user) == RecordUploadFor(key, user, "put")

MultipartInit(key, user) == RecordUploadFor(key, user, "session")

Land(key) ==
    /\ objects' = objects \cup {key}
    /\ landed' = landed \cup {key}
    /\ UNCHANGED <<now, shares, uploads, audit, faults>>

(* The client's PUT, accepted by the bucket as often as it is sent until   *)
(* the URL expires.                                                        *)
PutObject(key) ==
    /\ grant[key].kind = "put"
    /\ now <= grant[key].at + UploadURLTTL
    /\ Land(key)
    /\ UNCHANGED grant

SessionOpen(key) ==
    /\ grant[key].kind = "session"
    /\ now <= grant[key].at + SessionTTL

(* Complete assembles the parts, unless they exceed the upload cap: then   *)
(* the session is aborted (AbortMultipart below).                          *)
CompleteMultipart(key) ==
    /\ SessionOpen(key)
    /\ Land(key)
    /\ grant' = [grant EXCEPT ![key].kind = "void"]

AbortMultipart(key) ==
    /\ SessionOpen(key)
    /\ grant' = [grant EXCEPT ![key].kind = "void"]
    /\ UNCHANGED <<now, shares, uploads, objects, audit, faults, landed>>

UploadStep(key) ==
    \/ \E user \in Owner : PresignUpload(key, user) \/ MultipartInit(key, user)
    \/ PutObject(key)
    \/ CompleteMultipart(key)
    \/ AbortMultipart(key)
=============================================================================
