----------------------------- MODULE MCArchive -----------------------------
(***************************************************************************)
(* Archive on small instances; the configurations choose the sets and the  *)
(* bounds.  Requests, callers and replicas are interchangeable wherever no *)
(* constant singles one out.  Keys are not: the order in which a page is   *)
(* filled and StuckKey tell them apart.  Runs of temporal properties under *)
(* FairSpec use no symmetry.                                               *)
(***************************************************************************)
EXTENDS TLC, Archive

Symmetry == UNION {Permutations(S) : S \in {Request, User, Replica}}
=============================================================================
