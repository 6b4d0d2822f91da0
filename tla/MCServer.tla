------------------------------ MODULE MCServer ------------------------------
(* Server during a rolling deployment: the first replica carries one file    *)
(* less than the others.                                                     *)
EXTENDS Server

CONSTANT Oldest

Release == [r \in Replica |-> IF r = Oldest THEN 1 ELSE 2]
=============================================================================
