---------------------------- MODULE MCMultipart ----------------------------
(* Multipart with names spelled by character class. *)
EXTENDS TLC, Multipart

\* A Windows path, spaces around a name that holds a separator, a wide and a
\* control character, and is too long: its extension survives.  And a name of
\* one slash, whose key validKey refuses.
ClientNames == {<<"a", "\\", " ", "w", "_", "c", "a", ".", "a", " ">>, <<"/">>}

Symmetry == Permutations(Call)
=============================================================================
