------------------------------- MODULE Links -------------------------------
(***************************************************************************)
(* What the share endpoints and the two jobs promise about links, with     *)
(* requests, drafts, pages and failures taken away.                        *)
(*                                                                         *)
(*   - A file has at most one link.                                        *)
(*   - A link keeps its slug and its owner for as long as it exists, and a *)
(*     slug that is gone never comes back.                                 *)
(*   - The code of a link is replaced only by the link's owner; a link     *)
(*     without an owner lets anybody replace it and never gains one.       *)
(***************************************************************************)
CONSTANTS
    File,     \* storage keys
    Slug,
    Person,   \* signed-in users
    Nobody,   \* the owner of an anonymous link, an anonymous caller
    NoLink

VARIABLES
    link,     \* link[f]: the link of file f, or NoLink
    spent     \* slugs that may not be opened any more

Link == [slug: Slug, owner: Person \cup {Nobody}, by: Person \cup {Nobody}]

Init ==
    /\ link = [f \in File |-> NoLink]
    /\ spent = {}

(* by is the caller who minted the code in force.                          *)
Open(f, slug, user) ==
    /\ link[f] = NoLink
    /\ slug \notin spent
    /\ link' = [link EXCEPT ![f] = [slug |-> slug, owner |-> user, by |-> user]]
    /\ spent' = spent \cup {slug}

Rekey(f, user) ==
    /\ link[f] # NoLink
    /\ link[f].owner \in {Nobody, user}
    /\ link' = [link EXCEPT ![f].by = user]
    /\ UNCHANGED spent

Close(f) ==
    /\ link' = [link EXCEPT ![f] = NoLink]
    /\ UNCHANGED spent

(* A slug drawn for a link that was never opened.                          *)
Discard(slug) ==
    /\ spent' = spent \cup {slug}
    /\ UNCHANGED link

Next ==
    \/ \E f \in File, slug \in Slug, user \in Person \cup {Nobody} :
          Open(f, slug, user)
    \/ \E f \in File, user \in Person \cup {Nobody} : Rekey(f, user)
    \/ \E f \in File : Close(f)
    \/ \E slug \in Slug : Discard(slug)

Spec == Init /\ [][Next]_<<link, spent>>
=============================================================================
