----------------------------- MODULE MCLockstep -----------------------------
(* Small fields for TLC. *)
EXTENDS Lockstep, TLC

\* Entries that are dear to one session and free for the others.
Uneven == {[s \in Session |-> IF s = t THEN 2 ELSE 0] : t \in Session}

Steep  == {[s \in Session |-> IF s = t THEN 4 ELSE 1] : t \in Session}

Symmetry == Permutations(Session)
=============================================================================
