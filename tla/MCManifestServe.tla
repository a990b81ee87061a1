-------------------------- MODULE MCManifestServe --------------------------
(* The constants of the ManifestServe runs. *)
EXTENDS ManifestServe, TLC

CONSTANTS i1, s1, s2

\* Tickets of two collections, when there are two.
MCSlugOf == [i \in Ids |-> IF i = i1 THEN s1 ELSE s2]

\* The connections both of whose ends run this code are interchangeable.
Symmetry == Permutations(Ours)

=============================================================================
