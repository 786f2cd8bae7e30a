--------------------------- MODULE MCCoverStorage ---------------------------
(* Small instances of CoverStorage for TLC. *)
EXTENDS CoverStorage, TLC

\* Every upload and event belongs to the same user.
SameOwner == [i \in Uploads \cup Events |-> CHOOSE u \in Users : TRUE]

Interchangeable == Permutations(Uploads) \cup Permutations(Events) \cup Permutations(Workers)
=============================================================================
