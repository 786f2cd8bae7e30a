----------------------------- MODULE MCSessions -----------------------------
(* Small instances of Sessions for TLC. *)
EXTENDS Sessions, TLC

\* Every browser belongs to the same user.
SameUser == [b \in Browsers |-> CHOOSE u \in Users : TRUE]

Interchangeable == Permutations(Browsers) \cup Permutations(Sessions) \cup Permutations(Conns)
=============================================================================
