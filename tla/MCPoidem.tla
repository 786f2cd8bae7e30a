------------------------------ MODULE MCPoidem ------------------------------
(* Small instances of Poidem for TLC. *)
EXTENDS PoidemRefinement, TLC

form(starts, ends) == [starts |-> starts, ends |-> ends, publishable |-> TRUE]
draft(max, join, minAge) == [max |-> max, join |-> join, minAge |-> minAge]

\* One event that starts at 1 and has no end.
OneForm == {form(1, None)}

\* The event may be moved to start at 2, with an end at 3.
TwoForms == {form(1, None), form(2, 3)}

OpenOfTwo == {draft(2, "open", 0)}
RequestOfTwo == {draft(2, "request", 0)}
NoPatches == {}

OpenToAdults == {draft(2, "open", 18)}

\* An update may raise the age limit or ask for applications.
Settings == {[max |-> None, join |-> None, minAge |-> 21],
             [max |-> None, join |-> "request", minAge |-> None]}
Smaller == {[max |-> 2, join |-> None, minAge |-> None]}
OpenOfThree == {draft(3, "open", 0)}

Adults == [u \in Users |-> 20]
\* One user creates all events, which nobody edits or deletes.
OneCreator == \A e \in Published : event[e].creator = CHOOSE u \in Users : TRUE

Interchangeable == Permutations(Users) \cup Permutations(Companies) \cup Permutations(Conns)
=============================================================================
