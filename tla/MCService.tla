----------------------------- MODULE MCService -----------------------------
(***************************************************************************)
(* A small instance for TLC of the components that share no state with the *)
(* others (Services).                                                      *)
(***************************************************************************)
EXTENDS Services, TLC

CONSTANTS
  u1, r1, r2, r3, l1, l2, l3, ann, Ann, bob, g1, g2,  \* accounts
  f1, f2, f3, google, yandex,                         \* OAuth flows
  e1, e2, e3, e4, moscow, child, adult, chess,        \* profiles
  p1, p2, p3                                          \* reports

SameUser == [r \in Requests |-> u1]

LowerCase == ann :> ann @@ Ann :> ann @@ bob :> bob
Typed == r1 :> Ann @@ r2 :> ann @@ r3 :> bob
Presented == l1 :> g1 @@ l2 :> g1 @@ l3 :> g2

TwoOfOne == f1 :> google @@ f2 :> google @@ f3 :> yandex

Patches ==
  e1 :> [firstName |-> "given", city |-> moscow, birth |-> adult, interests |-> {chess}]
  @@ e2 :> [firstName |-> Absent, city |-> Cleared, birth |-> child, interests |-> Absent]
  @@ e3 :> [firstName |-> Absent, city |-> moscow, birth |-> Cleared, interests |-> {}]
  @@ e4 :> [firstName |-> Absent, city |-> Absent, birth |-> adult, interests |-> {"unknown"}]

Targets == p1 :> "company" @@ p2 :> "event or user" @@ p3 :> "event or user"

Interchangeable == Permutations(Uploads) \cup Permutations({f1, f2})
=============================================================================
