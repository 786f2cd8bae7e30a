----------------------------- MODULE Membership -----------------------------
(***************************************************************************)
(* What the backend promises about taking part in events, whatever tables, *)
(* locks and transactions it uses: a user has one place in an event, alone *)
(* or in a company; founding or entering a company takes a solo place      *)
(* along; nobody goes from one company to another, or from a company to a  *)
(* solo place, without leaving; a founder never leaves a company that      *)
(* stands; and what has ended takes nobody in.                             *)
(***************************************************************************)
CONSTANTS Users, Events, Companies, None, Solo

VARIABLES
  founded,  \* event and founder of each company, or None
  place,    \* the places each user has in each event
  over,     \* events that have been deleted
  gone      \* companies that have been deleted, alone or with their event

vars == <<founded, place, over, gone>>

Init ==
  /\ founded = [c \in Companies |-> None]
  /\ place = [e \in Events |-> [u \in Users |-> {}]]
  /\ over = {} /\ gone = {}

Move(u, e, there) == place' = [place EXCEPT ![e][u] = there]

\* Whoever has no company yet may enter one.
Available(u, e) == e \notin over /\ place[e][u] \in {{}, {Solo}}

Come(u, e) ==
  /\ e \notin over
  /\ place[e][u] = {}
  /\ Move(u, e, {Solo})
  /\ UNCHANGED <<founded, over, gone>>

Found(u, e, c) ==
  /\ founded[c] = None
  /\ Available(u, e)
  /\ founded' = [founded EXCEPT ![c] = [event |-> e, founder |-> u]]
  /\ Move(u, e, {c})
  /\ UNCHANGED <<over, gone>>

Enter(u, c) ==
  /\ founded[c] # None /\ c \notin gone
  /\ Available(u, founded[c].event)
  /\ Move(u, founded[c].event, {c})
  /\ UNCHANGED <<founded, over, gone>>

Depart(u, e) ==
  /\ e \notin over
  /\ \A c \in place[e][u] \cap Companies : founded[c].founder # u
  /\ Move(u, e, {})
  /\ UNCHANGED <<founded, over, gone>>

\* A company ends with the places of all its members and of nobody else.
Disband(c) ==
  /\ founded[c] # None /\ c \notin gone
  /\ gone' = gone \cup {c}
  /\ place' = [e \in Events |-> [u \in Users |->
                 IF place[e][u] = {c} THEN {} ELSE place[e][u]]]
  /\ UNCHANGED <<founded, over>>

\* An event ends with its companies and with the places of everybody.
Dissolve(e) ==
  /\ e \notin over
  /\ over' = over \cup {e}
  /\ gone' = gone \cup {c \in Companies : founded[c] # None /\ founded[c].event = e}
  /\ place' = [place EXCEPT ![e] = [u \in Users |-> {}]]
  /\ UNCHANGED founded

Next ==
  \/ \E u \in Users, e \in Events : Come(u, e) \/ Depart(u, e)
  \/ \E u \in Users, e \in Events, c \in Companies : Found(u, e, c)
  \/ \E u \in Users, c \in Companies : Enter(u, c)
  \/ \E c \in Companies : Disband(c)
  \/ \E e \in Events : Dissolve(e)

Spec == Init /\ [][Next]_vars

-----------------------------------------------------------------------------

\* What a user may rely on: at most one place in an event, and none in one that is over; a place
\* in a company is one in a company that stands, founded in that event; and the founder of a
\* company that stands has the place in it.
Promise ==
  /\ \A e \in Events, u \in Users :
       /\ \A p, q \in place[e][u] : p = q
       /\ e \in over => place[e][u] = {}
       /\ \A c \in place[e][u] \cap Companies :
            founded[c] # None /\ founded[c].event = e /\ c \notin gone
  /\ \A c \in Companies \ gone :
       founded[c] # None => place[founded[c].event][founded[c].founder] = {c}
=============================================================================
