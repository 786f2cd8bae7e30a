----------------------------- MODULE RateLimiter -----------------------------
(***************************************************************************)
(* internal/api/ratelimit: fixed windows of requests per client in a map   *)
(* behind one mutex.  A request samples the clock before it waits for the  *)
(* mutex, so the map sees instants out of order.                           *)
(***************************************************************************)
EXTENDS Integers, FiniteSets, Sequences

CONSTANTS
  Clients,    \* user ids, or addresses of the anonymous
  MaxCalls,   \* bound: requests ever sent
  Limit, Window,
  MapSize,    \* entries in the map before those that are over are removed: 10 000
  MaxWait,    \* bound: how long a request waits for the mutex, at most half a window
  LastTime    \* bound of the clock

ASSUME LimiterAssumption ==
  /\ Limit \in Nat \ {0} /\ Window \in Nat \ {0}
  /\ MapSize \in Nat /\ MaxWait \in Nat /\ 2 * MaxWait <= Window
  /\ LastTime \in Nat /\ MaxCalls \in Nat

VARIABLES
  time,     \* time.Now()
  entries,  \* items: count and reset of the clients in the map
  call      \* the requests: waiting since now, or admitted at an instant, or refused

limiterVars == <<time, entries, call>>

Calls == DOMAIN call

LimiterInit ==
  /\ time = 0
  /\ entries = [c \in {} |-> 0]
  /\ call = <<>>

\* Middleware: now is sampled, then the mutex waited for.
Arrive(c) ==
  /\ Len(call) < MaxCalls
  /\ call' = Append(call, [state |-> "waiting", client |-> c, now |-> time])
  /\ UNCHANGED <<time, entries>>

\* Variant: the window is not over at the very instant of its reset.
OverAfter(entry, now) == now > entry.reset

Over(entry, now) == now >= entry.reset

\* Entries that are over are removed when a new one makes the map too large.
Evict(map, now) ==
  IF Cardinality(DOMAIN map) > MapSize
  THEN [c \in {c \in DOMAIN map : ~Over(map[c], now)} |-> map[c]] ELSE map

\* Variant: the copy of the entry that was changed is not stored in the map.
Unstored(c, entry) == entries

With(c, entry) == [d \in DOMAIN entries \cup {c} |-> IF d = c THEN entry ELSE entries[d]]

Admit(r) == call' = [call EXCEPT ![r] =
  [state |-> "admitted", client |-> call[r].client, at |-> time]]

Refuse(r) == call' = [call EXCEPT ![r] = [state |-> "refused"]]

Running(c, now) == c \in DOMAIN entries /\ ~Over(entries[c], now)

\* The three ways through allow; the mutex makes each one step.
OpenWindow(r) ==
  LET c == call[r].client
      now == call[r].now
  IN /\ ~Running(c, now)
     /\ entries' = Evict(With(c, [count |-> 1, reset |-> now + Window]), now)
     /\ Admit(r)

Count(r) ==
  LET c == call[r].client
  IN /\ Running(c, call[r].now)
     /\ entries[c].count < Limit
     /\ entries' = With(c, [entries[c] EXCEPT !.count = @ + 1])
     /\ Admit(r)

TooMany(r) ==
  LET c == call[r].client
  IN /\ Running(c, call[r].now)
     /\ entries[c].count >= Limit
     /\ Refuse(r)
     /\ UNCHANGED entries

Allow(r) ==
  /\ call[r].state = "waiting"
  /\ OpenWindow(r) \/ Count(r) \/ TooMany(r)
  /\ UNCHANGED time

LimiterTick ==
  /\ time < LastTime
  /\ \A r \in Calls : call[r].state = "waiting" => time < call[r].now + MaxWait
  /\ time' = time + 1
  /\ UNCHANGED <<entries, call>>

LimiterNext == LimiterTick \/ (\E c \in Clients : Arrive(c)) \/ \E r \in Calls : Allow(r)

LimiterSpec == LimiterInit /\ [][LimiterNext]_limiterVars

-----------------------------------------------------------------------------
(* Properties. *)

LimiterTypeOK ==
  /\ time \in 0..LastTime
  /\ DOMAIN entries \subseteq Clients
  /\ \A c \in DOMAIN entries :
       entries[c].count \in 1..Limit /\ entries[c].reset \in Window..(LastTime + Window)
  /\ \A r \in Calls : call[r].state \in {"waiting", "admitted", "refused"}

Admitted(c) == {r \in Calls : call[r].state = "admitted" /\ call[r].client = c}

\* However many clients fill the map, and with requests that have waited for the mutex beside
\* fresh ones, a span of a window's length admits no more of one client's than the three windows
\* that can overlap it: the one that ends in it, through requests that waited, and two more.
\* (A request that waited for longer could open a window anew, from its old instant, as often as
\* other clients have the entry removed: hence the bound on MaxWait.)
ClientIsBounded ==
  \A c \in Clients, t \in 0..time :
    Cardinality({r \in Admitted(c) : call[r].at \in t..(t + Window - 1)}) <= 3 * Limit

\* Who is refused has used up the limit within the last window, by the instant of the request
\* itself: no request is refused on account of a window that was over, or of another client.
RefusalIsEarned ==
  [][\A r \in Calls : call[r].state = "waiting" /\ call'[r].state = "refused" =>
       Cardinality({q \in Admitted(call[r].client) : call[q].at > call[r].now - Window})
         >= Limit]_limiterVars
=============================================================================
