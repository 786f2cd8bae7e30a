----------------------------- MODULE OAuthFlow -----------------------------
(***************************************************************************)
(* internal/account/oauth and httpv1/oauth_handler.go: the cookie that     *)
(* ties the callback of a provider to the browser that was sent there.     *)
(* The browser has one cookie per provider, whatever tabs it has open; the *)
(* server keeps nothing.  Answers reach the browser in any order.          *)
(***************************************************************************)
EXTENDS Integers

CONSTANTS
  Flows,        \* bound: flows the browser ever starts; each stands for its state value
  Providers,
  Provider,     \* the provider of each flow
  NoCookie,
  Ttl,          \* the flow's time to live, and the cookie's
  LastMoment    \* bound of the clock

ASSUME FlowAssumption ==
  /\ Provider \in [Flows -> Providers]
  /\ Ttl \in Nat \ {0} /\ LastMoment \in Nat
  /\ NoCookie \notin Flows

VARIABLES
  moment,   \* time.Now()
  flow,     \* how far each flow has come
  started,  \* when each flow was started: its payload expires Ttl later
  jar,      \* the flow named by the cookie of each provider
  until,    \* when the browser drops that cookie
  sent,     \* the flow named by the cookie each callback carries
  spoilt    \* history: flows whose cookie another answer has replaced or removed, or that took
            \* too long

flowVars == <<moment, flow, started, jar, until, sent, spoilt>>

FlowInit ==
  /\ moment = 0
  /\ flow = [f \in Flows |-> "new"]
  /\ started = [f \in Flows |-> 0]
  /\ jar = [p \in Providers |-> NoCookie]
  /\ until = [p \in Providers |-> 0]
  /\ sent = [f \in Flows |-> NoCookie]
  /\ spoilt = {}

Becomes(f, s) == flow' = [flow EXCEPT ![f] = s]

\* Variant: all providers share one cookie.
AnyProvider(f) == Providers

\* flowCookieName and flowCookiePath: the cookies an answer to flow f sets or clears.
CookieOf(f) == {Provider[f]}

\* An answer of flow f puts flow g, or nothing, into the jar.  Whoever waits at the same provider
\* is cut off from its cookie.
SetCookie(f, g) ==
  /\ jar' = [p \in Providers |-> IF p \in CookieOf(f) THEN g ELSE jar[p]]
  /\ until' = [p \in Providers |-> IF p \in CookieOf(f) THEN moment + Ttl ELSE until[p]]
  /\ spoilt' = spoilt \cup
       {q \in Flows \ {f} : flow[q] = "away" /\ Provider[q] = Provider[f]}

\* start: Flow.Start draws the state, and the redirection carries the cookie.
StartFlow(f) ==
  /\ flow[f] = "new"
  /\ Becomes(f, "starting")
  /\ started' = [started EXCEPT ![f] = moment]
  /\ UNCHANGED <<moment, jar, until, sent, spoilt>>

GoToProvider(f) ==
  /\ flow[f] = "starting"
  /\ Becomes(f, "away")
  /\ SetCookie(f, f)
  /\ UNCHANGED <<moment, started, sent>>

\* The provider sends the browser back, with a code or with an error.
ComeBack(f) ==
  /\ flow[f] = "away"
  /\ \E how \in {"callback", "denied"} : Becomes(f, how)
  /\ sent' = [sent EXCEPT ![f] =
       IF moment < until[Provider[f]] THEN jar[Provider[f]] ELSE NoCookie]
  /\ spoilt' = spoilt \cup {g \in {f} : moment >= started[f] + Ttl}
  /\ UNCHANGED <<moment, started, jar, until>>

\* Flow.Verify: the state of the cookie is the one returned, and has not expired.
Verified(f) == sent[f] = f /\ moment <= started[f] + Ttl

\* The provider or the login behind it may fail.
Callback(f) ==
  /\ flow[f] = "callback"
  /\ \/ Verified(f) /\ (Becomes(f, "served") \/ Becomes(f, "failed"))
     \/ ~Verified(f) /\ Becomes(f, "refused")
  /\ spoilt' = spoilt \cup {g \in {f} : moment > started[f] + Ttl}
  /\ UNCHANGED <<moment, started, jar, until, sent>>

\* Every answer to a callback clears the cookie, whatever came of it.
AnswerCallback(f) ==
  /\ flow[f] \in {"served", "failed", "refused", "denied"}
  /\ Becomes(f, "over")
  /\ SetCookie(f, NoCookie)
  /\ UNCHANGED <<moment, started, sent>>

FlowTick ==
  /\ moment < LastMoment
  /\ moment' = moment + 1
  /\ UNCHANGED <<flow, started, jar, until, sent, spoilt>>

FlowNext ==
  \/ FlowTick
  \/ \E f \in Flows :
       \/ StartFlow(f) \/ GoToProvider(f) \/ ComeBack(f) \/ Callback(f)
       \/ AnswerCallback(f)

FlowSpec == FlowInit /\ [][FlowNext]_flowVars

-----------------------------------------------------------------------------
(* Properties. *)

FlowTypeOK ==
  /\ moment \in 0..LastMoment
  /\ flow \in [Flows -> {"new", "starting", "away", "callback", "denied", "served", "failed",
                         "refused", "over"}]
  /\ started \in [Flows -> 0..LastMoment]
  /\ jar \in [Providers -> Flows \cup {NoCookie}]
  /\ until \in [Providers -> Nat]
  /\ sent \in [Flows -> Flows \cup {NoCookie}]
  /\ spoilt \subseteq Flows

\* A login that comes back in time is not refused unless an answer to another flow of the same
\* provider has reached the browser meanwhile: flows of other providers, flows that were given up
\* before and answers that arrive out of order do not disturb it.
PromptFlowIsServed == \A f \in Flows : flow[f] = "refused" => f \in spoilt
=============================================================================
