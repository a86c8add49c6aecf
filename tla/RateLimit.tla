----------------------------- MODULE RateLimit -----------------------------
(***************************************************************************)
(* The rate limiter in front of swaps, transfers and withdrawals: a Redis  *)
(* counter per user, shared by the routes although their limits differ.    *)
(* Every request increments it; the one that reads 1 back then sets its    *)
(* time to live; a request is refused if it reads back more than the limit *)
(* of its route.  When INCR fails the request passes.  The module looks at *)
(* the counter of one user and at the requests of that user, which run     *)
(* concurrently and may come again.                                        *)
(***************************************************************************)
EXTENDS Integers, FiniteSets, Functions

CONSTANTS Requests, Routes,
          Limit,     \* Limit[route]: how many requests it lets pass
          Window,    \* the time to live of the counter, in ticks
          MaxCount,  \* bound: larger counts are not told apart
          NoTTL, NoRoute

ASSUME RateAssumption ==
  /\ IsFiniteSet(Routes)
  /\ Limit \in [Routes -> Nat \ {0}]
  /\ Window \in Nat \ {0}
  /\ MaxCount \in Nat /\ \A route \in Routes : Limit[route] < MaxCount
  /\ NoTTL \notin 1 .. Window /\ NoRoute \notin Routes

VARIABLES count,     \* the key ratelimit:<user>; 0 while it does not exist
          left,      \* its time to live, or NoTTL
          pc,        \* pc[r]: where request r is
          route,     \* route[r]: the route it came by
          reply,     \* reply[r]: what INCR answered it
          present,   \* the requests whose reply is of the present counter
          admitted,  \* admitted[l]: those of them let pass on route l (history)
          broken     \* has a call on the present counter gone wrong? (history)

vars == <<count, left, pc, route, reply, present, admitted, broken>>

counter == <<count, left>>
history == <<present, admitted, broken>>

TypeOK ==
  /\ count \in 0 .. MaxCount
  /\ left \in 1 .. Window \cup {NoTTL}
  /\ count = 0 => left = NoTTL /\ present = {} /\ ~ broken
  /\ pc \in [Requests -> {"idle", "incr", "expire", "compare"}]
  /\ route \in [Requests -> Routes \cup {NoRoute}]
  /\ \A r \in Requests : pc[r] # "idle" => route[r] \in Routes
  /\ reply \in [Requests -> 0 .. MaxCount]
  /\ present \subseteq Requests
  /\ admitted \in [Routes -> Nat]
  /\ broken \in BOOLEAN

Init ==
  /\ count = 0 /\ left = NoTTL
  /\ pc = [r \in Requests |-> "idle"]
  /\ route = [r \in Requests |-> NoRoute]
  /\ reply = [r \in Requests |-> 0]
  /\ present = {}
  /\ admitted = [l \in Routes |-> 0]
  /\ broken = FALSE

Goto(r, from, to) == pc[r] = from /\ pc' = [pc EXCEPT ![r] = to]

Leave(r) ==
  /\ pc' = [pc EXCEPT ![r] = "idle"]
  /\ route' = [route EXCEPT ![r] = NoRoute]
  /\ reply' = [reply EXCEPT ![r] = 0]
  /\ present' = present \ {r}

Arrive(r, l) ==
  /\ Goto(r, "idle", "incr")
  /\ route' = [route EXCEPT ![r] = l]
  /\ UNCHANGED <<counter, reply, history>>

-----------------------------------------------------------------------------
(* IsRateLimited.                                                          *)

Next1(n) == IF n < MaxCount THEN n + 1 ELSE n

SetsExpirySecond(n) == n = 2
SetsExpiryAlways(n) == n > 0

\* Which reply makes a request set the time to live.
SetsExpiry(n) == n = 1

Incr(r) ==
  /\ Goto(r, "incr", IF SetsExpiry(Next1(count)) THEN "expire" ELSE "compare")
  /\ count' = Next1(count)
  /\ reply' = [reply EXCEPT ![r] = Next1(count)]
  /\ present' = present \cup {r}
  /\ UNCHANGED <<left, route, admitted, broken>>

\* INCR takes effect but its answer is lost; the client library sends it
\* again, or gives up.
IncrReplyLost(r) ==
  /\ pc[r] = "incr"
  /\ count' = Next1(count)
  /\ broken' = TRUE
  /\ UNCHANGED <<left, pc, route, reply, present, admitted>>

\* The error makes the middleware let the request pass.
IncrFails(r) ==
  /\ pc[r] = "incr"
  /\ Leave(r)
  /\ UNCHANGED <<counter, admitted, broken>>

ExpireTwice(r) ==
  /\ Goto(r, "expire", "compare")
  /\ left' = IF count = 0 THEN NoTTL ELSE 2 * Window
  /\ UNCHANGED <<count, route, reply, history>>

\* EXPIRE; it does nothing if the key is gone.
Expire(r) ==
  /\ Goto(r, "expire", "compare")
  /\ left' = IF count = 0 THEN NoTTL ELSE Window
  /\ UNCHANGED <<count, route, reply, history>>

\* Its error is dropped.
ExpireFails(r) ==
  /\ Goto(r, "expire", "compare")
  /\ broken' = (broken \/ r \in present)
  /\ UNCHANGED <<counter, route, reply, present, admitted>>

LimitedLate(r) == reply[r] > Limit[route[r]] + 1

Limited(r) == reply[r] > Limit[route[r]]

\* 429, or on to the handler.
Compare(r) ==
  /\ pc[r] = "compare"
  /\ admitted' = IF ~ Limited(r) /\ r \in present
                 THEN [admitted EXCEPT ![route[r]] = @ + 1] ELSE admitted
  /\ Leave(r)
  /\ UNCHANGED <<counter, broken>>

-----------------------------------------------------------------------------
(* The surroundings.                                                       *)

\* Time passes for the key, and in the end Redis drops it.
Tick ==
  /\ left # NoTTL
  /\ IF left > 1
     THEN left' = left - 1 /\ UNCHANGED <<count, history>>
     ELSE /\ left' = NoTTL /\ count' = 0
          /\ present' = {} /\ broken' = FALSE
          /\ admitted' = [l \in Routes |-> 0]
  /\ UNCHANGED <<pc, route, reply>>

\* The process dies with its requests.
Crash ==
  /\ broken' = (broken \/ \E r \in present : pc[r] = "expire")
  /\ pc' = [r \in Requests |-> "idle"]
  /\ route' = [r \in Requests |-> NoRoute]
  /\ reply' = [r \in Requests |-> 0]
  /\ present' = {}
  /\ UNCHANGED <<counter, admitted>>

RateLimitHandler(r) ==
  Incr(r) \/ IncrReplyLost(r) \/ IncrFails(r) \/ Expire(r) \/ ExpireFails(r)
    \/ Compare(r)

Next ==
  \/ \E r \in Requests : \/ \E l \in Routes : Arrive(r, l)
                         \/ RateLimitHandler(r)
  \/ Tick \/ Crash

Spec == Init /\ [][Next]_vars

\* Fairness: the calls of a request return, and time passes.
FairSpec ==
  /\ Spec
  /\ \A r \in Requests : WF_vars(RateLimitHandler(r))
  /\ WF_vars(Tick)

-----------------------------------------------------------------------------
(* Properties.                                                             *)

\* While a counter lives, the requests it lets pass are no more than the
\* limit, over all routes that have this limit or a smaller one, although
\* they increment and compare concurrently.  (Requests that pass because
\* Redis fails are not counted.)
LimitHolds ==
  \A l \in Routes :
    SumFunctionOnSet(admitted, {m \in Routes : Limit[m] <= Limit[l]}) <= Limit[l]

\* A counter without a time to live, which limits its user for good, is about
\* to get one, or a call on it was lost, failed or cut off by a crash.
CounterExpires ==
  count > 0 /\ left = NoTTL /\ ~ broken =>
    \E r \in present : pc[r] = "expire"

\* "please try again later": unless a call on it goes wrong, every counter
\* ends, even if its user never stops asking.
LimitedIsTemporary == count > 0 ~> count = 0 \/ broken
=============================================================================
