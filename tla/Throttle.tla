------------------------------ MODULE Throttle ------------------------------
(***************************************************************************)
(* The throttling middleware (internal/web/throttle/throttler.go) over one *)
(* LocalTracker: each HTTP request of a client is counted, and is passed   *)
(* to the next handler or refused.                                         *)
(***************************************************************************)
EXTENDS LocalTracker

CONSTANTS
  Limit,       \* RequestLimit, or kDefaultRequestLimit when that is 0
  UintSize     \* 2^64: what a uint64 wraps around at

ASSUME ThrottleAssumption ==
  /\ Limit \in Nat \ {0}
  /\ UintSize \in Nat
  /\ Limit < UintSize

VARIABLES
  verdict,     \* of each request: "none" yet, "passed", "exceeded", "failed"
  remaining    \* the X-RateLimit-Remaining it is answered with

tvars == <<vars, verdict, remaining>>

TTypeOK ==
  /\ TypeOK
  /\ verdict \in [Requests -> {"none", "passed", "exceeded", "failed"}]
  /\ remaining \in [Requests -> 0 .. UintSize - 1]

TInit ==
  /\ Init
  /\ verdict = [q \in Requests |-> "none"]
  /\ remaining = [q \in Requests |-> 0]

\* The mapper fails: the request is answered before it is counted.
MapperFails(q) ==
  /\ pc[q] = "new"
  /\ verdict[q] = "none"
  /\ verdict' = [verdict EXCEPT ![q] = "failed"]
  /\ UNCHANGED <<vars, remaining>>

\* The mapper has an id for the request, and the handler reads the time.
Serve(q, i) ==
  /\ verdict[q] = "none"
  /\ Arrive(q, i, "Increment")
  /\ UNCHANGED <<verdict, remaining>>

\* Mutated: one request too many is let through.
HandleOneMore(q) ==
  /\ Increment(q)
  /\ verdict' = [verdict EXCEPT ![q] =
                   IF Limit + 1 < rate'[q] THEN "exceeded" ELSE "passed"]
  /\ remaining' = [remaining EXCEPT ![q] = (Limit - rate'[q]) % UintSize]

\* Mutated: the headers are made as if before the request was counted.
HandleHeadersFirst(q) ==
  /\ Increment(q)
  /\ verdict' = [verdict EXCEPT ![q] =
                   IF Limit < rate'[q] THEN "exceeded" ELSE "passed"]
  /\ remaining' = [remaining EXCEPT ![q] = (Limit - rate'[q] + 1) % UintSize]

\* The handler counts the request, and compares the rate it is told with the
\* limit.  What it says remains wraps around when that is exceeded.
Handle(q) ==
  /\ Increment(q)
  /\ verdict' = [verdict EXCEPT ![q] =
                   IF Limit < rate'[q] THEN "exceeded" ELSE "passed"]
  /\ remaining' = [remaining EXCEPT ![q] = (Limit - rate'[q]) % UintSize]

\* LimitTracker is exported: someone else asks it for the rate of an id.
Ask(q, i) ==
  /\ verdict[q] = "none"
  /\ Arrive(q, i, "Get")
  /\ UNCHANGED <<verdict, remaining>>

Tell(q) == Get(q) /\ UNCHANGED <<verdict, remaining>>

TNext ==
  \/ \E q \in Requests :
       \/ MapperFails(q) \/ Handle(q) \/ Tell(q)
       \/ \E i \in Ids : Serve(q, i) \/ Ask(q, i)
  \/ Tick /\ UNCHANGED <<verdict, remaining>>

TSpec == TInit /\ [][TNext]_tvars

-----------------------------------------------------------------------------
(* Properties *)

\* A client within its limit is never refused: whoever is told to slow down
\* has made more than Limit requests in this window and the one before,
\* whatever the order in which they were counted.
RefusedOnlyOverLimit ==
  \A q \in Requests : verdict[q] = "exceeded" =>
    LET w == WindowOf(now[q]) IN
    Cardinality(Seen(id[q], w)) + Cardinality(Seen(id[q], w - W)) > Limit

\* The policy sent with every answer, "<limit>;w=<seconds>": of the requests of
\* one window at most Limit pass, if each is counted in the window it came in.
AtMostLimitPass ==
  \A i \in Ids \ late, w \in 0 .. clock :
    Cardinality({q \in Seen(i, w) : verdict[q] = "passed"}) <= Limit

\* How many requests of its window q was counted after, with itself.
Rank(q) ==
  LET w == WindowOf(now[q]) IN
  rate[q] - Decayed(Cardinality(Seen(id[q], w - W)), now[q] - w)

\* X-RateLimit-Remaining is kept to: between a request that passes and a later
\* one of its window that is refused, as many as it said remained were counted.
RemainingIsHonoured ==
  [][\A p, q \in Requests :
       LET i == id[q]  w == WindowOf(now[q]) IN
       /\ verdict[q] = "none" /\ verdict'[q] = "exceeded" /\ i \notin late'
       /\ verdict[p] = "passed" /\ id[p] = i
       /\ WindowOf(now[p]) = w /\ now[p] <= now[q]
       => Cardinality(Seen(i, w)) - Rank(p) >= remaining[p]]_tvars
=============================================================================
