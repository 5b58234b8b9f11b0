---------------------------- MODULE LocalTracker ----------------------------
(***************************************************************************)
(* The in-memory request counter of the throttle                           *)
(* (internal/web/throttle/local.go): for every client id, the requests of  *)
(* one window of time and of the one before it.                            *)
(*                                                                         *)
(* Get and Increment run under one mutex, so each is a step.  The time     *)
(* they work with is not read there: a caller reads it first               *)
(* (throttler.go:92) and may get the mutex much later, after callers that  *)
(* read theirs later.  A tick is a millisecond; windows start at the       *)
(* multiples of W, as time.Truncate has it.                                *)
(***************************************************************************)
EXTENDS Integers, FiniteSets

CONSTANTS
  Requests,     \* calls of Get and Increment, each made once: bounds the counts
  Ids,          \* ids the request mapper computes
  W,            \* windowLength, in milliseconds
  PurgeDelay,   \* purgeDelay
  Short,        \* pairs <<previous, elapsed>>: see Decayed
  MaxTime,      \* bound: the clock stops here
  None          \* no counter

ASSUME TrackerAssumption ==
  /\ W \in Nat \ {0}
  /\ PurgeDelay \in Nat
  /\ MaxTime \in Nat
  /\ Short \subseteq (Nat \ {0}) \X (1 .. W - 1)
  /\ \A s \in Short : (s[1] * (W - s[2])) % W = 0
  /\ None \notin [current : Nat, previous : Nat, window : Nat]

VARIABLES
  clock,
  counters,    \* tracker.counters: the map, with None for an absent id
  purgeTime,   \* tracker.purgeTime
  pc,          \* of each request: "new", "timed" (now is read), "done"
  op,          \* which operation it calls
  id,          \* for which id
  now,         \* the time it read
  rate,        \* the result it got
  late         \* history: ids with a request counted after its window ended

vars == <<clock, counters, purgeTime, pc, op, id, now, rate, late>>

Counters == [current : Nat, previous : Nat, window : Nat]

TypeOK ==
  /\ clock \in Nat
  /\ counters \in [Ids -> Counters \cup {None}]
  /\ purgeTime \in Nat
  /\ pc \in [Requests -> {"new", "timed", "done"}]
  /\ op \in [Requests -> {"none", "Get", "Increment"}]
  /\ id \in [Requests -> Ids \cup {None}]
  /\ now \in [Requests -> Nat]
  /\ rate \in [Requests -> Nat]
  /\ late \subseteq Ids

\* The tracker is created at any moment of a window.
Init ==
  /\ clock \in 0 .. W - 1
  /\ counters = [i \in Ids |-> None]
  /\ purgeTime = clock + PurgeDelay
  /\ pc = [q \in Requests |-> "new"]
  /\ op = [q \in Requests |-> "none"]
  /\ id = [q \in Requests |-> None]
  /\ now = [q \in Requests |-> 0]
  /\ rate = [q \in Requests |-> 0]
  /\ late = {}

-----------------------------------------------------------------------------
(* Helpers *)

\* now.Truncate(windowLength)
WindowOf(t) == t - (t % W)

\* uint(float64(pv) * decay): what still counts of p requests of the window
\* before.  The quotient decay and the product are rounded to float64, the
\* result is truncated.  So it is the integer part of the exact product, or, of
\* a product that is a whole number, sometimes one less: with a window of a
\* minute, of 100 requests 28 and not 29 are left after 42.6 seconds.  Which
\* these are is a matter of W alone; Short may be any of them.
Decayed(p, elapsed) ==
  (p * (W - elapsed)) \div W - (IF <<p, elapsed>> \in Short THEN 1 ELSE 0)

\* Mutated: previous decays with the time left, not the time gone.
SlidingRateRising(c, elapsed) == (c.previous * elapsed) \div W + c.current

\* Mutated: the operands of the subtraction are swapped.
SlidingRateSwapped(c, elapsed) ==
  (c.previous * (elapsed - W)) \div W + c.current

\* computeSlidingRate
SlidingRate(c, elapsed) == Decayed(c.previous, elapsed) + c.current

\* Mutated: everything that is not of this window goes.
PurgedEager(t) ==
  [i \in Ids |->
    IF purgeTime <= t /\ counters[i] # None /\ counters[i].window + W <= t
    THEN None ELSE counters[i]]

\* Mutated: the recent ones go, the old ones stay.
PurgedRecent(t) ==
  [i \in Ids |->
    IF purgeTime <= t /\ counters[i] # None /\ counters[i].window + 3 * W > t
    THEN None ELSE counters[i]]

\* The counters purge(t) leaves, and when it runs next.
Purged(t) ==
  [i \in Ids |->
    IF purgeTime <= t /\ counters[i] # None /\ counters[i].window + 3 * W <= t
    THEN None ELSE counters[i]]

NextPurge(t) == IF purgeTime <= t THEN t + PurgeDelay ELSE purgeTime

\* Mutated: previous is kept when the window moves on by more than one.
CountedStale(c, w) ==
  CASE c = None          -> [current |-> 1, previous |-> 0, window |-> w]
    [] c # None /\ c.window = w -> [c EXCEPT !.current = @ + 1]
    [] OTHER             -> [current |-> 1, previous |-> c.current, window |-> w]

\* The counter c of an id, None for a new one, after a request of window w.
Counted(c, w) ==
  CASE c = None -> [current |-> 1, previous |-> 0, window |-> w]
    [] c # None /\ c.window = w ->
         [current |-> c.current + 1, previous |-> c.previous, window |-> w]
    [] c # None /\ c.window + W = w ->
         [current |-> 1, previous |-> c.current, window |-> w]
    [] OTHER -> [current |-> 1, previous |-> 0, window |-> w]

\* What Get tells of counter c at time t: of the window before, the bare count.
Peeked(c, t) ==
  CASE c # None /\ c.window = WindowOf(t) -> SlidingRate(c, t % W)
    [] c # None /\ c.window + W = WindowOf(t) -> c.current
    [] OTHER -> 0

-----------------------------------------------------------------------------
(* The operations *)

\* A caller reads the time, on its way to tracker operation o for id i.
Arrive(q, i, o) ==
  /\ pc[q] = "new"
  /\ pc' = [pc EXCEPT ![q] = "timed"]
  /\ op' = [op EXCEPT ![q] = o]
  /\ id' = [id EXCEPT ![q] = i]
  /\ now' = [now EXCEPT ![q] = clock]
  /\ UNCHANGED <<clock, counters, purgeTime, rate, late>>

Finish(q, o, r) ==
  /\ pc[q] = "timed"
  /\ op[q] = o
  /\ pc' = [pc EXCEPT ![q] = "done"]
  /\ rate' = [rate EXCEPT ![q] = r]
  /\ purgeTime' = NextPurge(now[q])
  /\ UNCHANGED <<clock, op, id, now>>

Get(q) ==
  LET live == Purged(now[q]) IN
  /\ Finish(q, "Get", Peeked(live[id[q]], now[q]))
  /\ counters' = live
  /\ UNCHANGED late

Increment(q) ==
  LET t == now[q]
      live == Purged(t)
      c == Counted(live[id[q]], WindowOf(t))
  IN
  /\ Finish(q, "Increment", SlidingRate(c, t % W))
  /\ counters' = [live EXCEPT ![id[q]] = c]
  /\ late' = IF WindowOf(t) = WindowOf(clock) THEN late ELSE late \cup {id[q]}

Tick ==
  /\ clock < MaxTime
  /\ clock' = clock + 1
  /\ UNCHANGED <<counters, purgeTime, pc, op, id, now, rate, late>>

Next ==
  \/ \E q \in Requests :
       \/ \E i \in Ids, o \in {"Get", "Increment"} : Arrive(q, i, o)
       \/ Get(q) \/ Increment(q)
  \/ Tick

Spec == Init /\ [][Next]_vars

-----------------------------------------------------------------------------
(* Properties *)

\* The requests for id i that were counted in the window that starts at w.
Seen(i, w) ==
  {q \in Requests : /\ pc[q] = "done" /\ op[q] = "Increment"
                    /\ id[q] = i /\ WindowOf(now[q]) = w}

\* No counter ever says more than was requested, in whatever order requests
\* get the mutex: what is lost in a race is lost in the client's favour.
NeverOvercounts ==
  \A i \in Ids : counters[i] # None =>
    /\ counters[i].current <= Cardinality(Seen(i, counters[i].window))
    /\ counters[i].previous <= Cardinality(Seen(i, counters[i].window - W))

\* As long as every request of an id is counted in the window it came in, its
\* counter is exact: neither rolling over nor purging loses a request that
\* still matters.
ExactUnlessLate ==
  \A i \in Ids \ late :
    LET c == counters[i] IN
    /\ c # None =>
         /\ c.current = Cardinality(Seen(i, c.window))
         /\ c.previous = Cardinality(Seen(i, c.window - W))
         /\ \A w \in 0 .. clock : w > c.window => Seen(i, w) = {}
    /\ c = None => \A w \in 0 .. clock : w + 3 * W > clock => Seen(i, w) = {}

\* What a request is told is then the count of its window with itself, and of
\* the window before as much as the sliding window still covers - without the
\* last fraction of a request, or at most one request less.
RateIsSlidingCount ==
  [][\A q \in Requests : pc[q] = "timed" /\ op[q] = "Increment" /\ pc'[q] = "done" =>
       LET i == id[q]  w == WindowOf(now[q])
           share == Cardinality(Seen(i, w - W)) * (w + W - now[q])
           carried == rate'[q] - (Cardinality(Seen(i, w)) + 1)
       IN  i \in late' \/ /\ carried >= 0
                          /\ carried * W <= share /\ share <= (carried + 1) * W]_vars

\* The map does not keep ids forever: whatever is in it was counted less than
\* three windows before the last purge, or after it.
SurvivorsAreRecent ==
  \A i \in Ids \ late : counters[i] # None =>
    counters[i].window + 3 * W + PurgeDelay > purgeTime

\* "The counter is old enough for a full reset" (local.go:120): a counter that
\* is reset with nothing carried over is of an earlier window than the request.
ResetsOnlyOldCounters ==
  [][\A i \in Ids :
       LET c == counters[i]  d == counters'[i] IN
       c # None /\ d # None /\ d.window # c.window /\ d.previous = 0 =>
         c.window < d.window]_vars
=============================================================================
