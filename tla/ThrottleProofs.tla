--------------------------- MODULE ThrottleProofs ---------------------------
(***************************************************************************)
(* Proofs about Throttle, for every set of requests and ids, every window, *)
(* and every limit.                                                        *)
(***************************************************************************)
EXTENDS Throttle, LocalTrackerProofs

\* On top of the tracker's invariant: only counted requests are refused, and
\* only those told a rate above the limit.
TInv ==
  /\ IInv
  /\ TTypeOK
  /\ \A q \in Requests : verdict[q] = "exceeded" =>
       pc[q] = "done" /\ op[q] = "Increment" /\ Limit < rate[q]

\* A remainder fits the unsigned integer it is computed in.
LEMMA RemainderFits == \A x \in Int : x % UintSize \in 0 .. UintSize - 1
  BY ThrottleAssumption

\* No handler and no other use of the tracker breaks the invariant.
LEMMA TInvNext ==
  ASSUME TInv, [TNext]_tvars
  PROVE  TInv'
  <1> USE DEF TInv
  <1>1. IInv'
    <2>1. [Next]_vars
      BY DEF TNext, tvars, Next, MapperFails, Serve, Handle, Ask, Tell
    <2> QED BY <2>1, NextIInv
  <1>2. TypeOK'
    BY <1>1 DEF IInv
  <1>3. CASE \E q \in Requests : MapperFails(q)
    BY <1>1, <1>2, <1>3 DEF TTypeOK, MapperFails, vars
  <1>4. CASE \E q \in Requests, i \in Ids : Serve(q, i) \/ Ask(q, i)
    BY <1>1, <1>2, <1>4 DEF TTypeOK, TypeOK, Serve, Ask, Arrive
  <1>5. CASE \E q \in Requests : Handle(q)
    <2> PICK q \in Requests : Handle(q)
      BY <1>5
    <2>1. Limit - rate'[q] \in Int
      BY <1>2, ThrottleAssumption DEF TypeOK
    <2>2. TTypeOK'
      BY <1>2, <2>1, RemainderFits DEF TTypeOK, Handle
    <2> QED BY <1>1, <2>2 DEF TTypeOK, TypeOK, Handle, Increment, Finish
  <1>6. CASE \E q \in Requests : Tell(q)
    BY <1>1, <1>2, <1>6 DEF TTypeOK, TypeOK, Tell, Get, Finish
  <1>7. CASE UNCHANGED <<pc, op, rate, verdict, remaining>>
    BY <1>1, <1>2, <1>7 DEF TTypeOK
  <1> QED BY <1>3, <1>4, <1>5, <1>6, <1>7 DEF TNext, Tick, tvars, vars

\* The invariant of tracker and handlers holds of every reachable state.
THEOREM ThrottleInvariantHolds == TSpec => []TInv
  <1>1. TInit => TInv
    BY InitIInv, ThrottleAssumption DEF TInit, TInv, TTypeOK, IInv, Init
  <1> QED BY <1>1, TInvNext, PTL DEF TSpec

\* Counters, rates and headers have their types whoever calls the tracker; the
\* remaining count fits its uint64 although the rate may be over the limit.
THEOREM ThrottleTypeCorrect == TSpec => []TTypeOK
  <1>1. TInv => TTypeOK
    BY DEF TInv
  <1> QED BY <1>1, ThrottleInvariantHolds, PTL

\* The middleware (throttler.go:85-113) refuses no client that stays within the
\* limit over two windows, however its requests race to be counted.
THEOREM PoliteClientsPass == TSpec => []RefusedOnlyOverLimit
  <1>1. TInv => RefusedOnlyOverLimit
    <2> SUFFICES ASSUME TInv, NEW q \in Requests, verdict[q] = "exceeded"
                 PROVE  LET w == WindowOf(now[q]) IN
                        Cardinality(Seen(id[q], w))
                          + Cardinality(Seen(id[q], w - W)) > Limit
      BY DEF RefusedOnlyOverLimit
    <2> DEFINE w == WindowOf(now[q])
               a == Cardinality(Seen(id[q], w))
               b == Cardinality(Seen(id[q], w - W))
    <2>1. rate[q] <= a + b /\ Limit < rate[q] /\ rate[q] \in Nat
      BY DEF TInv, IInv, TypeOK, RateIsBacked
    <2>2. a \in Nat /\ b \in Nat
      BY SeenFinite DEF TInv, IInv
    <2> HIDE DEF a, b
    <2>3. a + b > Limit
      BY <2>1, <2>2, ThrottleAssumption
    <2> QED BY <2>3 DEF a, b
  <1> QED BY <1>1, ThrottleInvariantHolds, PTL

-----------------------------------------------------------------------------
(* The limit, where the counters are exact *)

Passed(i, w) == {q \in Seen(i, w) : verdict[q] = "passed"}

\* What passes was counted, was told a rate within the limit, and is answered
\* with what is left of it; and of one id and window no more than Limit pass.
PassInv ==
  /\ \A q \in Requests : verdict[q] = "passed" =>
       /\ pc[q] = "done" /\ op[q] = "Increment"
       /\ rate[q] <= Limit /\ remaining[q] = Limit - rate[q]
  /\ \A i \in Ids \ late : \A w \in Int : Cardinality(Passed(i, w)) <= Limit

LimitInv == TInv /\ ExactInv /\ PassInv

\* Finitely many requests pass.
LEMMA PassedFinite ==
  ASSUME IInv, NEW i, NEW w
  PROVE  /\ IsFiniteSet(Passed(i, w)) /\ Cardinality(Passed(i, w)) \in Nat
         /\ Cardinality(Passed(i, w)) <= Cardinality(Seen(i, w))
  <1>1. IsFiniteSet(Seen(i, w)) /\ Cardinality(Seen(i, w)) \in Nat
    BY SeenFinite DEF IInv
  <1>2. Passed(i, w) \subseteq Seen(i, w)
    BY DEF Passed
  <1> QED BY <1>1, <1>2, FS_Subset, FS_CardinalityType

\* A step of the middleware is one of its tracker, as far as the tracker sees.
LEMMA NextOfTracker ==
  ASSUME [TNext]_tvars
  PROVE  [Next]_vars
  BY DEF TNext, tvars, Next, MapperFails, Serve, Handle, Ask, Tell

\* The rate an exact counter yields is at least the number of requests counted
\* in the window, the present one among them.
LEMMA HandleExact ==
  ASSUME TInv, IInv', ExactInv, NEW q \in Requests, Handle(q), id[q] \notin late'
  PROVE  LET i == id[q]  w == WindowOf(now[q]) IN
         /\ now[q] - w \in 0 .. W - 1 /\ rate'[q] \in Nat
         /\ Cardinality(Seen(i, w)) \in Nat /\ Cardinality(Seen(i, w - W)) \in Nat
         /\ rate'[q] = Decayed(Cardinality(Seen(i, w - W)), now[q] - w)
                         + (Cardinality(Seen(i, w)) + 1)
         /\ Cardinality(Seen(i, w)) + 1 <= rate'[q]
  <1> DEFINE i == id[q]  w == WindowOf(now[q])
             a == Cardinality(Seen(i, w))  b == Cardinality(Seen(i, w - W))
             d == Decayed(b, now[q] - w)
  <1>1. IInv /\ Increment(q)
    BY DEF TInv, Handle
  <1>2. pc[q] = "timed" /\ op[q] = "Increment" /\ pc'[q] = "done" /\ [Next]_vars
    BY <1>1 DEF Increment, Finish, IInv, TypeOK, Next
  <1>3. /\ rate'[q] = d + (a + 1) /\ now[q] - w \in 0 .. W - 1
        /\ a \in Nat /\ b \in Nat
    BY <1>1, <1>2, SlidingCount
  <1>4. rate'[q] \in Nat
    BY DEF IInv, TypeOK
  <1>5. d \in Nat
    BY <1>3, DecayedFacts
  <1> HIDE DEF a, b, d
  <1>6. a + 1 <= rate'[q]
    BY <1>3, <1>5
  <1> QED BY <1>3, <1>4, <1>6 DEF a, b, d

\* A step after which the requests that passed are those that passed before.
LEMMA NothingPasses ==
  ASSUME TInv, TInv', PassInv, late \subseteq late',
         \A q \in Requests :
           \/ <<verdict'[q], pc'[q], op'[q], id'[q], now'[q], rate'[q], remaining'[q]>>
                = <<verdict[q], pc[q], op[q], id[q], now[q], rate[q], remaining[q]>>
           \/ verdict[q] # "passed" /\ verdict'[q] # "passed"
  PROVE  PassInv'
  <1>1. ASSUME NEW i, NEW w PROVE Passed(i, w)' = Passed(i, w)
    BY DEF Passed, Seen
  <1> QED BY <1>1 DEF PassInv

\* Handling a request keeps the invariant of those that passed.
LEMMA HandlePasses ==
  ASSUME LimitInv, TInv', ExactInv', NEW q \in Requests, Handle(q)
  PROVE  PassInv'
  <1>1. /\ verdict \in [Requests -> {"none", "passed", "exceeded", "failed"}]
        /\ remaining \in [Requests -> 0 .. UintSize - 1]
        /\ rate \in [Requests -> Nat] /\ rate' \in [Requests -> Nat]
        /\ pc \in [Requests -> {"new", "timed", "done"}] /\ IInv /\ IInv'
    BY DEF LimitInv, TInv, TTypeOK, IInv, TypeOK
  <1>2. /\ pc[q] = "timed" /\ op[q] = "Increment" /\ pc'[q] = "done"
        /\ UNCHANGED <<op, id, now>> /\ late \subseteq late'
        /\ \A p \in Requests \ {q} : /\ pc'[p] = pc[p] /\ rate'[p] = rate[p]
                                     /\ verdict'[p] = verdict[p]
                                     /\ remaining'[p] = remaining[p]
    BY <1>1 DEF Handle, Increment, Finish
  <1>3. verdict'[q] = IF Limit < rate'[q] THEN "exceeded" ELSE "passed"
    BY <1>1 DEF Handle
  <1>4. verdict[q] # "passed"
    BY <1>2 DEF LimitInv, PassInv
  <1>5. CASE Limit < rate'[q]
    BY <1>2, <1>3, <1>4, <1>5, NothingPasses DEF LimitInv
  <1>6. CASE ~(Limit < rate'[q])
    <2>1. rate'[q] \in Nat /\ rate'[q] <= Limit
      BY <1>1, <1>6, ThrottleAssumption
    <2>2. Limit - rate'[q] \in 0 .. UintSize - 1
      BY <2>1, ThrottleAssumption
    <2>3. remaining'[q] = Limit - rate'[q]
      <3>1. \A x \in 0 .. UintSize - 1 : x % UintSize = x
        BY ThrottleAssumption
      <3> QED BY <1>1, <2>2, <3>1 DEF Handle
    <2>4. ASSUME NEW p \in Requests, verdict'[p] = "passed"
          PROVE  /\ pc'[p] = "done" /\ op'[p] = "Increment"
                 /\ rate'[p] <= Limit /\ remaining'[p] = Limit - rate'[p]
      BY <1>2, <2>1, <2>3, <2>4 DEF LimitInv, PassInv
    <2>5. ASSUME NEW i \in Ids, i \notin late', NEW w \in Int
          PROVE  Cardinality(Passed(i, w)') <= Limit
      <3>1. i \in Ids \ late
        BY <1>2, <2>5
      <3>2. CASE i = id[q] /\ w = WindowOf(now[q])
        <4>1. /\ Cardinality(Seen(i, w)) \in Nat
              /\ Cardinality(Seen(i, w)) + 1 <= rate'[q]
          BY <1>1, <2>5, <3>2, HandleExact DEF LimitInv
        <4>2. Cardinality(Seen(i, w)') = Cardinality(Seen(i, w)) + 1
          <5>1. Finish(q, "Increment", rate'[q])
            BY <1>1 DEF Handle, Increment, Finish
          <5> QED BY <1>1, <2>1, <3>2, <5>1, SeenStep
        <4>3. IsFiniteSet(Seen(i, w)') /\ IsFiniteSet(Passed(i, w)')
              /\ Cardinality(Seen(i, w)') \in Nat /\ Cardinality(Passed(i, w)') \in Nat
              /\ Cardinality(Passed(i, w)') <= Cardinality(Seen(i, w)')
          <5>1. IsFiniteSet(Under')
            BY <1>1 DEF IInv
          <5>2. Seen(i, w)' \subseteq Under'
            BY DEF Seen, Under
          <5>3. IsFiniteSet(Seen(i, w)')
            BY <5>1, <5>2, FS_Subset
          <5>4. Passed(i, w)' \subseteq Seen(i, w)'
            BY DEF Passed
          <5> QED BY <5>3, <5>4, FS_Subset, FS_CardinalityType
        <4> QED BY <2>1, <4>1, <4>2, <4>3, ThrottleAssumption
      <3>3. CASE ~(i = id[q] /\ w = WindowOf(now[q]))
        <4>1. Passed(i, w)' = Passed(i, w)
          BY <1>2, <1>4, <3>3 DEF Passed, Seen
        <4> QED BY <3>1, <4>1 DEF LimitInv, PassInv
      <3> QED BY <3>2, <3>3
    <2> QED BY <2>4, <2>5 DEF PassInv
  <1> QED BY <1>5, <1>6

\* No step lets one more pass than the counts allow.
LEMMA LimitInvNext ==
  ASSUME LimitInv, [TNext]_tvars
  PROVE  LimitInv'
  <1>1. TInv' /\ ExactInv'
    BY TInvNext, NextOfTracker, NextExact DEF LimitInv, TInv
  <1>2. CASE \E q \in Requests : Handle(q)
    BY <1>1, <1>2, HandlePasses DEF LimitInv
  <1>3. ASSUME NEW q \in Requests,
               \/ MapperFails(q) \/ Tell(q)
               \/ \E i \in Ids : Serve(q, i) \/ Ask(q, i)
        PROVE  PassInv'
    <2>1. /\ TypeOK /\ TTypeOK /\ late' = late
          /\ \A p \in Requests \ {q} :
               <<verdict'[p], pc'[p], op'[p], id'[p], now'[p], rate'[p], remaining'[p]>>
                 = <<verdict[p], pc[p], op[p], id[p], now[p], rate[p], remaining[p]>>
      BY <1>3 DEF LimitInv, TInv, TTypeOK, TypeOK, MapperFails, vars, Tell, Get,
                  Finish, Serve, Ask, Arrive
    <2>2. pc[q] # "done"
      BY <1>3, <2>1 DEF MapperFails, Tell, Get, Finish, Serve, Ask, Arrive
    <2>3. verdict[q] # "passed"
      BY <2>2 DEF LimitInv, PassInv
    <2>4. verdict'[q] # "passed"
      BY <1>3, <2>1, <2>3 DEF TTypeOK, MapperFails, Tell, Serve, Ask
    <2> QED BY <1>1, <2>1, <2>3, <2>4, NothingPasses DEF LimitInv
  <1>4. CASE UNCHANGED <<pc, op, id, now, rate, late, verdict, remaining>>
    BY <1>1, <1>4, NothingPasses DEF LimitInv
  <1> QED BY <1>1, <1>2, <1>3, <1>4 DEF LimitInv, TNext, Tick, tvars, vars

\* What passes was counted and told what remains (throttler.go:96-112), and of
\* one punctual client never more than the limit passes in a window.
THEOREM LimitInvariantHolds == TSpec => []LimitInv
  <1>1. TInit => LimitInv
    <2> SUFFICES ASSUME TInit PROVE LimitInv
      OBVIOUS
    <2>1. TInv
      BY InitIInv, ThrottleAssumption DEF TInit, TInv, TTypeOK, IInv, Init
    <2>2. ExactInv
      BY InitExact DEF TInit
    <2>3. ASSUME NEW i, NEW w PROVE Cardinality(Passed(i, w)) <= Limit
      <3>1. Passed(i, w) = {}
        BY DEF TInit, Passed, Seen
      <3> QED BY <3>1, FS_EmptySet, ThrottleAssumption
    <2> QED BY <2>1, <2>2, <2>3 DEF TInit, PassInv, LimitInv
  <1> QED BY <1>1, LimitInvNext, PTL DEF TSpec

\* The policy sent with every answer is true: of the requests of one client in
\* one window the middleware (throttler.go:92-113) lets at most Limit pass, if
\* each is counted in the window it came in.
THEOREM PolicyIsKept == TSpec => []AtMostLimitPass
  <1>1. LimitInv => AtMostLimitPass
    <2> SUFFICES ASSUME LimitInv, NEW i \in Ids \ late, NEW w \in 0 .. clock
                 PROVE  Cardinality({q \in Seen(i, w) : verdict[q] = "passed"}) <= Limit
      BY DEF AtMostLimitPass
    <2>1. w \in Int
      BY DEF LimitInv, TInv, IInv, TypeOK
    <2> QED BY <2>1 DEF LimitInv, PassInv, Passed
  <1> QED BY <1>1, LimitInvariantHolds, PTL

\* X-RateLimit-Remaining (throttler.go:94-104) is kept to: when a request passes
\* with a certain count remaining, as many more of its window are counted
\* before a later one is refused.
THEOREM RemainingIsKept == TSpec => RemainingIsHonoured
  <1> DEFINE Kept(p, q) ==
        LET i == id[q]  w == WindowOf(now[q]) IN
        /\ verdict[q] = "none" /\ verdict'[q] = "exceeded" /\ i \notin late'
        /\ verdict[p] = "passed" /\ id[p] = i
        /\ WindowOf(now[p]) = w /\ now[p] <= now[q]
        => Cardinality(Seen(i, w)) - Rank(p) >= remaining[p]
  <1>1. LimitInv /\ [TNext]_tvars => \A p, q \in Requests : Kept(p, q)
    <2> SUFFICES ASSUME LimitInv, [TNext]_tvars, NEW p \in Requests,
                        NEW q \in Requests,
                        verdict[q] = "none", verdict'[q] = "exceeded",
                        id[q] \notin late', verdict[p] = "passed",
                        id[p] = id[q], WindowOf(now[p]) = WindowOf(now[q]),
                        now[p] <= now[q]
                 PROVE  Cardinality(Seen(id[q], WindowOf(now[q]))) - Rank(p)
                          >= remaining[p]
      OBVIOUS
    <2> DEFINE i == id[q]  w == WindowOf(now[q])
               a == Cardinality(Seen(i, w))  b == Cardinality(Seen(i, w - W))
               x == Decayed(b, now[q] - w)  y == Decayed(b, now[p] - w)
    <2>1. TInv /\ ExactInv /\ PassInv /\ IInv /\ IInv'
      BY TInvNext DEF LimitInv, TInv
    <2>2. Handle(q) /\ Limit < rate'[q]
      BY <2>1 DEF TNext, tvars, vars, MapperFails, Serve, Handle, Ask, Tell, TInv,
                  TTypeOK
    <2>3. /\ now[q] - w \in 0 .. W - 1 /\ rate'[q] \in Nat /\ a \in Nat /\ b \in Nat
          /\ rate'[q] = x + (a + 1)
      BY <2>1, <2>2, HandleExact
    <2>4. /\ now[p] \in Nat /\ now[q] \in Nat /\ rate[p] \in Nat /\ w \in Nat
          /\ w <= now[p]
      BY <2>1, WindowFacts DEF IInv, TypeOK
    <2>5. remaining[p] = Limit - rate[p]
      BY <2>1 DEF PassInv
    <2>6. Rank(p) = rate[p] - y
      BY DEF Rank
    <2> HIDE DEF w, a, b, x, y
    <2>7. now[p] - w \in 0 .. W - 1 /\ now[p] - w <= now[q] - w
      BY <2>3, <2>4, TrackerAssumption
    <2>8. x \in Nat /\ y \in Nat /\ x <= y
      BY <2>3, <2>7, DecayedFacts, DecayedMonotone DEF x, y
    <2>9. a - (rate[p] - y) >= Limit - rate[p]
      BY <2>2, <2>3, <2>4, <2>8, ThrottleAssumption
    <2> QED BY <2>5, <2>6, <2>9 DEF w, a
  <1>2. LimitInv /\ [TNext]_tvars => [\A p, q \in Requests : Kept(p, q)]_tvars
    BY <1>1
  <1> QED BY <1>2, LimitInvariantHolds, PTL DEF TSpec, RemainingIsHonoured

\* The middleware and whoever else asks do with the tracker what LocalTracker
\* allows, so that its theorems hold under them.
LEMMA HandlersUseTracker == TSpec => Spec
  <1>1. TInit => Init
    BY DEF TInit
  <1>2. [TNext]_tvars => [Next]_vars
    BY NextOfTracker
  <1> QED BY <1>1, <1>2, PTL DEF TSpec, Spec

\* What is proved of the tracker (local.go) holds of it in the hands of the
\* middleware: its counters are right, and so are the rates it tells.
THEOREM TrackerKeepsItsPromises ==
  TSpec => /\ [](NeverOvercounts /\ ExactUnlessLate /\ SurvivorsAreRecent)
           /\ RateIsSlidingCount
  BY HandlersUseTracker, CountersNeverOvercount, CountersAreExact,
     PurgeLeavesOnlyRecent, RatesAreSlidingCounts, PTL
=============================================================================
