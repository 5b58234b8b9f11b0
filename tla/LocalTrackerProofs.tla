------------------------- MODULE LocalTrackerProofs -------------------------
(***************************************************************************)
(* Proofs about LocalTracker, for every set of requests and ids, every     *)
(* window length and every purge delay.                                    *)
(***************************************************************************)
EXTENDS LocalTracker, FiniteSetTheorems, TLAPS

Under == {q \in Requests : pc[q] # "new"}

\* What a request was told, it and others have really requested.
RateIsBacked ==
  \A q \in Requests : pc[q] = "done" /\ op[q] = "Increment" =>
    LET w == WindowOf(now[q]) IN
    rate[q] <= Cardinality(Seen(id[q], w)) + Cardinality(Seen(id[q], w - W))

(***************************************************************************)
(* The inductive invariant.  Requests may be infinite; those made so far   *)
(* are not.                                                                *)
(***************************************************************************)
IInv ==
  /\ TypeOK
  /\ \A q \in Requests : pc[q] # "new" => id[q] \in Ids
  /\ IsFiniteSet(Under)
  /\ NeverOvercounts
  /\ RateIsBacked

(***************************************************************************)
(* The second invariant: what is exact about an id none of whose requests  *)
(* was counted late.  Its counter starts at a multiple of W, none of its   *)
(* requests is of a later window than the counter's, and the purge that    *)
(* dropped it came three windows after the last of them.                   *)
(***************************************************************************)
CountedFor(q, i) == pc[q] = "done" /\ op[q] = "Increment" /\ id[q] = i

CounterExact(i) ==
  LET c == counters[i] IN
  /\ c.window % W = 0 /\ c.window <= clock
  /\ c.current = Cardinality(Seen(i, c.window))
  /\ c.previous = Cardinality(Seen(i, c.window - W))
  /\ \A q \in Requests : CountedFor(q, i) => WindowOf(now[q]) <= c.window
  /\ c.window + 3 * W + PurgeDelay > purgeTime

NoneRecent(i) ==
  \A q \in Requests : CountedFor(q, i) => WindowOf(now[q]) + 3 * W <= clock

ExactInv ==
  /\ \A q \in Requests : now[q] <= clock
  /\ purgeTime <= clock + PurgeDelay
  /\ \A i \in Ids \ late :
       IF counters[i] = None THEN NoneRecent(i) ELSE CounterExact(i)

-----------------------------------------------------------------------------
(* Lemmas about the operators *)

\* Of a quotient and a remainder, the dividend.
LEMMA Division ==
  ASSUME NEW t \in Nat
  PROVE  t \div W \in Nat /\ t = (t \div W) * W + (t % W)
  BY TrackerAssumption

\* A multiple of the length of a window leaves no remainder.
LEMMA MultipleOfW ==
  ASSUME NEW k \in Nat
  PROVE  (k * W) % W = 0
  BY TrackerAssumption

\* A window starts at a multiple of W.
LEMMA WindowStart ==
  ASSUME NEW t \in Nat
  PROVE  WindowOf(t) % W = 0
  <1>1. WindowOf(t) = (t \div W) * W
    BY Division, TrackerAssumption DEF WindowOf
  <1> QED BY <1>1, Division, MultipleOfW

\* Two multiples of the length are that far apart or more.
LEMMA NextMultiple ==
  ASSUME NEW m \in Nat, NEW n \in Nat, m < n
  PROVE  m * W + W <= n * W
  <1>1. n - m \in Nat /\ n - m >= 1
    OBVIOUS
  <1>2. (n - m) * W >= W
    BY <1>1, TrackerAssumption
  <1>3. n * W = m * W + (n - m) * W
    BY TrackerAssumption
  <1> QED BY <1>2, <1>3, TrackerAssumption

\* Two windows are the same or a whole window apart.
LEMMA WindowsApart ==
  ASSUME NEW a \in Nat, NEW b \in Nat, a % W = 0, b % W = 0, a < b
  PROVE  a + W <= b
  <1> DEFINE m == a \div W  n == b \div W
  <1>1. a = m * W /\ b = n * W /\ m \in Nat /\ n \in Nat
    BY Division, TrackerAssumption
  <1> HIDE DEF m, n
  <1>2. m < n
    BY <1>1, TrackerAssumption
  <1> QED BY <1>1, <1>2, NextMultiple

\* A time lies in its window.
LEMMA WindowFacts ==
  ASSUME NEW t \in Nat
  PROVE  /\ t % W \in 0 .. W - 1
         /\ WindowOf(t) \in Nat
         /\ WindowOf(t) <= t /\ t < WindowOf(t) + W
  <1>1. t % W \in 0 .. W - 1 /\ t % W <= t
    BY TrackerAssumption
  <1> QED BY <1>1, TrackerAssumption DEF WindowOf

\* The window before weighs at most what was counted in it.
LEMMA DecayBound ==
  ASSUME NEW p \in Nat, NEW k \in 0 .. W
  PROVE  (p * k) \div W \in Nat /\ (p * k) \div W <= p
  <1> DEFINE d == (p * k) \div W
  <1>1. p * k \in Nat /\ p * k <= p * W
    BY TrackerAssumption
  <1>2. d \in Int /\ d * W <= p * k /\ p * k < (d + 1) * W
    BY <1>1, TrackerAssumption
  <1>3. d >= 0
    BY <1>1, <1>2, TrackerAssumption
  <1>4. d <= p
    BY <1>1, <1>2, TrackerAssumption
  <1> QED BY <1>2, <1>3, <1>4

\* What is left of the window before is a natural number, at most what was
\* counted in it, and never more than the exact share.
LEMMA DecayedFacts ==
  ASSUME NEW p \in Nat, NEW e \in 0 .. W - 1
  PROVE  /\ Decayed(p, e) \in Nat /\ Decayed(p, e) <= p
         /\ Decayed(p, e) * W <= p * (W - e)
         /\ p * (W - e) <= (Decayed(p, e) + 1) * W
  <1> DEFINE k == W - e
             d == (p * k) \div W
  <1>1. k \in 0 .. W /\ k > 0
    BY TrackerAssumption
  <1>2. d \in Nat /\ d <= p
    BY <1>1, DecayBound
  <1>3. p * k \in Nat
    BY <1>1
  <1>4. d * W <= p * k /\ p * k <= (d + 1) * W
    BY <1>2, <1>3, TrackerAssumption
  <1>5. CASE <<p, e>> \notin Short
    BY <1>2, <1>4, <1>5 DEF Decayed
  <1>6. CASE <<p, e>> \in Short
    <2>1. p > 0 /\ (p * k) % W = 0
      BY <1>6, TrackerAssumption
    <2>2. p * k = d * W
      <3>1. p * k = d * W + ((p * k) % W)
        BY <1>3, Division
      <3>2. d * W \in Nat
        BY <1>2, TrackerAssumption
      <3> QED BY <2>1, <3>1, <3>2
    <2>3. p * k > 0
      BY <1>1, <2>1, TrackerAssumption
    <2>4. d >= 1
      BY <1>2, <2>2, <2>3, TrackerAssumption
    <2>5. Decayed(p, e) = d - 1
      BY <1>2, <1>6 DEF Decayed
    <2> HIDE DEF d, k
    <2>6. (d - 1) * W <= d * W /\ (d - 1) + 1 = d
      BY <1>2, <2>4, TrackerAssumption
    <2>7. d - 1 \in Nat /\ d - 1 <= p
      BY <1>2, <2>4
    <2>8. d * W <= d * W
      BY <1>2, TrackerAssumption
    <2> QED BY <2>2, <2>5, <2>6, <2>7, <2>8 DEF k
  <1> QED BY <1>5, <1>6

\* The later in its window a request is, the less is left of the window before:
\* a product that falls short of a whole number is still above all later ones.
LEMMA DecayedMonotone ==
  ASSUME NEW p \in Nat, NEW e \in 0 .. W - 1, NEW f \in 0 .. W - 1, e <= f
  PROVE  Decayed(p, f) <= Decayed(p, e)
  <1> DEFINE m == p * (W - e)  n == p * (W - f)
  <1>1. m \in Nat /\ n \in Nat /\ n <= m
    BY TrackerAssumption
  <1>2. Decayed(p, f) \in Nat /\ Decayed(p, f) <= n \div W
    <2>1. n \div W \in Int
      BY <1>1, TrackerAssumption
    <2> HIDE DEF n
    <2>2. Decayed(p, f) \in {n \div W, (n \div W) - 1}
      BY <2>1 DEF Decayed, n
    <2> QED BY <2>1, <2>2, DecayedFacts
  <1>3. CASE <<p, e>> \notin Short
    <2>1. Decayed(p, e) = m \div W
      <3>1. m \div W \in Int
        BY <1>1, TrackerAssumption
      <3> QED BY <1>3, <3>1 DEF Decayed
    <2> HIDE DEF m, n
    <2>2. n \div W <= m \div W /\ n \div W \in Int /\ m \div W \in Int
      BY <1>1, TrackerAssumption
    <2> QED BY <1>2, <2>1, <2>2
  <1>4. CASE <<p, e>> \in Short /\ e < f
    <2>1. p > 0 /\ m % W = 0
      BY <1>4, TrackerAssumption
    <2>2. n < m
      <3>1. m = n + p * (f - e) /\ p * (f - e) > 0
        BY <1>4, <2>1, TrackerAssumption
      <3> QED BY <1>1, <3>1
    <2> HIDE DEF n
    <2>3. Decayed(p, e) = (m \div W) - 1
      <3>1. m \div W \in Int
        BY <1>1, TrackerAssumption
      <3> QED BY <1>4, <3>1 DEF Decayed
    <2> HIDE DEF m
    <2>4. n \div W < m \div W /\ n \div W \in Int /\ m \div W \in Int
      BY <1>1, <2>1, <2>2, TrackerAssumption
    <2> QED BY <1>2, <2>3, <2>4
  <1>5. CASE e = f
    BY <1>2, <1>5
  <1> QED BY <1>3, <1>4, <1>5

\* The rate is a natural number, and at most the sum of the two counts.
LEMMA SlidingRateBound ==
  ASSUME NEW c \in Counters, NEW t \in Nat
  PROVE  /\ SlidingRate(c, t % W) \in Nat
         /\ SlidingRate(c, t % W) <= c.previous + c.current
  <1>1. t % W \in 0 .. W - 1
    BY WindowFacts
  <1>2. c.previous \in Nat /\ c.current \in Nat
    BY DEF Counters
  <1> DEFINE d == Decayed(c.previous, t % W)
  <1>3. d \in Nat /\ d <= c.previous
    BY <1>1, <1>2, DecayedFacts
  <1> HIDE DEF d
  <1>4. SlidingRate(c, t % W) = d + c.current
    BY DEF SlidingRate, d
  <1> QED BY <1>2, <1>3, <1>4

\* Counting a request gives a counter.
LEMMA CountedType ==
  ASSUME NEW c \in Counters \cup {None}, NEW w \in Nat
  PROVE  Counted(c, w) \in Counters
  BY TrackerAssumption DEF Counted, Counters

\* A purge takes counters away and changes none.
LEMMA PurgedType ==
  ASSUME TypeOK, NEW t \in Nat
  PROVE  /\ Purged(t) \in [Ids -> Counters \cup {None}]
         /\ \A i \in Ids : Purged(t)[i] \in {counters[i], None}
         /\ NextPurge(t) \in Nat
  BY TrackerAssumption DEF TypeOK, Purged, NextPurge

\* Of finitely many requests, finitely many are in a window.
LEMMA SeenFinite ==
  ASSUME IsFiniteSet(Under), NEW i, NEW w
  PROVE  IsFiniteSet(Seen(i, w)) /\ Cardinality(Seen(i, w)) \in Nat
  <1>1. Seen(i, w) \subseteq Under
    BY DEF Seen, Under
  <1> QED BY <1>1, FS_Subset, FS_CardinalityType

-----------------------------------------------------------------------------
(* Every step preserves the invariant *)

\* A step that counts nothing leaves the invariant alone, if it changes no
\* request that was counted.
LEMMA NothingCounted ==
  ASSUME IInv, TypeOK', IsFiniteSet(Under)',
         \A q \in Requests : pc'[q] # "new" => id'[q] \in Ids,
         \A i \in Ids : counters'[i] \in {counters[i], None},
         \A q \in Requests :
           \/ <<pc'[q], op'[q], id'[q], now'[q], rate'[q]>>
                = <<pc[q], op[q], id[q], now[q], rate[q]>>
           \/ /\ pc[q] # "done" \/ op[q] # "Increment"
              /\ pc'[q] # "done" \/ op'[q] # "Increment"
  PROVE  IInv'
  <1>1. ASSUME NEW i, NEW w PROVE Seen(i, w)' = Seen(i, w)
    BY DEF Seen
  <1>2. NeverOvercounts'
    BY <1>1 DEF IInv, NeverOvercounts
  <1>3. RateIsBacked'
    BY <1>1 DEF IInv, RateIsBacked
  <1> QED BY <1>2, <1>3 DEF IInv

\* At first nobody was counted.
LEMMA InitIInv ==
  ASSUME Init
  PROVE  IInv
  <1>1. TypeOK
    BY TrackerAssumption DEF Init, TypeOK
  <1>2. Under = {}
    BY DEF Init, Under
  <1>3. NeverOvercounts /\ RateIsBacked
    BY DEF Init, NeverOvercounts, RateIsBacked
  <1> QED BY <1>1, <1>2, <1>3, FS_EmptySet DEF Init, IInv

\* Reading the time counts nobody.
LEMMA ArriveIInv ==
  ASSUME IInv, NEW q \in Requests, NEW i \in Ids,
         NEW o \in {"Get", "Increment"}, Arrive(q, i, o)
  PROVE  IInv'
  <1>1. TypeOK'
    BY DEF IInv, TypeOK, Arrive
  <1>2. Under' = Under \cup {q}
    BY DEF IInv, TypeOK, Arrive, Under
  <1>3. IsFiniteSet(Under)'
    BY <1>2, FS_AddElement DEF IInv
  <1>4. \A r \in Requests : pc'[r] # "new" => id'[r] \in Ids
    BY DEF IInv, TypeOK, Arrive
  <1> QED BY <1>1, <1>3, <1>4, NothingCounted DEF IInv, TypeOK, Arrive

\* What Get and Increment share.
LEMMA FinishFacts ==
  ASSUME IInv, NEW q \in Requests, NEW o, NEW r \in Nat, Finish(q, o, r)
  PROVE  /\ now[q] \in Nat /\ id[q] \in Ids /\ op[q] = o
         /\ pc' \in [Requests -> {"new", "timed", "done"}]
         /\ rate' \in [Requests -> Nat] /\ purgeTime' \in Nat
         /\ pc[q] = "timed" /\ pc'[q] = "done" /\ rate'[q] = r
         /\ \A p \in Requests \ {q} : pc'[p] = pc[p] /\ rate'[p] = rate[p]
         /\ UNCHANGED <<clock, op, id, now>>
         /\ IsFiniteSet(Under)'
         /\ \A p \in Requests : pc'[p] # "new" => id'[p] \in Ids
  <1>1. Under' = Under
    BY DEF IInv, TypeOK, Finish, Under
  <1>2. now[q] \in Nat
    BY DEF IInv, TypeOK
  <1>3. purgeTime' \in Nat
    BY <1>2, PurgedType DEF IInv, Finish
  <1> QED BY <1>1, <1>2, <1>3 DEF IInv, TypeOK, Finish

\* Get purges, and counts nobody.
LEMMA GetIInv ==
  ASSUME IInv, NEW q \in Requests, Get(q)
  PROVE  IInv'
  <1> DEFINE live == Purged(now[q])
             c == live[id[q]]
             r == Peeked(c, now[q])
  <1>1. now[q] \in Nat /\ id[q] \in Ids
    BY DEF IInv, TypeOK, Get, Finish
  <1>2. /\ live \in [Ids -> Counters \cup {None}]
        /\ \A i \in Ids : live[i] \in {counters[i], None}
    BY <1>1, PurgedType DEF IInv
  <1>3. Finish(q, "Get", r) /\ counters' = live /\ late' = late
    BY DEF Get
  <1>4. c \in Counters \cup {None}
    BY <1>1, <1>2
  <1> HIDE DEF c, live
  <1>5. r \in Nat
    <2>1. CASE c = None
      BY <2>1 DEF Peeked
    <2>2. CASE c \in Counters
      BY <1>1, <2>2, SlidingRateBound DEF Peeked, Counters
    <2> QED BY <1>4, <2>1, <2>2
  <1> HIDE DEF r
  <1>6. TypeOK'
    BY <1>2, <1>3, <1>5, FinishFacts DEF IInv, TypeOK
  <1> QED BY <1>2, <1>3, <1>5, <1>6, FinishFacts, NothingCounted

\* An Increment adds one request to one window of one id.
LEMMA SeenStep ==
  ASSUME IInv, NEW q \in Requests, NEW r \in Nat, Finish(q, "Increment", r),
         NEW i, NEW w
  PROVE  /\ Cardinality(Seen(i, w)) \in Nat /\ Cardinality(Seen(i, w)') \in Nat
         /\ Cardinality(Seen(i, w)') =
              IF i = id[q] /\ w = WindowOf(now[q])
              THEN Cardinality(Seen(i, w)) + 1 ELSE Cardinality(Seen(i, w))
  <1>1. q \notin Seen(i, w)
    BY DEF Seen, Finish
  <1>2. Seen(i, w)' = IF i = id[q] /\ w = WindowOf(now[q])
                      THEN Seen(i, w) \cup {q} ELSE Seen(i, w)
    BY FinishFacts DEF Seen
  <1>3. IsFiniteSet(Seen(i, w)) /\ Cardinality(Seen(i, w)) \in Nat
    BY SeenFinite DEF IInv
  <1> QED BY <1>1, <1>2, <1>3, FS_AddElement

\* Increment counts its request once.
LEMMA IncrementIInv ==
  ASSUME IInv, NEW q \in Requests, Increment(q)
  PROVE  IInv'
  <1> DEFINE t == now[q]
             w == WindowOf(t)
             live == Purged(t)
             old == live[id[q]]
             c == Counted(old, w)
             r == SlidingRate(c, t % W)
             N(i, x) == Cardinality(Seen(i, x))
             After(i, x) ==
               Cardinality({p \in Requests : /\ pc'[p] = "done"
                                             /\ op'[p] = "Increment"
                                             /\ id'[p] = i
                                             /\ WindowOf(now'[p]) = x})
  <1>1. t \in Nat /\ id[q] \in Ids /\ w \in Nat
    BY WindowFacts DEF IInv, TypeOK, Increment, Finish
  <1>2. /\ live \in [Ids -> Counters \cup {None}]
        /\ \A i \in Ids : live[i] \in {counters[i], None}
    BY <1>1, PurgedType DEF IInv
  <1>3. /\ Finish(q, "Increment", r)
        /\ counters' = [live EXCEPT ![id[q]] = c]
        /\ late' \in {late, late \cup {id[q]}}
    BY DEF Increment
  <1>4. old \in Counters \cup {None} /\ old \in {counters[id[q]], None}
    BY <1>1, <1>2
  <1> HIDE DEF old, live, t, w
  <1>5. c \in Counters
    BY <1>1, <1>4, CountedType
  <1>6. r \in Nat /\ r <= c.previous + c.current
    BY <1>1, <1>5, SlidingRateBound
  <1>7. ASSUME NEW i, NEW x
        PROVE  /\ N(i, x) \in Nat
               /\ After(i, x) =
                    IF i = id[q] /\ x = w THEN N(i, x) + 1 ELSE N(i, x)
    <2>1. Cardinality(Seen(i, x)') = After(i, x)
      BY DEF Seen
    <2> QED BY <1>3, <1>6, <2>1, SeenStep DEF w, t
  <1>8. /\ c.window = w
        /\ c.current <= N(id[q], w) + 1
        /\ c.previous <= N(id[q], w - W)
    <2>1. N(id[q], w) \in Nat /\ N(id[q], w - W) \in Nat
      BY <1>7
    <2>2. CASE old = None
      BY <2>1, <2>2 DEF Counted
    <2>3. CASE old # None
      <3>1. /\ old = counters[id[q]] /\ old \in Counters
            /\ old.current <= N(id[q], old.window)
            /\ old.previous <= N(id[q], old.window - W)
        BY <1>1, <1>4, <2>3 DEF IInv, NeverOvercounts
      <3> HIDE DEF N
      <3>2. CASE old.window = w
        <4>1. c = [current |-> old.current + 1, previous |-> old.previous,
                   window |-> w]
          BY <1>1, <2>3, <3>2, TrackerAssumption DEF Counted
        <4>2. /\ c.window = w /\ c.current = old.current + 1
              /\ c.previous = old.previous
              /\ old.current \in Nat /\ old.previous \in Nat
          BY <3>1, <3>2, <4>1 DEF Counters
        <4> QED BY <2>1, <3>1, <3>2, <4>2
      <3>3. CASE old.window # w /\ old.window + W = w
        <4>1. w - W = old.window
          BY <3>1, <3>3, TrackerAssumption DEF Counters
        <4>2. c = [current |-> 1, previous |-> old.current, window |-> w]
          BY <2>3, <3>3 DEF Counted
        <4> QED BY <2>1, <3>1, <4>1, <4>2
      <3>4. CASE old.window # w /\ old.window + W # w
        BY <2>1, <2>3, <3>4 DEF Counted
      <3> QED BY <3>2, <3>3, <3>4
    <2> QED BY <2>2, <2>3
  <1> HIDE DEF c, r, N, After
  <1>9. TypeOK'
    BY <1>1, <1>2, <1>3, <1>5, <1>6, FinishFacts DEF IInv, TypeOK
  <1>10. w - W # w
    BY <1>1, TrackerAssumption
  <1>11. ASSUME NEW i \in Ids, counters'[i] # None
         PROVE  /\ counters'[i].current <= After(i, counters'[i].window)
                /\ counters'[i].previous <= After(i, counters'[i].window - W)
    <2>1. CASE i = id[q]
      <3>1. counters'[i] = c
        BY <1>2, <1>3, <2>1
      <3>2. After(i, w) = N(i, w) + 1 /\ After(i, w - W) = N(i, w - W)
        BY <1>7, <1>10, <2>1
      <3> QED BY <1>8, <2>1, <3>1, <3>2
    <2>2. CASE i # id[q]
      <3>1. counters'[i] = counters[i]
        BY <1>2, <1>3, <1>11, <2>2
      <3>2. ASSUME NEW x PROVE After(i, x) = N(i, x)
        BY <1>7, <2>2
      <3>3. /\ counters[i].current <= N(i, counters[i].window)
            /\ counters[i].previous <= N(i, counters[i].window - W)
        BY <3>1, <1>11 DEF IInv, NeverOvercounts, N
      <3> QED BY <3>1, <3>2, <3>3
    <2> QED BY <2>1, <2>2
  <1>12. ASSUME NEW p \in Requests, pc'[p] = "done", op'[p] = "Increment"
         PROVE  rate'[p] <= After(id'[p], WindowOf(now'[p]))
                              + After(id'[p], WindowOf(now'[p]) - W)
    <2> DEFINE v == WindowOf(now[p])
    <2>1. id'[p] = id[p] /\ WindowOf(now'[p]) = v
      BY <1>3, <1>6, FinishFacts
    <2>2. CASE p = q
      <3>1. v = w /\ rate'[p] = r
        BY <1>3, <1>6, <2>2, FinishFacts DEF w, t
      <3>2. After(id[q], w) = N(id[q], w) + 1
            /\ After(id[q], w - W) = N(id[q], w - W)
            /\ N(id[q], w) \in Nat /\ N(id[q], w - W) \in Nat
        BY <1>7, <1>10
      <3>3. c.current \in Nat /\ c.previous \in Nat
        BY <1>5 DEF Counters
      <3> HIDE DEF v
      <3> QED BY <1>6, <1>8, <2>1, <2>2, <3>1, <3>2, <3>3
    <2>3. CASE p # q
      <3>1. rate'[p] <= N(id[p], v) + N(id[p], v - W) /\ rate'[p] \in Nat
        BY <1>3, <1>6, <1>12, <2>3, FinishFacts DEF IInv, RateIsBacked, N
      <3> HIDE DEF v
      <3>2. N(id[p], v) \in Nat
            /\ After(id[p], v) \in {N(id[p], v), N(id[p], v) + 1}
        BY <1>7
      <3>3. N(id[p], v - W) \in Nat
            /\ After(id[p], v - W) \in {N(id[p], v - W), N(id[p], v - W) + 1}
        BY <1>7
      <3> QED BY <2>1, <3>1, <3>2, <3>3
    <2> QED BY <2>2, <2>3
  <1>13. NeverOvercounts' /\ RateIsBacked'
    BY <1>11, <1>12 DEF NeverOvercounts, RateIsBacked, Seen, After
  <1> QED BY <1>3, <1>6, <1>9, <1>13, FinishFacts DEF IInv

\* No operation overcounts.
LEMMA NextIInv ==
  ASSUME IInv, [Next]_vars
  PROVE  IInv'
  <1>1. CASE Tick \/ UNCHANGED vars
    <2>1. TypeOK'
      BY <1>1 DEF Tick, vars, IInv, TypeOK
    <2>2. UNCHANGED <<counters, pc, op, id, now, rate>>
      BY <1>1 DEF Tick, vars
    <2>3. Under' = Under
      BY <2>2 DEF Under
    <2> QED BY <2>1, <2>2, <2>3, NothingCounted DEF IInv
  <1> QED BY <1>1, ArriveIInv, GetIInv, IncrementIInv DEF Next

-----------------------------------------------------------------------------
(* Every step preserves the second invariant *)

\* What Get and Increment have in hand: the time their caller read is past, and
\* a counter that survives the purge is recent.
LEMMA PurgeFacts ==
  ASSUME IInv, ExactInv, NEW t \in Nat, t <= clock, purgeTime' = NextPurge(t),
         NEW i \in Ids \ late
  PROVE  LET live == Purged(t) IN
         /\ purgeTime' <= clock + PurgeDelay
         /\ live[i] # None =>
              /\ live[i] = counters[i] /\ live[i] \in Counters
              /\ live[i].window + 3 * W + PurgeDelay > purgeTime'
         /\ live[i] = None =>
              \A q \in Requests :
                CountedFor(q, i) => WindowOf(now[q]) + 3 * W <= clock
  <1> DEFINE c == counters[i]
  <1>1. /\ clock \in Nat /\ c \in Counters \cup {None} /\ purgeTime \in Nat
        /\ \A q \in Requests : now[q] \in Nat
    BY DEF IInv, TypeOK
  <1>2. IF c = None THEN NoneRecent(i) ELSE CounterExact(i)
    BY DEF ExactInv
  <1>3. purgeTime' <= clock + PurgeDelay
    BY <1>1, TrackerAssumption DEF NextPurge, ExactInv
  <1>4. ASSUME c # None, Purged(t)[i] = c
        PROVE  c.window + 3 * W + PurgeDelay > purgeTime'
    <2>1. c.window \in Nat
      BY <1>1, <1>4 DEF Counters
    <2>2. CASE purgeTime <= t
      <3>1. ~(c.window + 3 * W <= t)
        BY <1>4, <2>2 DEF Purged
      <3> QED BY <1>1, <2>1, <2>2, <3>1, TrackerAssumption DEF NextPurge
    <2>3. CASE ~(purgeTime <= t)
      BY <1>2, <1>4, <2>3 DEF NextPurge, CounterExact
    <2> QED BY <2>2, <2>3
  <1>5. ASSUME c # None, Purged(t)[i] = None, NEW q \in Requests, CountedFor(q, i)
        PROVE  WindowOf(now[q]) + 3 * W <= clock
    <2>1. c.window + 3 * W <= t /\ c.window \in Nat
      BY <1>1, <1>5 DEF Purged, Counters
    <2>2. WindowOf(now[q]) <= c.window /\ WindowOf(now[q]) \in Nat
      BY <1>1, <1>2, <1>5, WindowFacts DEF CounterExact
    <2> QED BY <1>1, <2>1, <2>2, TrackerAssumption
  <1>6. Purged(t)[i] \in {c, None}
    BY PurgedType DEF IInv
  <1> QED BY <1>1, <1>2, <1>3, <1>4, <1>5, <1>6 DEF NoneRecent

\* A step that counts nothing and drops only what is old.
LEMMA NothingCountedExact ==
  ASSUME IInv, IInv', ExactInv, late' = late, clock <= clock',
         \A q \in Requests : now'[q] <= clock',
         purgeTime' <= clock' + PurgeDelay,
         \A q \in Requests :
           \/ <<pc'[q], op'[q], id'[q], now'[q]>> = <<pc[q], op[q], id[q], now[q]>>
           \/ /\ pc[q] # "done" \/ op[q] # "Increment"
              /\ pc'[q] # "done" \/ op'[q] # "Increment",
         \A i \in Ids \ late :
           \/ /\ counters'[i] = counters[i]
              /\ counters[i] # None =>
                   counters[i].window + 3 * W + PurgeDelay > purgeTime'
           \/ counters'[i] = None /\ NoneRecent(i)
  PROVE  ExactInv'
  <1>1. ASSUME NEW i \in Ids \ late, NEW w PROVE Seen(i, w)' = Seen(i, w)
    BY DEF Seen
  <1>2. ASSUME NEW i \in Ids \ late, NEW q \in Requests, CountedFor(q, i)'
        PROVE  CountedFor(q, i) /\ now'[q] = now[q]
    BY <1>2 DEF CountedFor
  <1>3. clock \in Nat /\ clock' \in Nat /\ \A q \in Requests : now[q] \in Nat
    BY DEF IInv, TypeOK
  <1>4. ASSUME NEW i \in Ids \ late, NoneRecent(i)
        PROVE  NoneRecent(i)'
    <2> SUFFICES ASSUME NEW q \in Requests, CountedFor(q, i)'
                 PROVE  WindowOf(now'[q]) + 3 * W <= clock'
      BY DEF NoneRecent
    <2>1. CountedFor(q, i) /\ WindowOf(now'[q]) = WindowOf(now[q])
      BY <1>2
    <2>2. WindowOf(now[q]) + 3 * W <= clock
      BY <1>4, <2>1 DEF NoneRecent
    <2>3. WindowOf(now[q]) \in Nat
      BY <1>3, WindowFacts
    <2> QED BY <1>3, <2>1, <2>2, <2>3, TrackerAssumption
  <1>5. ASSUME NEW i \in Ids \ late, counters[i] # None, CounterExact(i),
               counters'[i] = counters[i],
               counters[i].window + 3 * W + PurgeDelay > purgeTime'
        PROVE  CounterExact(i)'
    <2>1. counters[i].window \in Nat
      BY <1>5 DEF IInv, TypeOK, Counters
    <2>2. counters[i].window <= clock'
      BY <1>3, <1>5, <2>1 DEF CounterExact
    <2>3. ASSUME NEW q \in Requests, CountedFor(q, i)'
          PROVE  WindowOf(now'[q]) <= counters[i].window
      BY <1>2, <1>5, <2>3 DEF CounterExact
    <2> QED BY <1>1, <1>5, <2>2, <2>3 DEF CounterExact
  <1> QED BY <1>4, <1>5 DEF ExactInv

\* Requests that are not counted late find a counter of their own window, of
\* the one before, or of one so old that nothing of it matters.
LEMMA CountedExact ==
  ASSUME IInv, ExactInv, NEW q \in Requests, Increment(q), id[q] \notin late'
  PROVE  LET i == id[q]
             w == WindowOf(now[q])
             c == counters'[i]
         IN  /\ i \in Ids \ late /\ w = WindowOf(clock)
             /\ c \in Counters /\ c.window = w
             /\ c.current = Cardinality(Seen(i, w)) + 1
             /\ c.previous = Cardinality(Seen(i, w - W))
             /\ rate'[q] = SlidingRate(c, now[q] % W)
             /\ \A p \in Requests : CountedFor(p, i) => WindowOf(now[p]) <= w
  <1> DEFINE t == now[q]
             i == id[q]
             w == WindowOf(t)
             live == Purged(t)
             old == live[i]
             c == Counted(old, w)
             N(x) == Cardinality(Seen(i, x))
  <1>1. /\ t \in Nat /\ i \in Ids /\ w \in Nat /\ w <= t /\ t < w + W
        /\ w % W = 0 /\ clock \in Nat /\ t <= clock
        /\ \A p \in Requests : now[p] \in Nat /\ now[p] <= clock
    BY WindowFacts, WindowStart DEF IInv, TypeOK, Increment, Finish, ExactInv
  <1>2. i \notin late /\ w = WindowOf(clock)
    BY DEF Increment
  <1>3. clock < w + W
    BY <1>1, <1>2, WindowFacts
  <1>4. purgeTime' = NextPurge(t)
    BY DEF Increment, Finish
  <1>5. /\ old # None => /\ old = counters[i] /\ old \in Counters
                         /\ CounterExact(i)
        /\ old = None =>
             \A p \in Requests : CountedFor(p, i) => WindowOf(now[p]) + 3 * W <= clock
    BY <1>1, <1>2, <1>4, PurgeFacts DEF ExactInv
  <1>6. counters'[i] = c /\ rate'[q] = SlidingRate(c, t % W)
    <2>1. live \in [Ids -> Counters \cup {None}]
      BY <1>1, PurgedType DEF IInv
    <2> HIDE DEF live, old
    <2> QED BY <1>1, <2>1 DEF Increment, Finish, IInv, TypeOK, live, old
  <1>7. old \in Counters \cup {None} /\ c \in Counters
    BY <1>1, <1>5, CountedType
  <1> HIDE DEF old, live, t, w
  <1>8. ASSUME NEW x \in Int,
               \A p \in Requests : CountedFor(p, i) => WindowOf(now[p]) # x
        PROVE  N(x) = 0
    <2>1. Seen(i, x) = {}
      BY <1>8 DEF Seen, CountedFor
    <2> QED BY <2>1, FS_EmptySet
  <1>9. \A p \in Requests : WindowOf(now[p]) \in Nat
    BY <1>1, WindowFacts
  <1>10. CASE old = None
    <2>1. c = [current |-> 1, previous |-> 0, window |-> w]
      BY <1>10 DEF Counted
    <2>2. \A p \in Requests : CountedFor(p, i) => WindowOf(now[p]) + W < w
      BY <1>1, <1>3, <1>5, <1>9, <1>10, TrackerAssumption
    <2>3. N(w) = 0 /\ N(w - W) = 0
      BY <1>1, <1>8, <1>9, <2>2, TrackerAssumption
    <2>4. \A p \in Requests : CountedFor(p, i) => WindowOf(now[p]) <= w
      BY <1>1, <1>9, <2>2, TrackerAssumption
    <2> HIDE DEF N, c
    <2> QED BY <1>1, <1>2, <1>6, <1>7, <2>1, <2>3, <2>4 DEF N, t, w
  <1>11. CASE old # None
    <2>1. /\ old.window \in Nat /\ old.window <= clock /\ old.window % W = 0
          /\ old.current = N(old.window) /\ old.previous = N(old.window - W)
          /\ old.current \in Nat /\ old.previous \in Nat
          /\ \A p \in Requests : CountedFor(p, i) => WindowOf(now[p]) <= old.window
      BY <1>5, <1>11 DEF CounterExact, Counters
    <2>2. old.window <= w
      <3>1. CASE w < old.window
        BY <1>1, <1>3, <2>1, <3>1, WindowsApart, TrackerAssumption
      <3> QED BY <1>1, <2>1, <3>1
    <2>3. \A p \in Requests : CountedFor(p, i) => WindowOf(now[p]) <= w
      BY <1>1, <1>9, <2>1, <2>2
    <2> HIDE DEF N
    <2>4. CASE old.window = w
      <3>1. c = [current |-> old.current + 1, previous |-> old.previous,
                 window |-> w]
        BY <1>1, <1>11, <2>4, TrackerAssumption DEF Counted
      <3> HIDE DEF c
      <3>2. c.current = N(w) + 1 /\ c.previous = N(w - W) /\ c.window = w
        BY <2>1, <2>4, <3>1
      <3> QED BY <1>1, <1>2, <1>6, <1>7, <2>3, <3>2 DEF N, t, w
    <2>5. CASE old.window # w /\ old.window + W = w
      <3>1. c = [current |-> 1, previous |-> old.current, window |-> w]
        BY <1>11, <2>5 DEF Counted
      <3>2. w - W = old.window
        BY <1>1, <2>1, <2>5, TrackerAssumption
      <3>3. N(w) = 0
        BY <1>1, <1>8, <1>9, <2>1, <2>5, TrackerAssumption DEF N
      <3> HIDE DEF c
      <3>4. c.current = N(w) + 1 /\ c.previous = N(w - W) /\ c.window = w
        BY <2>1, <3>1, <3>2, <3>3
      <3> QED BY <1>1, <1>2, <1>6, <1>7, <2>3, <3>4 DEF N, t, w
    <2>6. CASE old.window # w /\ old.window + W # w
      <3>1. c = [current |-> 1, previous |-> 0, window |-> w]
        BY <1>11, <2>6 DEF Counted
      <3>2. old.window + W <= w
        BY <1>1, <2>1, <2>2, <2>6, WindowsApart
      <3>3. w - W \in Int /\ old.window < w - W /\ old.window < w
        BY <1>1, <2>1, <2>6, <3>2, TrackerAssumption
      <3>4. N(w) = 0 /\ N(w - W) = 0
        BY <1>1, <1>8, <1>9, <2>1, <3>3 DEF N
      <3> HIDE DEF c
      <3>5. c.current = N(w) + 1 /\ c.previous = N(w - W) /\ c.window = w
        BY <3>1, <3>4
      <3> QED BY <1>1, <1>2, <1>6, <1>7, <2>3, <3>5 DEF N, t, w
    <2> QED BY <2>4, <2>5, <2>6
  <1> QED BY <1>10, <1>11

\* Increment leaves the counts of punctual clients exact.
LEMMA IncrementExact ==
  ASSUME IInv, IInv', ExactInv, NEW q \in Requests, Increment(q)
  PROVE  ExactInv'
  <1> DEFINE t == now[q]
             r == SlidingRate(Counted(Purged(t)[id[q]], WindowOf(t)), t % W)
  <1>1. /\ t \in Nat /\ t <= clock /\ id[q] \in Ids /\ clock \in Nat
        /\ clock' = clock /\ now' = now /\ id' = id
        /\ purgeTime' = NextPurge(t) /\ purgeTime' \in Nat
    BY DEF IInv, TypeOK, Increment, Finish, ExactInv
  <1>2. purgeTime' <= clock + PurgeDelay
    BY <1>1, TrackerAssumption DEF NextPurge, ExactInv
  <1>3. Finish(q, "Increment", r) /\ r \in Nat
    BY DEF Increment, IInv, TypeOK, Finish
  <1>4. ASSUME NEW i, i # id[q], NEW w PROVE Seen(i, w)' = Seen(i, w)
    BY <1>3, <1>4, FinishFacts DEF Seen
  <1>5. ASSUME NEW p \in Requests, NEW i, CountedFor(p, i)'
        PROVE  CountedFor(p, i) \/ (p = q /\ i = id[q])
    BY <1>3, <1>5, FinishFacts DEF CountedFor
  <1>6. ASSUME NEW i \in Ids, i \notin late', i # id[q]
        PROVE  IF counters'[i] = None THEN NoneRecent(i)' ELSE CounterExact(i)'
    <2> DEFINE live == Purged(t)
    <2>1. i \in Ids \ late
      BY <1>6 DEF Increment
    <2>2. live \in [Ids -> Counters \cup {None}] /\ live[i] \in {counters[i], None}
      BY <1>1, PurgedType DEF IInv
    <2>3. /\ live[i] # None =>
               live[i].window + 3 * W + PurgeDelay > purgeTime'
          /\ live[i] = None => NoneRecent(i)
      BY <1>1, <2>1, PurgeFacts DEF NoneRecent
    <2>4. IF counters[i] = None THEN NoneRecent(i) ELSE CounterExact(i)
      BY <2>1 DEF ExactInv
    <2> HIDE DEF live
    <2>5. counters'[i] = live[i]
      BY <1>6, <2>2 DEF Increment, live
    <2>6. CASE live[i] = None
      BY <1>1, <1>5, <1>6, <2>3, <2>5, <2>6 DEF NoneRecent
    <2>7. CASE live[i] # None
      BY <1>1, <1>4, <1>5, <1>6, <2>2, <2>3, <2>4, <2>5, <2>7 DEF CounterExact
    <2> QED BY <2>6, <2>7
  <1>7. ASSUME NEW i \in Ids, i \notin late', i = id[q]
        PROVE  counters'[i] # None /\ CounterExact(i)'
    <2>1. PICK w : w = WindowOf(t)
      OBVIOUS
    <2>2. PICK c : c = counters'[i]
      OBVIOUS
    <2>3. /\ i \in Ids \ late /\ w = WindowOf(clock)
          /\ c \in Counters /\ c.window = w
          /\ c.current = Cardinality(Seen(i, w)) + 1
          /\ c.previous = Cardinality(Seen(i, w - W))
          /\ \A p \in Requests : CountedFor(p, i) => WindowOf(now[p]) <= w
      BY <1>7, <2>1, <2>2, CountedExact
    <2>4. w \in Nat /\ w <= clock /\ clock < w + W /\ w % W = 0
      BY <1>1, <2>3, WindowFacts, WindowStart
    <2> HIDE DEF r
    <2>5. /\ Cardinality(Seen(i, w)') = Cardinality(Seen(i, w)) + 1
          /\ Cardinality(Seen(i, w - W)') = Cardinality(Seen(i, w - W))
      <3>1. w - W # w
        BY <2>4, TrackerAssumption
      <3> QED BY <1>3, <1>7, <2>1, <3>1, SeenStep
    <2>6. ASSUME NEW p \in Requests, CountedFor(p, i)'
          PROVE  WindowOf(now'[p]) <= w
      <3>1. CountedFor(p, i) \/ WindowOf(now[p]) = w
        BY <1>5, <2>1, <2>6
      <3> QED BY <1>1, <2>3, <2>4, <3>1
    <2>7. w + 3 * W + PurgeDelay > purgeTime'
      BY <1>1, <1>2, <2>4, TrackerAssumption
    <2>8. c # None
      BY <2>3, TrackerAssumption DEF Counters
    <2> QED BY <1>1, <2>2, <2>3, <2>4, <2>5, <2>6, <2>7, <2>8 DEF CounterExact
  <1>8. \A p \in Requests : now'[p] <= clock'
    BY <1>1 DEF ExactInv
  <1> QED BY <1>1, <1>2, <1>6, <1>7, <1>8 DEF ExactInv

\* At first no counts are missing.
LEMMA InitExact ==
  ASSUME Init
  PROVE  ExactInv
  <1>1. clock \in Nat
    BY TrackerAssumption DEF Init
  <1> QED BY <1>1, TrackerAssumption DEF Init, ExactInv, NoneRecent, CountedFor

\* No operation makes the counts of a punctual client wrong.
LEMMA NextExact ==
  ASSUME IInv, IInv', ExactInv, [Next]_vars
  PROVE  ExactInv'
  <1>1. clock \in Nat /\ purgeTime \in Nat /\ \A q \in Requests : now[q] \in Nat
    BY DEF IInv, TypeOK
  <1>2. ASSUME NEW i \in Ids \ late
        PROVE  counters[i] # None =>
                 counters[i].window + 3 * W + PurgeDelay > purgeTime
    BY DEF ExactInv, CounterExact
  <1>3. ASSUME NEW q \in Requests, NEW i \in Ids, NEW o, Arrive(q, i, o)
        PROVE  ExactInv'
    <2>1. \A p \in Requests : now'[p] <= clock'
      BY <1>1, <1>3 DEF Arrive, ExactInv, IInv, TypeOK
    <2>2. \A p \in Requests :
            \/ <<pc'[p], op'[p], id'[p], now'[p]>> = <<pc[p], op[p], id[p], now[p]>>
            \/ pc[p] # "done" /\ pc'[p] # "done"
      BY <1>3 DEF Arrive, IInv, TypeOK
    <2>3. UNCHANGED <<clock, counters, purgeTime, late>>
          /\ purgeTime' <= clock' + PurgeDelay
      BY <1>3 DEF Arrive, ExactInv
    <2> QED BY <1>1, <1>2, <2>1, <2>2, <2>3, NothingCountedExact
  <1>4. ASSUME NEW q \in Requests, Get(q)
        PROVE  ExactInv'
    <2> DEFINE live == Purged(now[q])
    <2>1. /\ now[q] \in Nat /\ now[q] <= clock /\ purgeTime' = NextPurge(now[q])
          /\ UNCHANGED <<clock, op, id, now, late>> /\ counters' = live
          /\ op[q] = "Get" /\ \A p \in Requests \ {q} : pc'[p] = pc[p]
      BY <1>1, <1>4 DEF Get, Finish, ExactInv, IInv, TypeOK
    <2>2. purgeTime' <= clock' + PurgeDelay
      BY <1>1, <2>1, TrackerAssumption DEF NextPurge, ExactInv
    <2>3. ASSUME NEW i \in Ids \ late
          PROVE  \/ /\ counters'[i] = counters[i]
                    /\ counters[i] # None =>
                         counters[i].window + 3 * W + PurgeDelay > purgeTime'
                 \/ counters'[i] = None /\ NoneRecent(i)
      BY <2>1, PurgeFacts DEF NoneRecent
    <2>4. \A p \in Requests : now'[p] <= clock'
      BY <2>1 DEF ExactInv
    <2>5. \A p \in Requests :
            \/ <<pc'[p], op'[p], id'[p], now'[p]>> = <<pc[p], op[p], id[p], now[p]>>
            \/ op[p] # "Increment" /\ op'[p] # "Increment"
      BY <2>1
    <2> QED BY <1>1, <2>1, <2>2, <2>3, <2>4, <2>5, NothingCountedExact
  <1>5. CASE Tick \/ UNCHANGED vars
    <2>1. /\ UNCHANGED <<counters, purgeTime, pc, op, id, now, late>>
          /\ clock' \in Nat /\ clock <= clock'
      BY <1>1, <1>5 DEF Tick, vars
    <2>2. /\ \A p \in Requests : now[p] <= clock
          /\ purgeTime <= clock + PurgeDelay
      BY DEF ExactInv
    <2>3. \A p \in Requests : now'[p] <= clock'
      BY <1>1, <2>1, <2>2
    <2>4. purgeTime' <= clock' + PurgeDelay
      <3>1. \A a, b, c, d \in Nat : a <= b + d /\ b <= c => a <= c + d
        OBVIOUS
      <3>2. purgeTime' = purgeTime /\ PurgeDelay \in Nat
        BY <2>1, TrackerAssumption
      <3> QED BY <1>1, <2>1, <2>2, <3>1, <3>2
    <2> QED BY <1>1, <1>2, <2>1, <2>3, <2>4, NothingCountedExact
  <1> QED BY <1>3, <1>4, <1>5, IncrementExact DEF Next

-----------------------------------------------------------------------------
(* Theorems *)

\* The inductive invariant holds of every reachable state.
THEOREM InvariantHolds == Spec => []IInv
  <1> QED BY InitIInv, NextIInv, PTL DEF Spec

\* The counters and the rates computed from them are natural numbers: the
\* subtraction in computeSlidingRate (local.go:134-138) never goes below zero.
THEOREM TypeCorrect == Spec => []TypeOK
  <1>1. IInv => TypeOK
    BY DEF IInv
  <1> QED BY <1>1, InvariantHolds, PTL

\* No order in which requests get the mutex, and no purge, makes a counter
\* (local.go:27-31) say more than was requested.
THEOREM CountersNeverOvercount == Spec => []NeverOvercounts
  <1>1. IInv => NeverOvercounts
    BY DEF IInv
  <1> QED BY <1>1, InvariantHolds, PTL

\* The second invariant holds of every reachable state too.
THEOREM ExactInvariantHolds == Spec => [](IInv /\ ExactInv)
  <1>1. Init => ExactInv
    BY InitExact
  <1>2. IInv /\ ExactInv /\ [Next]_vars => (IInv /\ ExactInv)'
    BY NextIInv, NextExact
  <1> QED BY <1>1, <1>2, InitIInv, PTL DEF Spec

\* A counter is exact while requests are counted in the window they came in:
\* Increment's rolling over (local.go:106-126) and purge (local.go:140-154)
\* lose no request that a later rate depends on.
THEOREM CountersAreExact == Spec => []ExactUnlessLate
  <1>1. IInv /\ ExactInv => ExactUnlessLate
    <2> SUFFICES ASSUME IInv, ExactInv, NEW i \in Ids \ late
                 PROVE  LET c == counters[i] IN
                        /\ c # None =>
                             /\ c.current = Cardinality(Seen(i, c.window))
                             /\ c.previous = Cardinality(Seen(i, c.window - W))
                             /\ \A w \in 0 .. clock : w > c.window => Seen(i, w) = {}
                        /\ c = None =>
                             \A w \in 0 .. clock : w + 3 * W > clock => Seen(i, w) = {}
      BY DEF ExactUnlessLate
    <2> DEFINE c == counters[i]
    <2>1. clock \in Nat /\ c \in Counters \cup {None}
      BY DEF IInv, TypeOK
    <2>2. IF c = None THEN NoneRecent(i) ELSE CounterExact(i)
      BY DEF ExactInv
    <2>3. ASSUME c # None, NEW w \in 0 .. clock, w > c.window
          PROVE  Seen(i, w) = {}
      <3>1. \A q \in Seen(i, w) : w <= c.window
        BY <2>2, <2>3 DEF CounterExact, CountedFor, Seen
      <3>2. c.window \in Nat
        BY <2>1, <2>3 DEF Counters
      <3> HIDE DEF c
      <3> QED BY <2>1, <2>3, <3>1, <3>2
    <2>4. ASSUME c = None, NEW w \in 0 .. clock, w + 3 * W > clock
          PROVE  Seen(i, w) = {}
      <3>1. \A q \in Seen(i, w) : w + 3 * W <= clock
        BY <2>2, <2>4 DEF NoneRecent, CountedFor, Seen
      <3> QED BY <2>1, <2>4, <3>1, TrackerAssumption
    <2> QED BY <2>2, <2>3, <2>4 DEF CounterExact
  <1> QED BY <1>1, ExactInvariantHolds, PTL

\* The map of counters does not grow with every id ever seen: after a purge
\* (local.go:140-154) it holds only ids counted less than three windows before.
THEOREM PurgeLeavesOnlyRecent == Spec => []SurvivorsAreRecent
  <1>1. ExactInv => SurvivorsAreRecent
    BY DEF ExactInv, CounterExact, SurvivorsAreRecent
  <1> QED BY <1>1, ExactInvariantHolds, PTL

\* A request counted in its window is told the sliding count: all requests of
\* this window, and of those of the window before what is left of them.
LEMMA SlidingCount ==
  ASSUME IInv, ExactInv, [Next]_vars, NEW q \in Requests,
         pc[q] = "timed", op[q] = "Increment", pc'[q] = "done", id[q] \notin late'
  PROVE  LET i == id[q]  w == WindowOf(now[q]) IN
         /\ now[q] - w \in 0 .. W - 1
         /\ Cardinality(Seen(i, w)) \in Nat /\ Cardinality(Seen(i, w - W)) \in Nat
         /\ rate'[q] = Decayed(Cardinality(Seen(i, w - W)), now[q] - w)
                         + (Cardinality(Seen(i, w)) + 1)
  <1>1. Increment(q)
    BY DEF Next, vars, Arrive, Get, Increment, Finish, Tick, IInv, TypeOK
  <1> DEFINE i == id[q]  w == WindowOf(now[q])  c == counters'[i]
             a == Cardinality(Seen(i, w))  b == Cardinality(Seen(i, w - W))
  <1>2. /\ c.current = a + 1 /\ c.previous = b
        /\ rate'[q] = SlidingRate(c, now[q] % W)
    BY <1>1, CountedExact
  <1>3. a \in Nat /\ b \in Nat /\ now[q] \in Nat
    BY SeenFinite DEF IInv, TypeOK
  <1>4. now[q] - w = now[q] % W /\ now[q] % W \in 0 .. W - 1
    BY <1>3, WindowFacts DEF WindowOf
  <1> HIDE DEF w, a, b
  <1>5. rate'[q] = Decayed(b, now[q] - w) + (a + 1)
    BY <1>2, <1>4 DEF SlidingRate
  <1> QED BY <1>3, <1>4, <1>5 DEF w, a, b

\* What computeSlidingRate (local.go:134-138) makes of the counts, in float64, is
\* the sliding count or at most one request less, never more: for every window
\* length, and whichever products fall short of a whole number.
THEOREM RatesAreSlidingCounts == Spec => RateIsSlidingCount
  <1> DEFINE Told(q) ==
        pc[q] = "timed" /\ op[q] = "Increment" /\ pc'[q] = "done" =>
          LET i == id[q]  w == WindowOf(now[q])
              share == Cardinality(Seen(i, w - W)) * (w + W - now[q])
              carried == rate'[q] - (Cardinality(Seen(i, w)) + 1)
          IN  i \in late' \/ /\ carried >= 0
                             /\ carried * W <= share /\ share <= (carried + 1) * W
  <1>1. ASSUME IInv, ExactInv, [Next]_vars, NEW q \in Requests
        PROVE  Told(q)
    <2> SUFFICES ASSUME pc[q] = "timed", op[q] = "Increment", pc'[q] = "done",
                        id[q] \notin late'
                 PROVE  LET i == id[q]  w == WindowOf(now[q])
                            share == Cardinality(Seen(i, w - W)) * (w + W - now[q])
                            carried == rate'[q] - (Cardinality(Seen(i, w)) + 1)
                        IN  /\ carried >= 0
                            /\ carried * W <= share /\ share <= (carried + 1) * W
      OBVIOUS
    <2> DEFINE i == id[q]  w == WindowOf(now[q])  e == now[q] - w
               a == Cardinality(Seen(i, w))  b == Cardinality(Seen(i, w - W))
               d == Decayed(b, e)
    <2>1. e \in 0 .. W - 1 /\ a \in Nat /\ b \in Nat /\ rate'[q] = d + (a + 1)
      BY <1>1, SlidingCount
    <2>2. w + W - now[q] = W - e
      <3>1. w \in Nat /\ now[q] \in Nat
        BY <1>1, WindowFacts DEF IInv, TypeOK
      <3> QED BY <3>1, TrackerAssumption
    <2> HIDE DEF e, a, b
    <2>3. d \in Nat /\ d * W <= b * (W - e) /\ b * (W - e) <= (d + 1) * W
      BY <2>1, DecayedFacts
    <2> HIDE DEF d
    <2>4. rate'[q] - (a + 1) = d
      BY <2>1, <2>3
    <2> QED BY <2>2, <2>3, <2>4 DEF a, b
  <1>2. IInv /\ ExactInv /\ [Next]_vars => [\A q \in Requests : Told(q)]_vars
    BY <1>1
  <1> QED BY <1>2, ExactInvariantHolds, PTL DEF Spec, RateIsSlidingCount
=============================================================================
