-------------------------- MODULE AuthorizerProofs --------------------------
(***************************************************************************)
(* That a code or token the handlers have sent works until its lifetime is *)
(* over: the proof, for every set of handlers, codes and stored values,    *)
(* all lifetimes, every number of rounds and every bound on the clock.     *)
(***************************************************************************)
EXTENDS Authorizer, TLAPS

SlotFor(c) == <<NamespaceOf(flow[c]), code[c]>>
GoodUntil(c) == asked[c] + TTLOf(flow[c])

\* The slot s holds value v, for as long as the lifetime that was asked for.
Keeps(s, v, until) ==
  kv[s] # None /\ kv[s].value = v /\ kv[s].purge >= until

(***************************************************************************)
(* The inductive invariant: what a handler calls the store for, and what   *)
(* it can rely on once the store has answered "ok".  Between that moment   *)
(* and the reply to the client other handlers draw the same code, and the  *)
(* item may expire and be forgotten.                                       *)
(***************************************************************************)
StoreTypeOK ==
  /\ phase \in [Clients -> {"idle", "called"}]
  /\ req \in [Clients -> Requests \cup {None}]
  /\ since \in [Clients -> Nat]
  /\ reply \in [Clients -> {None, "ok", "ItemAlreadyExists"}]

HandlerOK(c) ==
  /\ asked[c] <= clock
  /\ stage[c] # "idle" => data[c] \in Values
  /\ stage[c] = "store" => code[c] \in Keys /\ tries[c] < Retries
  /\ phase[c] = "called" =>
       /\ stage[c] = "store"
       /\ since[c] = asked[c]
       /\ req[c] = [op |-> "CheckAndSet", ns |-> NamespaceOf(flow[c]),
                    key |-> code[c], value |-> data[c], ttl |-> TTLOf(flow[c])]
  /\ Returned(c, "ok") =>
       Keeps(SlotFor(c), data[c], GoodUntil(c)) \/ GoodUntil(c) < clock

IssuedOK(i) ==
  clock <= i.until /\ Keeps(<<i.ns, i.code>>, i.value, i.until)

AInv ==
  /\ ATypeOK /\ StoreTypeOK
  /\ \A c \in Clients : HandlerOK(c)
  /\ \A i \in issued : IssuedOK(i)

\* A step that leaves, of the items still good after it, every one in place.
KeepsTheGood ==
  \A s \in Namespaces \X Keys, v \in Values, until \in Nat :
    clock' <= until /\ Keeps(s, v, until) => Keeps(s, v, until)'
-----------------------------------------------------------------------------
(* Lemmas about the operators *)

\* A flow has a namespace of its own and a lifetime, both of the store.
LEMMA FlowFacts ==
  ASSUME NEW f \in Flows
  PROVE  NamespaceOf(f) \in Namespaces /\ TTLOf(f) \in TTLs /\ TTLOf(f) \in Nat
  BY AuthorizerAssumption, StoreAssumption

\* What a handler asks of the store is a request of its interface.
LEMMA OfferIsRequest ==
  ASSUME NEW f \in Flows, NEW v \in Values, NEW k \in Keys
  PROVE  [op |-> "CheckAndSet", ns |-> NamespaceOf(f), key |-> k, value |-> v,
          ttl |-> TTLOf(f)] \in Requests
  BY FlowFacts DEF Requests, WriteOps

\* The slot and the time a handler has in mind, once it has drawn a code.
LEMMA SlotForType ==
  ASSUME ATypeOK, NEW c \in Clients, code[c] \in Keys
  PROVE  SlotFor(c) \in Namespaces \X Keys /\ GoodUntil(c) \in Nat
  BY FlowFacts DEF ATypeOK, SlotFor, GoodUntil

\* A handler that a step leaves alone, while the store keeps what is good.
LEMMA LeftAlone ==
  ASSUME ATypeOK, StoreTypeOK, NEW d \in Clients, HandlerOK(d), KeepsTheGood,
         clock' \in Nat, clock <= clock',
         stage'[d] = stage[d], flow'[d] = flow[d], data'[d] = data[d],
         tries'[d] = tries[d], code'[d] = code[d], asked'[d] = asked[d],
         phase'[d] = phase[d], req'[d] = req[d], since'[d] = since[d],
         reply'[d] = reply[d]
  PROVE  HandlerOK(d)'
  <1>1. CASE ~Returned(d, "ok")
    BY <1>1 DEF HandlerOK, Returned, ATypeOK, StoreTypeOK
  <1>2. CASE Returned(d, "ok")
    <2> DEFINE s == SlotFor(d)
               until == GoodUntil(d)
    <2>1. /\ data[d] \in Values /\ code[d] \in Keys
          /\ s \in Namespaces \X Keys /\ until \in Nat
      BY <1>2, SlotForType DEF HandlerOK, Returned
    <2>2. Keeps(s, data[d], until) \/ until < clock
      BY <1>2 DEF HandlerOK
    <2>3. s' = s /\ until' = until
      BY DEF SlotFor, GoodUntil
    <2>4. \/ kv'[s] # None /\ kv'[s].value = data[d] /\ kv'[s].purge >= until
          \/ until < clock'
      <3> HIDE DEF s, until
      <3>1. until < clock' \/ clock' <= until
        BY <2>1
      <3>2. CASE until < clock
        BY <2>1, <3>2 DEF ATypeOK
      <3>3. CASE clock' <= until /\ Keeps(s, data[d], until)
        <4>1. PICK r \in Namespaces \X Keys, v \in Values, u \in Nat :
                r = s /\ v = data[d] /\ u = until
          BY <2>1
        <4>2. Keeps(r, v, u)'
          BY <3>3, <4>1 DEF KeepsTheGood
        <4> QED BY <4>1, <4>2 DEF Keeps
      <3> QED BY <2>2, <3>1, <3>2, <3>3
    <2>5. (Keeps(SlotFor(d), data[d], GoodUntil(d)) \/ GoodUntil(d) < clock)'
      BY <2>3, <2>4 DEF Keeps
    <2> QED BY <1>2, <2>5 DEF HandlerOK, Returned, ATypeOK, StoreTypeOK
  <1> QED BY <1>1, <1>2

\* What was issued and is still to be good.
LEMMA IssuedKept ==
  ASSUME ATypeOK, KeepsTheGood, NEW i \in issued, IssuedOK(i), clock' <= i.until
  PROVE  IssuedOK(i)'
  <1>1. <<i.ns, i.code>> \in Namespaces \X Keys /\ i.value \in Values /\ i.until \in Nat
    BY DEF ATypeOK
  <1>2. Keeps(<<i.ns, i.code>>, i.value, i.until)'
    BY <1>1 DEF IssuedOK, KeepsTheGood
  <1> QED BY <1>2 DEF IssuedOK

-----------------------------------------------------------------------------
(* Every step preserves the invariant *)

\* At first nothing is stored and no code is sent.
LEMMA InitAInv ==
  ASSUME AInit
  PROVE  AInv
  <1>1. Store!Init /\ Store!Slots = Namespaces \X Keys
    BY DEF AInit, Store!Slots
  <1>2. ATypeOK
    BY <1>1, AuthorizerAssumption
       DEF AInit, Store!Init, ATypeOK, Flows, Answers, Bare
  <1>3. StoreTypeOK
    BY <1>1 DEF Store!Init, StoreTypeOK
  <1>4. ASSUME NEW c \in Clients PROVE HandlerOK(c)
    <2>1. clock = 0 /\ asked[c] = 0 /\ stage[c] = "idle" /\ phase[c] = "idle"
      BY <1>1 DEF AInit, Store!Init
    <2> QED BY <2>1 DEF HandlerOK, Returned
  <1> QED BY <1>2, <1>3, <1>4 DEF AInit, AInv

\* A step of one handler that asks nothing of the store: what is left to show
\* is that the handler and what it may issue are in order.
LEMMA HandlerStep ==
  ASSUME AInv, NEW c \in Clients, UNCHANGED storeVars, ATypeOK',
         \A d \in Clients \ {c} :
           /\ stage'[d] = stage[d] /\ flow'[d] = flow[d] /\ data'[d] = data[d]
           /\ tries'[d] = tries[d] /\ code'[d] = code[d] /\ asked'[d] = asked[d],
         HandlerOK(c)', \A i \in issued' \ issued : IssuedOK(i)
  PROVE  AInv'
  <1>1. UNCHANGED <<clock, kv, phase, req, since, reply>> /\ ATypeOK /\ StoreTypeOK
    BY DEF storeVars, AInv
  <1>2. KeepsTheGood
    BY <1>1 DEF KeepsTheGood, Keeps
  <1>3. StoreTypeOK'
    BY <1>1 DEF StoreTypeOK
  <1>4. ASSUME NEW d \in Clients \ {c} PROVE HandlerOK(d)'
    BY <1>1, <1>2, LeftAlone DEF AInv, ATypeOK
  <1>5. ASSUME NEW i \in issued' PROVE IssuedOK(i)'
    BY <1>1 DEF AInv, IssuedOK, Keeps
  <1> QED BY <1>3, <1>4, <1>5 DEF AInv

\* A handler answers its client.
LEMMA ReplyAInv ==
  ASSUME AInv, NEW c \in Clients, phase[c] = "idle", NEW a \in Answers,
         Reply(c, a), UNCHANGED storeVars,
         \/ UNCHANGED issued
         \/ \E i \in [ns : Namespaces, code : Keys, value : Values, until : Nat] :
              issued' = issued \cup {i} /\ IssuedOK(i)
  PROVE  AInv'
  <1>1. ATypeOK /\ UNCHANGED <<clock, kv, phase, req, since, reply>>
    BY DEF AInv, storeVars
  <1>2. issued' \subseteq [ns : Namespaces, code : Keys, value : Values, until : Nat]
    BY <1>1 DEF ATypeOK
  <1>3. ATypeOK'
    BY <1>1, <1>2, AuthorizerAssumption DEF ATypeOK, Reply, Flows
  <1>4. HandlerOK(c)'
    BY <1>1 DEF ATypeOK, Reply, HandlerOK, Returned
  <1>5. \A i \in issued' \ issued : IssuedOK(i)
    OBVIOUS
  <1>6. \A d \in Clients \ {c} :
          /\ stage'[d] = stage[d] /\ flow'[d] = flow[d] /\ data'[d] = data[d]
          /\ tries'[d] = tries[d] /\ code'[d] = code[d] /\ asked'[d] = asked[d]
    BY <1>1 DEF ATypeOK, Reply
  <1> QED BY <1>3, <1>4, <1>5, <1>6, HandlerStep

\* A handler's request has passed its checks.
LEMMA BeginAInv ==
  ASSUME AInv, NEW c \in Clients, stage[c] = "idle", NEW f \in Flows,
         NEW v \in Values, Begin(c, f, v), UNCHANGED storeVars
  PROVE  AInv'
  <1>1. /\ ATypeOK /\ UNCHANGED <<clock, kv, phase, req, since, reply>>
        /\ HandlerOK(c)
    BY DEF AInv, storeVars
  <1>2. ATypeOK'
    BY <1>1 DEF ATypeOK, Begin, Bare, Answers
  <1>3. HandlerOK(c)'
    BY <1>1 DEF ATypeOK, Begin, HandlerOK, Returned
  <1>4. UNCHANGED issued
    BY DEF Begin
  <1>5. \A d \in Clients \ {c} :
          /\ stage'[d] = stage[d] /\ flow'[d] = flow[d] /\ data'[d] = data[d]
          /\ tries'[d] = tries[d] /\ code'[d] = code[d] /\ asked'[d] = asked[d]
    BY <1>1 DEF ATypeOK, Begin
  <1> QED BY <1>2, <1>3, <1>4, <1>5, HandlerStep

\* A handler that is not waiting for the store has no call under way.
LEMMA NoCall ==
  ASSUME AInv, NEW c \in Clients, stage[c] # "store"
  PROVE  phase[c] = "idle"
  BY DEF AInv, HandlerOK, StoreTypeOK

\* An answer without a code is an answer.
LEMMA BareType == \A st \in {"none", "error", "other", "success"} : Bare(st) \in Answers
  BY DEF Bare, Answers

\* Authorize, Token, and the checks of Login and QRGenerator.
LEMMA EntryAInv ==
  ASSUME AInv, NEW c \in Clients,
         Authorize(c) \/ Token(c) \/ Login(c) \/ QRGenerate(c)
  PROVE  AInv'
  <1>1. stage[c] = "idle" /\ phase[c] = "idle" /\ UNCHANGED storeVars
    BY NoCall DEF Authorize, Token, Login, QRGenerate
  <1>2. CASE UNCHANGED issued /\ \E st \in {"error", "other"} : Reply(c, Bare(st))
    BY <1>1, <1>2, BareType, ReplyAInv
  <1>3. CASE \E f \in Flows, v \in Values : Begin(c, f, v)
    BY <1>1, <1>3, BeginAInv
  <1> QED BY <1>2, <1>3 DEF Authorize, Token, Login, QRGenerate, Fail, Flows

\* A code is drawn and offered to the store.
LEMMA DrawAInv ==
  ASSUME AInv, NEW c \in Clients, Draw(c)
  PROVE  AInv'
  <1>1. /\ ATypeOK /\ StoreTypeOK /\ stage[c] = "generate" /\ phase[c] = "idle"
        /\ tries[c] < Retries /\ data[c] \in Values /\ flow[c] \in Flows
    BY NoCall DEF AInv, Draw, HandlerOK, ATypeOK
  <1>2. CASE Fail(c) /\ UNCHANGED storeVars
    BY <1>1, <1>2, BareType, ReplyAInv DEF Fail
  <1>3. ASSUME NEW k \in Keys,
               Offer(c, "CheckAndSet", k), stage' = [stage EXCEPT ![c] = "store"],
               code' = [code EXCEPT ![c] = k], asked' = [asked EXCEPT ![c] = clock],
               answer' = Bare("none"), UNCHANGED <<flow, data, tries, issued>>
        PROVE  AInv'
    <2> DEFINE r == [op |-> "CheckAndSet", ns |-> NamespaceOf(flow[c]), key |-> k,
                     value |-> data[c], ttl |-> TTLOf(flow[c])]
    <2>1. r \in Requests
      BY <1>1, OfferIsRequest
    <2>2. /\ phase' = [phase EXCEPT ![c] = "called"] /\ req' = [req EXCEPT ![c] = r]
          /\ since' = [since EXCEPT ![c] = clock]
          /\ reply' = [reply EXCEPT ![c] = None] /\ UNCHANGED <<clock, kv>>
      BY <1>3 DEF Offer, Store!Call
    <2>3. ATypeOK'
      BY <1>1, <1>3, <2>2, BareType DEF ATypeOK
    <2>4. StoreTypeOK'
      BY <1>1, <2>1, <2>2 DEF StoreTypeOK, ATypeOK
    <2>5. KeepsTheGood
      BY <2>2 DEF KeepsTheGood, Keeps
    <2>6. ASSUME NEW d \in Clients \ {c} PROVE HandlerOK(d)'
      BY <1>1, <1>3, <2>2, <2>5, LeftAlone DEF AInv, ATypeOK, StoreTypeOK
    <2>7. HandlerOK(c)'
      BY <1>1, <1>3, <2>2 DEF HandlerOK, Returned, ATypeOK, StoreTypeOK
    <2>8. ASSUME NEW i \in issued' PROVE IssuedOK(i)'
      BY <1>3, <2>2 DEF AInv, IssuedOK, Keeps
    <2> QED BY <2>3, <2>4, <2>6, <2>7, <2>8 DEF AInv
  <1> QED BY <1>2, <1>3 DEF Draw

\* The store executes the call: an item that is there stays, and one it puts
\* there is good for at least the lifetime asked for.
LEMMA ExecuteAInv ==
  ASSUME AInv, NEW c \in Clients, Execute(c)
  PROVE  AInv'
  <1> DEFINE s == SlotFor(c)
  <1>1. /\ ATypeOK /\ StoreTypeOK /\ HandlerOK(c) /\ Store!Store(c)
        /\ UNCHANGED <<stage, flow, data, tries, code, asked, issued, clock>>
        /\ answer' = Bare("none")
    BY DEF AInv, Execute, handlerVars, Store!Store
  <1>2. /\ phase[c] = "called" /\ stage[c] = "store" /\ since[c] = asked[c]
        /\ data[c] \in Values /\ code[c] \in Keys /\ flow[c] \in Flows
        /\ req[c].op = "CheckAndSet" /\ Store!SlotOf(req[c]) = s
        /\ req[c].value = data[c] /\ req[c].ttl = TTLOf(flow[c])
    BY <1>1 DEF Store!Store, Store!Called, Store!SlotOf, HandlerOK, ATypeOK, SlotFor
  <1>3. s \in Namespaces \X Keys /\ GoodUntil(c) \in Nat
    BY <1>1, <1>2, SlotForType
  <1>4. PICK r \in {"ok", "ItemAlreadyExists"} :
          /\ Store!Respond(c, r)
          /\ r = "ok" => kv[s] = None /\ Store!PlaceStamped(c, data[c])
          /\ r # "ok" => UNCHANGED kv
    BY <1>1, <1>2 DEF Store!Store, Store!Absent
  <1>5. /\ phase' = [phase EXCEPT ![c] = "idle"] /\ req' = [req EXCEPT ![c] = None]
        /\ since' = [since EXCEPT ![c] = 0] /\ reply' = [reply EXCEPT ![c] = r]
    BY <1>4 DEF Store!Respond
  <1>6. /\ kv' \in [Namespaces \X Keys -> Items \cup {None}]
        /\ KeepsTheGood
        /\ r = "ok" => /\ kv'[s] # None /\ kv'[s].value = data[c]
                       /\ kv'[s].purge >= GoodUntil(c)
    <2>1. CASE r # "ok"
      BY <1>1, <1>4, <2>1 DEF ATypeOK, KeepsTheGood, Keeps
    <2>2. CASE r = "ok"
      <3>1. PICK t \in since[c] .. clock :
              kv' = [kv EXCEPT ![s] = [purge |-> t + TTLOf(flow[c]), value |-> data[c]]]
        BY <1>2, <1>4, <2>2 DEF Store!PlaceStamped, Store!Place
      <3> DEFINE it == [purge |-> t + TTLOf(flow[c]), value |-> data[c]]
      <3>2. t \in Nat /\ asked[c] \in Nat /\ asked[c] <= t /\ TTLOf(flow[c]) \in Nat
        BY <1>1, <1>2, FlowFacts DEF ATypeOK
      <3>3. it \in Items /\ it.value = data[c] /\ it.purge >= GoodUntil(c)
        BY <1>2, <3>2 DEF Items, GoodUntil
      <3>4. it # None
        BY <3>3, StoreAssumption
      <3> HIDE DEF it
      <3>5. kv' \in [Namespaces \X Keys -> Items \cup {None}] /\ kv'[s] = it
        BY <1>1, <1>3, <3>1, <3>3 DEF ATypeOK, it
      <3>6. KeepsTheGood
        BY <1>1, <1>4, <2>2, <3>1 DEF ATypeOK, KeepsTheGood, Keeps
      <3> QED BY <3>3, <3>4, <3>5, <3>6
    <2> QED BY <2>1, <2>2
  <1>7. ATypeOK'
    BY <1>1, <1>6, BareType DEF ATypeOK
  <1>8. StoreTypeOK'
    BY <1>1, <1>5 DEF StoreTypeOK
  <1>9. ASSUME NEW d \in Clients \ {c} PROVE HandlerOK(d)'
    BY <1>1, <1>5, <1>6, LeftAlone DEF AInv, ATypeOK, StoreTypeOK
  <1>10. HandlerOK(c)'
    BY <1>1, <1>2, <1>5, <1>6
       DEF HandlerOK, Returned, StoreTypeOK, Keeps, SlotFor, GoodUntil
  <1>11. ASSUME NEW i \in issued' PROVE IssuedOK(i)'
    BY <1>1, <1>6, IssuedKept DEF AInv, IssuedOK
  <1> QED BY <1>7, <1>8, <1>9, <1>10, <1>11 DEF AInv

\* The code is taken, or sent, or none was found.
LEMMA OutcomeAInv ==
  ASSUME AInv, NEW c \in Clients, Collide(c) \/ Issue(c) \/ GiveUp(c)
  PROVE  AInv'
  <1>1. /\ ATypeOK /\ StoreTypeOK /\ HandlerOK(c) /\ UNCHANGED storeVars
        /\ phase[c] = "idle"
    BY NoCall DEF AInv, Collide, Issue, GiveUp, Returned
  <1>2. CASE Collide(c)
    <2>1. UNCHANGED <<clock, kv, phase, req, since, reply>>
      BY <1>1 DEF storeVars
    <2>2. tries[c] + 1 \in 0 .. Retries
      BY <1>1, <1>2, AuthorizerAssumption DEF Collide, Returned, HandlerOK, ATypeOK
    <2>3. ATypeOK'
      BY <1>1, <1>2, <2>1, <2>2, BareType DEF ATypeOK, Collide
    <2>4. HandlerOK(c)'
      BY <1>1, <1>2, <2>1 DEF ATypeOK, Collide, HandlerOK, Returned
    <2>5. \A d \in Clients \ {c} :
            /\ stage'[d] = stage[d] /\ flow'[d] = flow[d] /\ data'[d] = data[d]
            /\ tries'[d] = tries[d] /\ code'[d] = code[d] /\ asked'[d] = asked[d]
      BY <1>1, <1>2 DEF ATypeOK, Collide
    <2> QED BY <1>1, <1>2, <2>3, <2>4, <2>5, HandlerStep DEF Collide
  <1>3. CASE Issue(c)
    <2> DEFINE i == [ns |-> NamespaceOf(flow[c]), code |-> code[c],
                     value |-> data[c], until |-> asked[c] + TTLOf(flow[c])]
               a == [status |-> "success", code |-> code[c]]
    <2>1. CASE Fail(c)
      BY <1>1, <2>1, BareType, ReplyAInv DEF Fail
    <2>2. CASE /\ Reply(c, a)
               /\ issued' = IF clock <= i.until THEN issued \cup {i} ELSE issued
      <3>1. /\ data[c] \in Values /\ code[c] \in Keys /\ flow[c] \in Flows
            /\ Keeps(SlotFor(c), data[c], GoodUntil(c)) \/ GoodUntil(c) < clock
        BY <1>1, <1>3 DEF Issue, Returned, HandlerOK, ATypeOK
      <3>2. i \in [ns : Namespaces, code : Keys, value : Values, until : Nat]
        BY <1>1, <3>1, FlowFacts DEF ATypeOK
      <3>3. a \in Answers
        BY <3>1 DEF Answers
      <3>4. clock <= i.until => IssuedOK(i)
        BY <1>1, <3>1, <3>2 DEF IssuedOK, SlotFor, GoodUntil, ATypeOK
      <3> HIDE DEF i, a
      <3> QED BY <1>1, <2>2, <3>2, <3>3, <3>4, ReplyAInv
    <2> QED BY <1>3, <2>1, <2>2 DEF Issue
  <1>4. CASE GiveUp(c)
    BY <1>1, <1>4, BareType, ReplyAInv DEF GiveUp, Fail
  <1> QED BY <1>2, <1>3, <1>4

\* Time passes, or an item that has expired goes.
LEMMA AgeAInv ==
  ASSUME AInv, Age
  PROVE  AInv'
  <1>1. /\ ATypeOK /\ StoreTypeOK
        /\ UNCHANGED <<stage, flow, data, tries, code, asked, phase, req, since, reply>>
        /\ issued' = {i \in issued : clock' <= i.until} /\ answer' = Bare("none")
    BY DEF AInv, Age, handlerVars, Store!Tick, Store!Forget
  <1>2. /\ clock' \in Nat /\ clock <= clock'
        /\ kv' \in [Namespaces \X Keys -> Items \cup {None}]
        /\ KeepsTheGood
    <2>1. CASE Store!Tick
      BY <1>1, <2>1 DEF Store!Tick, ATypeOK, KeepsTheGood, Keeps
    <2>2. ASSUME NEW s \in Namespaces \X Keys, Store!Forget(s)
          PROVE  /\ clock' = clock
                 /\ kv' \in [Namespaces \X Keys -> Items \cup {None}]
                 /\ KeepsTheGood
      <3>1. /\ clock' = clock /\ kv[s] # None /\ kv[s].purge < clock
            /\ kv' = [kv EXCEPT ![s] = None]
        BY <2>2 DEF Store!Forget, Store!Expired
      <3>2. kv[s].purge \in Nat
        BY <1>1, <3>1 DEF ATypeOK, Items
      <3>3. ASSUME NEW r \in Namespaces \X Keys, NEW v \in Values,
                   NEW until \in Nat, clock' <= until, Keeps(r, v, until)
            PROVE  Keeps(r, v, until)'
        <4>1. r # s
          BY <1>1, <3>1, <3>2, <3>3 DEF Keeps, ATypeOK
        <4> QED BY <1>1, <3>1, <3>3, <4>1 DEF Keeps, ATypeOK
      <3> QED BY <1>1, <3>1, <3>3 DEF ATypeOK, KeepsTheGood
    <2> QED BY <1>1, <2>1, <2>2 DEF Age, ATypeOK
  <1>3. ATypeOK'
    BY <1>1, <1>2, BareType DEF ATypeOK
  <1>4. StoreTypeOK'
    BY <1>1 DEF StoreTypeOK
  <1>5. ASSUME NEW d \in Clients PROVE HandlerOK(d)'
    BY <1>1, <1>2, LeftAlone DEF AInv
  <1>6. ASSUME NEW i \in issued' PROVE IssuedOK(i)'
    BY <1>1, <1>2, IssuedKept DEF AInv
  <1> QED BY <1>3, <1>4, <1>5, <1>6 DEF AInv

\* No handler, no store call and no tick of the clock breaks the invariant.
LEMMA NextAInv ==
  ASSUME AInv, [ANext]_avars
  PROVE  AInv'
  <1>1. CASE ANext
    BY <1>1, EntryAInv, DrawAInv, ExecuteAInv, OutcomeAInv, AgeAInv DEF ANext, Serve
  <1>2. CASE UNCHANGED avars
    BY <1>2 DEF avars, storeVars, handlerVars, AInv, ATypeOK, StoreTypeOK, HandlerOK,
                IssuedOK, Keeps, Returned, SlotFor, GoodUntil
  <1> QED BY <1>1, <1>2

-----------------------------------------------------------------------------
(* Theorems *)

\* The inductive invariant holds of every reachable state.
THEOREM AInvariantHolds == ASpec => []AInv
  <1>1. AInit => AInv
    BY InitAInv
  <1>2. AInv /\ [ANext]_avars => AInv'
    BY NextAInv
  <1> QED BY <1>1, <1>2, PTL DEF ASpec

\* Every variable of the handlers keeps its type: in particular the loops over
\* kAuthGenRetries (cmd/authorizer.go:70, 92) never make a round too many.
THEOREM ATypeCorrect == ASpec => []ATypeOK
  <1>1. AInv => ATypeOK
    BY DEF AInv
  <1> QED BY <1>1, AInvariantHolds, PTL

\* Whoever was sent an authorization code or a QR token finds under it what was
\* stored for it, and nobody else's, until its lifetime is over: two handlers
\* that draw the same code (cmd/authorizer.go:67-116) do not overwrite each other's data.
THEOREM IssuedCodesWork == ASpec => []IssuedCodeWorks
  <1>1. AInv => IssuedCodeWorks
    <2> SUFFICES ASSUME AInv, NEW i \in issued
                 PROVE  LET it == kv[<<i.ns, i.code>>] IN
                        it # None /\ it.value = i.value /\ ~Expired(it, clock)
      BY DEF IssuedCodeWorks
    <2> DEFINE it == kv[<<i.ns, i.code>>]
    <2>1. IssuedOK(i) /\ i.until \in Nat /\ clock \in Nat
          /\ it \in Items \cup {None}
      BY DEF AInv, ATypeOK
    <2>2. it # None /\ it.value = i.value /\ it.purge >= i.until /\ clock <= i.until
      BY <2>1 DEF IssuedOK, Keeps
    <2>3. it.purge \in Nat
      BY <2>1, <2>2 DEF Items
    <2> QED BY <2>1, <2>2, <2>3 DEF Expired
  <1> QED BY <1>1, AInvariantHolds, PTL

\* The handlers use the store as its interface has it (data-store.go): to the
\* store their steps are calls, executions of calls and the passing of time,
\* so that whatever implements the interface can be put behind them.
THEOREM HandlersUseStore == ASpec => Store!Spec
  <1>1. AInit => Store!Init
    BY DEF AInit
  <1>2. AInv /\ [ANext]_avars => [Store!Next]_(Store!vars)
    <2> SUFFICES ASSUME AInv, ANext, ~UNCHANGED storeVars PROVE Store!Next
      BY DEF avars, storeVars, Store!vars
    <2>1. CASE \E c \in Clients : Draw(c)
      <3>1. PICK c \in Clients, k \in Keys : Offer(c, "CheckAndSet", k) /\ Store!Touch
                                            /\ stage[c] = "generate"
        BY <2>1 DEF Draw
      <3>2. data[c] \in Values /\ flow[c] \in Flows
        BY <3>1 DEF AInv, HandlerOK, ATypeOK
      <3>3. Store!Requests = Requests
        BY DEF Store!Requests, Requests, Store!ReadOps, ReadOps, Store!WriteOps,
               WriteOps
      <3>4. \E r \in Store!Requests : Store!Call(c, r)
        BY <3>1, <3>2, <3>3, OfferIsRequest DEF Offer
      <3> QED BY <3>1, <3>4 DEF Store!Next
    <2>2. CASE \E c \in Clients : Execute(c)
      BY <2>2 DEF Execute, Store!Next
    <2>3. CASE Age
      BY <2>3 DEF Age, Store!Next, Store!Slots
    <2> QED BY <2>1, <2>2, <2>3
            DEF ANext, Serve, Authorize, Token, Login, QRGenerate, Collide, Issue,
                GiveUp
  <1> QED BY <1>1, <1>2, AInvariantHolds, PTL DEF ASpec, Store!Spec
=============================================================================
