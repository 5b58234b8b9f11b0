---------------------- MODULE MemStoreRefinementProofs ----------------------
(***************************************************************************)
(* The in-memory store implements KeyValueStore: the proof, for every set  *)
(* of clients, namespaces, keys, values and lifetimes, and every bound on  *)
(* the clock.                                                              *)
(***************************************************************************)
EXTENDS MemStoreRefinement, MemStoreProofs

(***************************************************************************)
(* What the refinement needs on top of the invariant of the store: which   *)
(* map is whose and what is in it, and what a call knows about the time    *)
(* since it was made.                                                      *)
(***************************************************************************)
HTypeOK ==
  /\ since \in [Clients -> Nat]
  /\ touched \in [Clients -> BOOLEAN]

\* A map that was never published holds nothing, and one that was belongs to
\* its namespace: what a slot holds is in one place only.
MapsInv ==
  /\ \A ns \in Namespaces : scopes[ns] # None => scopes[ns][1] = ns
  /\ \A m \in MapIds, k \in Keys : scopes[m[1]] # m => maps[m][k] = None

\* The item to be stored was stamped at some moment of the call.
StampedInCall(c) ==
  \E t \in since[c] .. clock : frame[c].purge = t + req[c].ttl

CallHistory(c) ==
  /\ since[c] <= clock
  /\ pc[c] = "idle" => since[c] = 0
  /\ pc[c] \in {"idle", "expiry"} => ~touched[c]
  /\ pc[c] = "item" /\ req[c].op \in WriteOps => StampedInCall(c)
  /\ pc[c] = "swap" => StampedInCall(c)
  \* An item that is no longer the one loaded was changed during the call.
  /\ pc[c] = "swap" \/ (pc[c] = "stamp" /\ req[c].op = "Refresh") =>
       touched[c] \/ Slot(c) = frame[c].item

HistoryInv == \A c \in Clients : CallHistory(c)

HInv == IInv /\ HTypeOK /\ MapsInv /\ HistoryInv
-----------------------------------------------------------------------------
(* Lemmas about the mapping *)

\* Both stores are called in the same words.
LEMMA SameCalls ==
  /\ KV!Requests = Requests /\ KV!ReadOps = ReadOps /\ KV!WriteOps = WriteOps
  /\ KV!Slots = Slots
  BY DEF KV!Requests, Requests, KV!ReadOps, ReadOps, KV!WriteOps, WriteOps,
         KV!Slots, Slots

\* What a call has in hand is what a caller would find under its key.
LEMMA SlotOfCall ==
  ASSUME IInv, NEW c \in Clients, pc[c] \in {"stamp", "item", "expiry", "swap"}
  PROVE  /\ req[c].ns \in Namespaces /\ req[c].key \in Keys
         /\ KV!SlotOf(req[c]) = <<req[c].ns, req[c].key>>
         /\ KV!SlotOf(req[c]) \in Slots
         /\ frame[c].scoped \in MapIds /\ frame[c].scoped = scopes[req[c].ns]
         /\ Slot(c) = Contents[KV!SlotOf(req[c])]
  <1>1. TypeOK /\ CallOK(c)
    BY DEF IInv, CallInv
  <1>2. req[c].ns \in Namespaces /\ req[c].key \in Keys
    BY <1>1, RequestFields DEF CallOK
  <1>3. frame[c].scoped \in MapIds /\ frame[c].scoped = scopes[req[c].ns]
    BY <1>1, SlotType DEF CallOK
  <1>4. scopes[req[c].ns] # None
    BY <1>1 DEF CallOK
  <1> QED BY <1>2, <1>3, <1>4 DEF KV!SlotOf, Slots, Contents, Stored, Slot

\* Storing into the slot of a call changes what is under its key, and nothing
\* else: no other namespace has the same map.
LEMMA PutIsPlace ==
  ASSUME IInv, MapsInv, NEW c \in Clients,
         pc[c] \in {"stamp", "item", "expiry", "swap"},
         NEW it \in Items \cup {None}, Put(c, it), UNCHANGED scopes
  PROVE  KV!Place(c, it) /\ MapsInv'
  <1> DEFINE m == frame[c].scoped  k == req[c].key  ns == req[c].ns
  <1>1. /\ ns \in Namespaces /\ k \in Keys /\ KV!SlotOf(req[c]) = <<ns, k>>
        /\ <<ns, k>> \in Slots /\ m \in MapIds /\ m = scopes[ns] /\ m # None
        /\ m[1] = ns
    BY SlotOfCall, MemStoreAssumption DEF MapsInv
  <1>2. maps \in [MapIds -> [Keys -> Items \cup {None}]]
    BY DEF IInv, TypeOK
  <1>3. maps' = [maps EXCEPT ![m][k] = it]
    BY DEF Put
  <1> HIDE DEF m, k, ns
  <1>4. maps'[m][k] = it
    BY <1>1, <1>2, <1>3
  <1>5. \A n \in MapIds, j \in Keys :
          n # m \/ j # k => maps'[n][j] = maps[n][j]
    BY <1>1, <1>2, <1>3
  <1>6. ASSUME NEW s \in Slots
        PROVE  Stored(s)' = IF s = <<ns, k>> THEN it ELSE Stored(s)
    <2>1. s[1] \in Namespaces /\ s[2] \in Keys /\ s = <<s[1], s[2]>>
      BY DEF Slots
    <2>2. CASE s = <<ns, k>>
      BY <1>1, <1>4, <2>2 DEF Stored
    <2>3. CASE s # <<ns, k>> /\ scopes[s[1]] # None
      <3>1. scopes[s[1]] \in MapIds /\ scopes[s[1]][1] = s[1]
        BY <2>1, <2>3 DEF IInv, TypeOK, MapsInv
      <3>2. scopes[s[1]] # m \/ s[2] # k
        BY <1>1, <2>1, <2>3, <3>1
      <3> QED BY <1>5, <2>1, <2>3, <3>1, <3>2 DEF Stored
    <2>4. CASE s # <<ns, k>> /\ scopes[s[1]] = None
      BY <2>4 DEF Stored
    <2> QED BY <2>2, <2>3, <2>4
  <1>7. Contents' = [Contents EXCEPT ![<<ns, k>>] = it]
    BY <1>1, <1>6 DEF Contents
  <1>8. MapsInv'
    <2>1. ASSUME NEW n \in MapIds, NEW j \in Keys, scopes[n[1]] # n
          PROVE  maps'[n][j] = None
      BY <1>1, <1>5, <2>1 DEF MapsInv
    <2> QED BY <2>1 DEF MapsInv
  <1> QED BY <1>1, <1>7, <1>8 DEF KV!Place

\* A call that returns responds, in the words of the interface.
LEMMA ReturnIsRespond ==
  ASSUME IInv, HTypeOK, HistoryInv, NEW c \in Clients, NEW r \in Replies,
         pc[c] # "idle", Return(c, r), KeepTime
  PROVE  KV!Respond(c, AbstractReply(r))
  <1>1. /\ pc \in [Clients -> Points] /\ reply \in [Clients -> Replies]
        /\ frame \in [Clients -> Frames]
    BY DEF IInv, TypeOK
  <1>2. Phases' = [Phases EXCEPT ![c] = "idle"]
    BY <1>1 DEF Return, Phases, AbstractPhase
  <1>3. Outcomes' = [Outcomes EXCEPT ![c] = None]
    BY <1>1 DEF Return, Outcomes
  <1>4. Answers' = [Answers EXCEPT ![c] = AbstractReply(r)]
    BY <1>1 DEF Return, Answers, AbstractReply
  <1>5. since' = [since EXCEPT ![c] = 0]
    BY <1>1 DEF Return, KeepTime, HTypeOK, HistoryInv, CallHistory
  <1> QED BY <1>2, <1>3, <1>4, <1>5 DEF KV!Respond, Return

\* As long as its key is left alone, a call stays as touched as it was.
LEMMA TouchedOnlyByChange ==
  ASSUME HTypeOK, HistoryInv, KV!Touch, Contents' = Contents, req' = req,
         \A c \in Clients : Phases[c] = "called" => Phases'[c] = "called",
         pc \in [Clients -> Points]
  PROVE  touched' = touched
  <1>1. ASSUME NEW c \in Clients
        PROVE  /\ touched[c] \in BOOLEAN
               /\ (/\ Phases[c] = "called" /\ Phases'[c] = "called"
                   /\ touched[c] \/ Contents'[KV!SlotOf(req[c])]
                                      # Contents[KV!SlotOf(req[c])])
                  = touched[c]
    BY DEF HTypeOK, HistoryInv, CallHistory, Phases, AbstractPhase, Points
  <1> QED BY <1>1 DEF KV!Touch, HTypeOK

\* The steps inside a call that change nothing under any key are invisible.
LEMMA InsideIsStutter ==
  ASSUME IInv, HTypeOK, HistoryInv, NEW c \in Clients,
         NEW p \in Points, NEW f \in Frames, Continue(c, p, f),
         pc[c] \notin {"idle", "expiry"}, p \notin {"idle", "expiry"},
         Contents' = Contents, UNCHANGED clock, KeepTime, KV!Touch
  PROVE  UNCHANGED KV!vars
  <1>1. /\ pc \in [Clients -> Points] /\ reply \in [Clients -> Replies]
        /\ frame \in [Clients -> Frames]
    BY DEF IInv, TypeOK
  <1>2. Phases' = Phases
    BY <1>1 DEF Continue, Phases, AbstractPhase
  <1>3. Outcomes' = Outcomes
    BY <1>1 DEF Continue, Outcomes
  <1>4. Answers' = Answers
    BY <1>1 DEF Continue, Answers, AbstractReply
  <1>5. since' = since
    BY <1>1 DEF Continue, KeepTime, HTypeOK, HistoryInv, CallHistory
  <1>6. req' = req
    BY DEF Continue
  <1>7. touched' = touched
    BY <1>1, <1>2, <1>6, TouchedOnlyByChange
  <1> QED BY <1>2, <1>3, <1>4, <1>5, <1>6, <1>7 DEF KV!vars
-----------------------------------------------------------------------------
(* Every step preserves the invariant, and is a step of the interface or none *)

\* The history variables keep their types.
LEMMA BookkeepingTypes ==
  ASSUME IInv, HTypeOK, KeepTime, KV!Touch
  PROVE  HTypeOK'
  <1>1. since' \in [Clients -> Nat]
    BY DEF KeepTime, HTypeOK, IInv, TypeOK
  <1>2. touched' \in [Clients -> BOOLEAN]
    BY DEF KV!Touch
  <1> QED BY <1>1, <1>2 DEF HTypeOK

\* A call that the step is not of keeps what it knows: if its item changes, it
\* is touched.
LEMMA OthersKeepHistory ==
  ASSUME IInv, HTypeOK, NEW d \in Clients, CallHistory(d),
         pc'[d] = pc[d], frame'[d] = frame[d], req'[d] = req[d],
         \A ns \in Namespaces : scopes[ns] # None => scopes'[ns] = scopes[ns],
         clock' \in Nat, clock <= clock', KeepTime, KV!Touch
  PROVE  CallHistory(d)'
  <1>1. TypeOK /\ CallOK(d)
    BY DEF IInv, CallInv
  <1>2. since'[d] = since[d] /\ since[d] \in Nat /\ clock \in Nat
    BY <1>1 DEF KeepTime, HTypeOK, CallHistory, TypeOK
  <1>3. pc[d] \in {"idle", "expiry"} => ~touched'[d]
    BY DEF KV!Touch, Phases, AbstractPhase
  <1>4. StampedInCall(d) => StampedInCall(d)'
    BY <1>2 DEF StampedInCall
  <1>5. ASSUME pc[d] = "swap" \/ (pc[d] = "stamp" /\ req[d].op = "Refresh")
        PROVE  touched'[d] \/ Slot(d)' = frame[d].item
    <2> DEFINE s == KV!SlotOf(req[d])
    <2>1. /\ req[d].ns \in Namespaces /\ req[d].key \in Keys
          /\ s = <<req[d].ns, req[d].key>> /\ s \in Slots
          /\ frame[d].scoped = scopes[req[d].ns] /\ Slot(d) = Contents[s]
      BY <1>5, SlotOfCall
    <2>2. frame[d].scoped # None
      BY <1>1, <1>5 DEF CallOK
    <2>3. Slot(d)' = Contents'[s]
      BY <2>1, <2>2 DEF Slot, Contents, Stored
    <2>4. touched[d] \/ Slot(d) = frame[d].item
      BY <1>5 DEF CallHistory
    <2>5. Phases[d] = "called" /\ Phases'[d] = "called"
      BY <1>5 DEF Phases, AbstractPhase
    <2>6. touched[d] \/ Contents'[s] # Contents[s] => touched'[d]
      BY <2>5 DEF KV!Touch
    <2> QED BY <2>1, <2>3, <2>4, <2>6
  <1> QED BY <1>2, <1>3, <1>4, <1>5 DEF CallHistory

\* What is left to show of a step of call c.
LEMMA StepOfCall ==
  ASSUME HInv, IInv', NEW c \in Clients,
         \A d \in Clients \ {c} :
           pc'[d] = pc[d] /\ frame'[d] = frame[d] /\ req'[d] = req[d],
         \A ns \in Namespaces : scopes[ns] # None => scopes'[ns] = scopes[ns],
         UNCHANGED clock, KeepTime, KV!Touch, MapsInv', CallHistory(c)'
  PROVE  HInv'
  <1>1. ASSUME NEW d \in Clients \ {c} PROVE CallHistory(d)'
    <2>1. clock' \in Nat /\ clock <= clock'
      BY DEF HInv, IInv, TypeOK
    <2> QED BY <2>1, OthersKeepHistory DEF HInv, HistoryInv
  <1>2. HTypeOK'
    BY BookkeepingTypes DEF HInv
  <1> QED BY <1>1, <1>2 DEF HInv, HistoryInv

\* A step that returns: the change of the store, if any, and the response are
\* one step of the interface.
LEMMA ReturnHInv ==
  ASSUME HInv, IInv', NEW c \in Clients, NEW r \in Replies, pc[c] # "idle",
         Return(c, r), MapsInv', UNCHANGED <<clock, scopes>>, KeepTime, KV!Touch
  PROVE  HInv'
  <1>1. /\ pc'[c] = "idle"
        /\ \A d \in Clients \ {c} :
             pc'[d] = pc[d] /\ frame'[d] = frame[d] /\ req'[d] = req[d]
    BY ReturnType DEF HInv, IInv
  <1>2. CallHistory(c)'
    <2>1. since'[c] = 0 /\ clock' \in Nat
      BY <1>1 DEF KeepTime, HInv, IInv, TypeOK
    <2>2. ~touched'[c]
      BY <1>1 DEF KV!Touch, Phases, AbstractPhase
    <2> QED BY <1>1, <2>1, <2>2 DEF CallHistory
  <1> QED BY <1>1, <1>2, StepOfCall

\* A step inside a call.
LEMMA ContinueHInv ==
  ASSUME HInv, IInv', NEW c \in Clients, NEW p \in Points, NEW f \in Frames,
         pc[c] # "idle", p # "idle", Continue(c, p, f), MapsInv',
         \A ns \in Namespaces : scopes[ns] # None => scopes'[ns] = scopes[ns],
         UNCHANGED clock, KeepTime, KV!Touch,
         p = "swap" \/ (p = "item" /\ req[c].op \in WriteOps) =>
           f.purge = clock + req[c].ttl,
         p = "swap" \/ (p = "stamp" /\ req[c].op = "Refresh") =>
           touched'[c] \/ Slot(c)' = f.item
  PROVE  HInv'
  <1>1. /\ pc'[c] = p /\ frame'[c] = f /\ req'[c] = req[c]
        /\ \A d \in Clients \ {c} :
             pc'[d] = pc[d] /\ frame'[d] = frame[d] /\ req'[d] = req[d]
    BY ContinueType DEF HInv, IInv
  <1>2. CallHistory(c)'
    <2>1. since'[c] = since[c] /\ since[c] \in Nat /\ since[c] <= clock
          /\ clock \in Nat
      BY <1>1 DEF KeepTime, HInv, HTypeOK, HistoryInv, CallHistory, IInv, TypeOK
    <2>2. p = "expiry" => ~touched'[c]
      BY <1>1 DEF KV!Touch, Phases, AbstractPhase
    <2>3. f.purge = clock + req[c].ttl => StampedInCall(c)'
      BY <1>1, <2>1 DEF StampedInCall
    <2> QED BY <1>1, <2>1, <2>2, <2>3 DEF CallHistory
  <1> QED BY <1>1, <1>2, StepOfCall

Refines == KV!Next \/ UNCHANGED KV!vars

\* A step of an abstract call is a step of the interface.
LEMMA OperationIsNext ==
  ASSUME NEW c \in Clients, KV!Touch,
         \/ KV!Miss(c) \/ KV!Find(c) \/ KV!Answer(c)
         \/ KV!Store(c) \/ KV!Extend(c) \/ KV!Drop(c)
  PROVE  Refines
  BY DEF KV!Next, Refines

\* A call of the store is a call of the interface.
LEMMA InvokeRefines ==
  ASSUME HInv, IInv', NEW c \in Clients, NEW r \in Requests, Invoke(c, r),
         KeepTime, KV!Touch
  PROVE  HInv' /\ Refines
  <1>1. /\ pc \in [Clients -> Points] /\ reply \in [Clients -> Replies]
        /\ frame \in [Clients -> Frames] /\ req \in [Clients -> Requests \cup {None}]
        /\ clock \in Nat
    BY DEF HInv, IInv, TypeOK
  <1>2. UNCHANGED <<clock, scopes, maps, frame>> /\ Contents' = Contents
    BY DEF Invoke, Contents, Stored
  <1>3. CallHistory(c)'
    <2>1. pc'[c] = "scope" /\ since'[c] = clock
      BY <1>1 DEF Invoke, KeepTime
    <2> QED BY <1>1, <1>2, <2>1 DEF CallHistory
  <1>4. MapsInv'
    BY <1>2 DEF HInv, MapsInv
  <1>5. HInv'
    BY <1>1, <1>2, <1>3, <1>4, StepOfCall DEF Invoke
  <1>6. KV!Call(c, r)
    <2>1. Phases[c] = "idle" /\ Phases' = [Phases EXCEPT ![c] = "called"]
      BY <1>1 DEF Invoke, Phases, AbstractPhase
    <2>2. Outcomes' = Outcomes
      BY <1>1, <1>2 DEF Invoke, Outcomes
    <2>3. Answers' = [Answers EXCEPT ![c] = None]
      BY <1>1, ReplyAssumption DEF Invoke, Answers, AbstractReply, Errors
    <2>4. since' = [since EXCEPT ![c] = clock]
      BY <1>1 DEF Invoke, KeepTime, HInv, HTypeOK, HistoryInv, CallHistory
    <2> QED BY <1>2, <2>1, <2>2, <2>3, <2>4 DEF KV!Call, Invoke
  <1> QED BY <1>5, <1>6, SameCalls DEF KV!Next, Refines

\* A missing namespace is a missing key; any other map is looked into later.
LEMMA LoadScopeRefines ==
  ASSUME HInv, IInv', NEW c \in Clients, LoadScope(c), KeepTime, KV!Touch
  PROVE  HInv' /\ Refines
  <1> DEFINE m == scopes[req[c].ns]
             found == [frame[c] EXCEPT !.scoped = m]
  <1>1. /\ TypeOK /\ CallOK(c) /\ pc[c] = "scope" /\ req[c] \in Requests
        /\ frame[c] \in Frames /\ m \in MapIds \cup {None} /\ found \in Frames
    <2>1. TypeOK /\ CallOK(c) /\ pc[c] = "scope"
      BY DEF HInv, IInv, CallInv, LoadScope
    <2>2. req[c] \in Requests /\ frame[c] \in Frames
      BY <2>1 DEF TypeOK, CallOK
    <2>3. m \in MapIds \cup {None}
      BY <2>1, <2>2, RequestFields DEF TypeOK
    <2> QED BY <2>1, <2>2, <2>3 DEF Frames
  <1>2. UNCHANGED <<clock, scopes, maps>> /\ Contents' = Contents /\ MapsInv'
    BY DEF LoadScope, Contents, Stored, HInv, MapsInv
  <1>3. \A n \in Namespaces : scopes[n] # None => scopes'[n] = scopes[n]
    BY <1>2
  <1>4. ASSUME NEW p \in {"stamp", "item", "create"}, NEW f \in Frames,
               Continue(c, p, f),
               p = "item" => req[c].op \notin WriteOps,
               p = "stamp" => req[c].op \in WriteOps
        PROVE  HInv' /\ Refines
    <2>1. p \in Points /\ p \notin {"idle", "expiry", "swap"}
      BY DEF Points
    <2>2. req[c].op \in WriteOps => req[c].op # "Refresh"
      BY DEF WriteOps
    <2>3. HInv'
      BY <1>1, <1>2, <1>3, <1>4, <2>1, <2>2, ContinueHInv
    <2>4. UNCHANGED KV!vars
      BY <1>1, <1>2, <1>4, <2>1, InsideIsStutter DEF HInv
    <2> QED BY <2>3, <2>4 DEF Refines
  <1>5. ASSUME NEW r \in {"ok", "InvalidNamespace"}, m = None, Return(c, r),
               IF r = "ok" THEN req[c].op = "Remove"
                           ELSE req[c].op \in ReadOps \cup {"Refresh"}
        PROVE  HInv' /\ Refines
    <2>1. r \in Replies
      BY DEF Replies, Errors
    <2>2. HInv'
      BY <1>1, <1>2, <1>5, <2>1, ReturnHInv
    <2>3. KV!Respond(c, AbstractReply(r))
      BY <1>1, <1>5, <2>1, ReturnIsRespond DEF HInv
    <2>4. Phases[c] = "called"
      BY <1>1 DEF Phases, AbstractPhase
    <2>5. KV!SlotOf(req[c]) \in Slots /\ Contents[KV!SlotOf(req[c])] = None
      BY <1>1, <1>5, RequestFields DEF KV!SlotOf, Slots, Contents, Stored
    <2>6. Contents = [Contents EXCEPT ![KV!SlotOf(req[c])] = None]
      BY <2>5 DEF Contents
    <2>7. CASE r = "ok"
      BY <1>2, <1>5, <2>3, <2>4, <2>6, <2>7, OperationIsNext, <2>2
         DEF KV!Drop, KV!Called, KV!Place, AbstractReply
    <2>8. CASE r = "InvalidNamespace"
      BY <1>2, <1>5, <2>3, <2>4, <2>5, <2>8, OperationIsNext, <2>2
         DEF KV!Miss, KV!Called, KV!Absent, AbstractReply, KV!ReadOps, ReadOps
    <2> QED BY <2>7, <2>8
  <1> QED BY <1>1, <1>4, <1>5 DEF LoadScope

\* A map is published empty: nobody sees the difference.
LEMMA CreateScopeRefines ==
  ASSUME HInv, IInv', NEW c \in Clients, CreateScope(c), KeepTime, KV!Touch
  PROVE  HInv' /\ Refines
  <1> DEFINE ns == req[c].ns
             m == IF scopes[ns] = None THEN <<ns, c>> ELSE scopes[ns]
             f == [frame[c] EXCEPT !.scoped = m]
  <1>1. /\ TypeOK /\ CallOK(c) /\ pc[c] = "create" /\ req[c] \in Requests
        /\ req[c].op \in WriteOps /\ frame[c] \in Frames
        /\ Continue(c, "stamp", f) /\ scopes' = [scopes EXCEPT ![ns] = m]
        /\ UNCHANGED <<clock, maps>>
    BY DEF HInv, IInv, CallInv, CallOK, CreateScope, TypeOK
  <1>2. ns \in Namespaces /\ m \in MapIds /\ m[1] = ns
    BY <1>1, RequestFields DEF TypeOK, MapIds, HInv, MapsInv
  <1>3. f \in Frames /\ m # None /\ "stamp" \in Points
    BY <1>1, <1>2, MemStoreAssumption DEF Frames, Points
  <1>4. /\ scopes'[ns] = m
        /\ \A n \in Namespaces \ {ns} : scopes'[n] = scopes[n]
        /\ scopes[ns] # None => scopes'[ns] = scopes[ns]
    BY <1>1, <1>2 DEF TypeOK
  <1>5. \A k \in Keys : scopes[ns] = None => maps[m][k] = None
    BY <1>2, <1>3 DEF HInv, MapsInv
  <1> HIDE DEF m, f
  <1>6. MapsInv'
    <2>1. ASSUME NEW n \in MapIds, NEW k \in Keys, scopes'[n[1]] # n
          PROVE  maps'[n][k] = None
      <3>1. n[1] \in Namespaces
        BY DEF MapIds
      <3>2. scopes[n[1]] # n
        BY <1>3, <1>4, <2>1, <3>1, MemStoreAssumption
      <3> QED BY <1>1, <3>2 DEF HInv, MapsInv
    <2> QED BY <1>2, <1>4, <2>1 DEF HInv, MapsInv
  <1>7. Contents' = Contents
    <2>1. ASSUME NEW s \in Slots PROVE Stored(s)' = Stored(s)
      <3>1. s[1] \in Namespaces /\ s[2] \in Keys
        BY DEF Slots
      <3> QED BY <1>1, <1>3, <1>4, <1>5, <3>1 DEF Stored
    <2> QED BY <2>1 DEF Contents
  <1>8. "Refresh" \notin WriteOps
    BY DEF WriteOps
  <1>9. HInv'
    BY <1>1, <1>3, <1>4, <1>6, <1>8, ContinueHInv
  <1>10. UNCHANGED KV!vars
    BY <1>1, <1>3, <1>7, InsideIsStutter DEF HInv
  <1> QED BY <1>9, <1>10 DEF Refines

\* Reading the clock for a lifetime is a stutter: the call takes effect later.
LEMMA StampRefines ==
  ASSUME HInv, IInv', NEW c \in Clients, Stamp(c), KeepTime, KV!Touch
  PROVE  HInv' /\ Refines
  <1> DEFINE f == [frame[c] EXCEPT !.purge = clock + req[c].ttl]
             p == IF req[c].op = "Refresh" THEN "swap" ELSE "item"
  <1>1. /\ TypeOK /\ CallOK(c) /\ pc[c] = "stamp" /\ req[c] \in Requests
        /\ req[c].op \in WriteOps \cup {"Refresh"} /\ frame[c] \in Frames
        /\ Continue(c, p, f) /\ UNCHANGED <<clock, scopes, maps>>
    BY DEF HInv, IInv, CallInv, CallOK, Stamp, TypeOK
  <1>2. /\ f \in Frames /\ f.scoped = frame[c].scoped /\ f.item = frame[c].item
        /\ f.purge = clock + req[c].ttl /\ p \in Points
        /\ p \in {"swap", "item"} /\ (p = "swap" => req[c].op = "Refresh")
    <2>1. clock + req[c].ttl \in Nat
      BY <1>1, RequestFields DEF TypeOK
    <2> QED BY <1>1, <2>1 DEF Frames, Points
  <1> HIDE DEF f, p
  <1>3. MapsInv' /\ Contents' = Contents
    BY <1>1 DEF HInv, MapsInv, Contents, Stored
  <1>4. p = "swap" => touched'[c] \/ Slot(c)' = f.item
    <2>1. Phases[c] = "called" /\ Phases'[c] = "called"
      BY <1>1, <1>2, ContinueType DEF Phases, AbstractPhase
    <2>2. touched[c] => touched'[c]
      BY <2>1 DEF KV!Touch
    <2>3. Slot(c)' = Slot(c)
      BY <1>1, <1>2, ContinueType DEF Slot
    <2> QED BY <1>1, <1>2, <2>2, <2>3 DEF HInv, HistoryInv, CallHistory
  <1>5. HInv'
    BY <1>1, <1>2, <1>3, <1>4, ContinueHInv
  <1>6. UNCHANGED KV!vars
    BY <1>1, <1>2, <1>3, InsideIsStutter DEF HInv
  <1> QED BY <1>5, <1>6 DEF Refines

\* A call that finds nothing under its key answers so.
LEMMA MissRefines ==
  ASSUME HInv, IInv', NEW c \in Clients, pc[c] = "item",
         req[c].op \in ReadOps \cup {"Refresh"}, Slot(c) = None,
         Return(c, "InvalidKey"), UNCHANGED <<clock, scopes, maps>>,
         KeepTime, KV!Touch
  PROVE  HInv' /\ Refines
  <1>1. "InvalidKey" \in Replies
    BY DEF Replies, Errors
  <1>2. MapsInv' /\ Contents' = Contents
    BY DEF HInv, MapsInv, Contents, Stored
  <1>3. HInv'
    BY <1>1, <1>2, ReturnHInv
  <1>4. KV!Respond(c, "Missing")
    BY <1>1, ReturnIsRespond DEF HInv, AbstractReply
  <1>5. Phases[c] = "called" /\ Contents[KV!SlotOf(req[c])] = None
    BY SlotOfCall DEF Phases, AbstractPhase, HInv
  <1>6. KV!Miss(c)
    BY <1>2, <1>4, <1>5, SameCalls DEF KV!Miss, KV!Called, KV!Absent
  <1> QED BY <1>3, <1>6, OperationIsNext

\* A read that loads an item has found it, whatever becomes of the key later.
LEMMA FindRefines ==
  ASSUME HInv, IInv', NEW c \in Clients, pc[c] = "item", req[c].op \in ReadOps,
         Slot(c) # None,
         Continue(c, "expiry", [frame[c] EXCEPT !.item = Slot(c)]),
         IF req[c].op = "Read" THEN UNCHANGED maps ELSE Put(c, None),
         UNCHANGED <<clock, scopes>>, KeepTime, KV!Touch
  PROVE  HInv' /\ Refines
  <1> DEFINE f == [frame[c] EXCEPT !.item = Slot(c)]
             s == KV!SlotOf(req[c])
  <1>1. TypeOK /\ CallOK(c) /\ "expiry" \in Points
    BY DEF HInv, IInv, CallInv, Points
  <1>2. f \in Frames /\ f.item = Slot(c)
    BY <1>1, SlotType DEF TypeOK, Frames
  <1>3. s \in Slots /\ Slot(c) = Contents[s]
    BY SlotOfCall DEF HInv
  <1>4. /\ MapsInv'
        /\ IF req[c].op = "Read" THEN Contents' = Contents ELSE KV!Place(c, None)
    <2>1. CASE req[c].op = "Read"
      BY <2>1 DEF HInv, MapsInv, Contents, Stored
    <2>2. CASE req[c].op # "Read"
      BY <2>2, PutIsPlace DEF HInv
    <2> QED BY <2>1, <2>2
  <1> HIDE DEF f, s
  <1>5. HInv'
    BY <1>1, <1>2, <1>4, ContinueHInv DEF f
  <1>6. KV!Find(c)
    <2>1. Phases[c] = "called" /\ Phases' = [Phases EXCEPT ![c] = "found"]
      BY <1>1 DEF Phases, AbstractPhase, Continue, TypeOK
    <2>2. Outcomes' = [Outcomes EXCEPT ![c] = Slot(c)]
      BY <1>1, <1>2 DEF Outcomes, Continue, TypeOK, f
    <2>3. Answers' = Answers /\ req' = req
      BY <1>1 DEF Answers, AbstractReply, Continue, TypeOK
    <2>4. since' = since
      BY <1>1 DEF Continue, KeepTime, HInv, HTypeOK, HistoryInv, CallHistory,
                  TypeOK
    <2> QED BY <1>3, <1>4, <2>1, <2>2, <2>3, <2>4, SameCalls
            DEF KV!Find, KV!Called, KV!Absent, s
  <1> QED BY <1>5, <1>6, OperationIsNext

\* An item in hand is judged as the interface judges it.
LEMMA CheckExpiryRefines ==
  ASSUME HInv, IInv', NEW c \in Clients, CheckExpiry(c), KeepTime, KV!Touch
  PROVE  HInv' /\ Refines
  <1> DEFINE r == IF Expired(frame[c].item, clock) THEN "ExpiredItem"
                  ELSE frame[c].item.value
  <1>1. /\ TypeOK /\ CallOK(c) /\ pc[c] = "expiry" /\ Return(c, r)
        /\ UNCHANGED <<clock, scopes, maps>>
    BY DEF HInv, IInv, CallInv, CheckExpiry
  <1>2. frame[c].item \in Items
    BY <1>1 DEF CallOK, TypeOK, Frames
  <1>3. r \in Replies /\ AbstractReply(r) = r
    BY <1>2, ReplyAssumption DEF Items, Replies, Errors, AbstractReply
  <1>4. MapsInv' /\ Contents' = Contents
    BY <1>1 DEF HInv, MapsInv, Contents, Stored
  <1>5. Phases[c] = "found" /\ Outcomes[c] = frame[c].item
    BY <1>1 DEF Phases, AbstractPhase, Outcomes
  <1>6. r = IF KV!Expired(Outcomes[c], clock) THEN "ExpiredItem"
            ELSE Outcomes[c].value
    BY <1>5 DEF Expired, KV!Expired
  <1> HIDE DEF r
  <1>7. HInv'
    BY <1>1, <1>3, <1>4, ReturnHInv
  <1>8. KV!Respond(c, r)
    BY <1>1, <1>3, ReturnIsRespond DEF HInv
  <1>9. KV!Answer(c)
    BY <1>1, <1>4, <1>5, <1>6, <1>8 DEF KV!Answer
  <1> QED BY <1>7, <1>9, OperationIsNext

\* A call that puts an item, or nothing, under its key and returns.
LEMMA PutReturns ==
  ASSUME HInv, IInv', NEW c \in Clients, pc[c] \in {"item", "swap"},
         NEW it \in Items \cup {None}, Put(c, it),
         NEW r \in Replies, AbstractReply(r) = r, Return(c, r),
         UNCHANGED <<clock, scopes>>, KeepTime, KV!Touch
  PROVE  /\ HInv' /\ KV!Respond(c, r) /\ KV!Place(c, it)
         /\ Phases[c] = "called"
         /\ Contents[KV!SlotOf(req[c])] = Slot(c)
  <1>1. KV!Place(c, it) /\ MapsInv'
    BY PutIsPlace DEF HInv
  <1>2. HInv'
    BY <1>1, ReturnHInv
  <1>3. KV!Respond(c, r)
    BY ReturnIsRespond DEF HInv
  <1>4. Phases[c] = "called"
    BY DEF Phases, AbstractPhase
  <1> QED BY <1>1, <1>2, <1>3, <1>4, SlotOfCall DEF HInv

\* One that changes nothing and returns.
LEMMA LeaveReturns ==
  ASSUME HInv, IInv', NEW c \in Clients, pc[c] \in {"item", "swap"},
         NEW r \in Replies, AbstractReply(r) = r, Return(c, r),
         UNCHANGED <<clock, scopes, maps>>, KeepTime, KV!Touch
  PROVE  /\ HInv' /\ KV!Respond(c, r) /\ Contents' = Contents
         /\ Phases[c] = "called"
         /\ Contents[KV!SlotOf(req[c])] = Slot(c)
  <1>1. MapsInv' /\ Contents' = Contents
    BY DEF HInv, MapsInv, Contents, Stored
  <1>2. HInv'
    BY <1>1, ReturnHInv
  <1>3. KV!Respond(c, r)
    BY ReturnIsRespond DEF HInv
  <1>4. Phases[c] = "called"
    BY DEF Phases, AbstractPhase
  <1> QED BY <1>1, <1>2, <1>3, <1>4, SlotOfCall DEF HInv

\* The new item's lifetime counts from some moment of the call.
LEMMA NewItemIsStamped ==
  ASSUME NEW c \in Clients, StampedInCall(c), NEW v, KV!Place(c, NewItem(c, v))
  PROVE  KV!PlaceStamped(c, v)
  BY DEF StampedInCall, NewItem, KV!PlaceStamped

\* CheckAndSet and Set take effect when the item is stored, or one is there.
LEMMA StoreRefines ==
  ASSUME HInv, IInv', NEW c \in Clients, StoreIfAbsent(c) \/ StoreItem(c),
         KeepTime, KV!Touch
  PROVE  HInv' /\ Refines
  <1>1. /\ TypeOK /\ CallOK(c) /\ pc[c] = "item" /\ req[c] \in Requests
        /\ req[c].op \in WriteOps /\ UNCHANGED <<clock, scopes>>
    BY DEF HInv, IInv, CallInv, CallOK, StoreIfAbsent, StoreItem, At, WriteOps
  <1>2. StampedInCall(c)
    BY <1>1 DEF HInv, HistoryInv, CallHistory
  <1>3. NewItem(c, req[c].value) \in Items
    BY <1>1, RequestFields, NewItemType
  <1>4. /\ "ok" \in Replies /\ AbstractReply("ok") = "ok"
        /\ "ItemAlreadyExists" \in Replies
        /\ AbstractReply("ItemAlreadyExists") = "ItemAlreadyExists"
    BY DEF Replies, Errors, AbstractReply
  <1>5. CASE /\ req[c].op = "CheckAndSet" => Slot(c) = None
             /\ Put(c, NewItem(c, req[c].value)) /\ Return(c, "ok")
    <2>1. /\ HInv' /\ KV!Respond(c, "ok")
          /\ KV!Place(c, NewItem(c, req[c].value)) /\ Phases[c] = "called"
          /\ Contents[KV!SlotOf(req[c])] = Slot(c)
      BY <1>1, <1>3, <1>4, <1>5, PutReturns
    <2>2. KV!PlaceStamped(c, req[c].value)
      BY <1>2, <2>1, NewItemIsStamped
    <2>3. KV!Store(c)
      BY <1>1, <1>5, <2>1, <2>2, SameCalls DEF KV!Store, KV!Called, KV!Absent
    <2> QED BY <2>1, <2>3, OperationIsNext
  <1>6. CASE /\ req[c].op = "CheckAndSet" /\ Slot(c) # None /\ UNCHANGED maps
             /\ Return(c, "ItemAlreadyExists")
    <2>1. /\ HInv' /\ KV!Respond(c, "ItemAlreadyExists") /\ Contents' = Contents
          /\ Phases[c] = "called" /\ Contents[KV!SlotOf(req[c])] = Slot(c)
      BY <1>1, <1>4, <1>6, LeaveReturns
    <2>2. KV!Store(c)
      BY <1>1, <1>6, <2>1, SameCalls DEF KV!Store, KV!Called, KV!Absent
    <2> QED BY <2>1, <2>2, OperationIsNext
  <1> QED BY <1>5, <1>6 DEF StoreIfAbsent, StoreItem, At

\* Deleting it is the moment Remove takes effect.
LEMMA DeleteItemRefines ==
  ASSUME HInv, IInv', NEW c \in Clients, DeleteItem(c), KeepTime, KV!Touch
  PROVE  HInv' /\ Refines
  <1>1. /\ pc[c] = "item" /\ req[c].op = "Remove" /\ UNCHANGED <<clock, scopes>>
        /\ Put(c, None) /\ Return(c, "ok")
    BY DEF DeleteItem, At
  <1>2. "ok" \in Replies /\ AbstractReply("ok") = "ok" /\ None \in Items \cup {None}
    BY DEF Replies, AbstractReply
  <1>3. HInv' /\ KV!Respond(c, "ok") /\ KV!Place(c, None) /\ Phases[c] = "called"
    BY <1>1, <1>2, PutReturns
  <1>4. KV!Drop(c)
    BY <1>1, <1>3 DEF KV!Drop, KV!Called
  <1> QED BY <1>3, <1>4, OperationIsNext

\* Refresh that finds nothing answers so; one that does goes on.
LEMMA RefreshLoadRefines ==
  ASSUME HInv, IInv', NEW c \in Clients, RefreshLoad(c), KeepTime, KV!Touch
  PROVE  HInv' /\ Refines
  <1>1. /\ TypeOK /\ CallOK(c) /\ pc[c] = "item" /\ req[c].op = "Refresh"
        /\ UNCHANGED <<clock, scopes, maps>>
    BY DEF HInv, IInv, CallInv, RefreshLoad, At
  <1>2. CASE Slot(c) = None /\ Return(c, "InvalidKey")
    BY <1>1, <1>2, MissRefines
  <1>3. CASE /\ Slot(c) # None
             /\ Continue(c, "stamp", [frame[c] EXCEPT !.item = Slot(c)])
    <2> DEFINE f == [frame[c] EXCEPT !.item = Slot(c)]
    <2>1. f \in Frames /\ f.scoped = frame[c].scoped /\ f.item = Slot(c)
      BY <1>1, SlotType DEF TypeOK, Frames
    <2>2. MapsInv' /\ Contents' = Contents /\ "stamp" \in Points
      BY <1>1 DEF HInv, MapsInv, Contents, Stored, Points
    <2>3. Continue(c, "stamp", f)
      BY <1>3
    <2> HIDE DEF f
    <2>4. frame'[c] = f /\ req'[c] = req[c]
      BY <1>1, <2>1, <2>2, <2>3, ContinueType
    <2>5. Slot(c)' = Slot(c)
      BY <1>1, <2>1, <2>4 DEF Slot
    <2>6. HInv'
      BY <1>1, <2>1, <2>2, <2>3, <2>5, ContinueHInv
    <2>7. UNCHANGED KV!vars
      BY <1>1, <2>1, <2>2, <2>3, InsideIsStutter DEF HInv
    <2> QED BY <2>6, <2>7 DEF Refines
  <1> QED BY <1>2, <1>3 DEF RefreshLoad

\* Refresh stores the value it loaded only while it is still there, and gives
\* up only because of a change.
LEMMA SwapRefines ==
  ASSUME HInv, IInv', NEW c \in Clients, Swap(c), KeepTime, KV!Touch
  PROVE  HInv' /\ Refines
  <1>1. /\ TypeOK /\ CallOK(c) /\ pc[c] = "swap" /\ req[c].op = "Refresh"
        /\ UNCHANGED <<clock, scopes>>
    BY DEF HInv, IInv, CallInv, CallOK, Swap
  <1>2. StampedInCall(c) /\ (touched[c] \/ Slot(c) = frame[c].item)
    BY <1>1 DEF HInv, HistoryInv, CallHistory
  <1>3. frame[c].item \in Items /\ frame[c].item # None
    BY <1>1 DEF CallOK, TypeOK, Frames
  <1>4. NewItem(c, frame[c].item.value) \in Items
    BY <1>1, <1>3, NewItemType DEF Items
  <1>5. /\ "ok" \in Replies /\ AbstractReply("ok") = "ok"
        /\ "ItemChanged" \in Replies /\ AbstractReply("ItemChanged") = "ItemChanged"
    BY DEF Replies, Errors, AbstractReply
  <1>6. CASE /\ Slot(c) = frame[c].item
             /\ Put(c, NewItem(c, frame[c].item.value)) /\ Return(c, "ok")
    <2>1. /\ HInv' /\ KV!Respond(c, "ok")
          /\ KV!Place(c, NewItem(c, frame[c].item.value))
          /\ Phases[c] = "called" /\ Contents[KV!SlotOf(req[c])] = frame[c].item
      BY <1>1, <1>4, <1>5, <1>6, PutReturns
    <2>2. KV!PlaceStamped(c, frame[c].item.value)
      BY <1>2, <2>1, NewItemIsStamped
    <2>3. KV!Extend(c)
      BY <1>1, <1>3, <2>1, <2>2 DEF KV!Extend, KV!Called, KV!Absent
    <2> QED BY <2>1, <2>3, OperationIsNext
  <1>7. CASE /\ Slot(c) # frame[c].item /\ UNCHANGED maps
             /\ Return(c, "ItemChanged")
    <2>1. /\ HInv' /\ KV!Respond(c, "ItemChanged") /\ Contents' = Contents
          /\ Phases[c] = "called"
      BY <1>1, <1>5, <1>7, LeaveReturns
    <2>2. KV!Extend(c)
      BY <1>1, <1>2, <1>7, <2>1 DEF KV!Extend, KV!Called
    <2> QED BY <2>1, <2>2, OperationIsNext
  <1> QED BY <1>6, <1>7 DEF Swap

\* Whatever a caller does is a step of the interface or a stutter.
LEMMA ClientRefines ==
  ASSUME HInv, IInv', NEW c \in Clients, Client(c), KeepTime, KV!Touch
  PROVE  HInv' /\ Refines
  <1>1. CASE ReadLoad(c) \/ TakeLoad(c)
    <2>1. pc[c] = "item" /\ req[c].op \in ReadOps /\ UNCHANGED <<clock, scopes>>
      BY <1>1 DEF ReadLoad, TakeLoad, At, ReadOps
    <2>2. CASE Slot(c) = None /\ Return(c, "InvalidKey") /\ UNCHANGED maps
      BY <2>1, <2>2, MissRefines
    <2>3. CASE /\ Slot(c) # None
               /\ Continue(c, "expiry", [frame[c] EXCEPT !.item = Slot(c)])
               /\ IF req[c].op = "Read" THEN UNCHANGED maps ELSE Put(c, None)
      BY <2>1, <2>3, FindRefines
    <2> QED BY <1>1, <2>2, <2>3 DEF ReadLoad, TakeLoad, At
  <1> QED BY <1>1, LoadScopeRefines, CreateScopeRefines, StampRefines,
             CheckExpiryRefines, StoreRefines, DeleteItemRefines,
             RefreshLoadRefines, SwapRefines
          DEF Client

\* The collector, the clock and the environment leave every call where it is.
LEMMA NoCallSteps ==
  ASSUME HInv, IInv', UNCHANGED <<pc, req, frame, reply, scopes>>, MapsInv',
         clock' \in Nat, clock <= clock', KeepTime, KV!Touch
  PROVE  /\ HInv' /\ UNCHANGED <<Phases, req, since, Outcomes, Answers>>
         /\ Contents' = Contents /\ clock' = clock => UNCHANGED KV!vars
  <1>1. ASSUME NEW d \in Clients PROVE CallHistory(d)'
    BY OthersKeepHistory DEF HInv, HistoryInv
  <1>2. HInv'
    BY <1>1, BookkeepingTypes DEF HInv, HistoryInv
  <1>3. UNCHANGED <<Phases, Outcomes, Answers>>
    BY DEF Phases, Outcomes, Answers
  <1>4. since' = since
    BY DEF KeepTime, HInv, HTypeOK, HistoryInv, CallHistory
  <1>5. pc \in [Clients -> Points]
    BY DEF HInv, IInv, TypeOK
  <1>6. ASSUME Contents' = Contents PROVE touched' = touched
    BY <1>3, <1>5, <1>6, TouchedOnlyByChange DEF HInv
  <1> QED BY <1>2, <1>3, <1>4, <1>6 DEF KV!vars

\* What the collector deletes is an expired item, and one step of Forget.
LEMMA CollectDeleteRefines ==
  ASSUME HInv, IInv', CollectDelete, KeepTime, KV!Touch
  PROVE  HInv' /\ Refines
  <1> DEFINE m == gcSeen.map  k == gcSeen.key  it == gcSeen.item
             s == <<m[1], k>>
  <1>1. /\ gcSeen \in Entries /\ Expired(it, gcNow) /\ gcNow <= clock
        /\ gcNow \in Nat /\ clock \in Nat
        /\ UNCHANGED <<clock, scopes, pc, req, frame, reply>>
    BY DEF HInv, IInv, TypeOK, CollectInv, CollectDelete, callVars
  <1>2. /\ m \in MapIds /\ k \in Keys /\ it \in Items
        /\ m[1] \in Namespaces /\ s \in Slots
    BY <1>1 DEF Entries, MapIds, Slots
  <1>3. maps' = [maps EXCEPT ![m][k] = IF @ = it THEN None ELSE @]
    BY DEF CollectDelete
  <1>4. maps \in [MapIds -> [Keys -> Items \cup {None}]]
    BY DEF HInv, IInv, TypeOK
  <1>5. it # None /\ Expired(it, clock)
    <2>1. it # None
      BY <1>2, StoreAssumption
    <2>2. it.purge \in Nat
      BY <1>2 DEF Items
    <2> QED BY <1>1, <2>1, <2>2 DEF Expired
  <1> HIDE DEF m, k, it
  <1>6. \A n \in MapIds, j \in Keys :
          maps'[n][j] = IF n = m /\ j = k /\ maps[m][k] = it THEN None
                        ELSE maps[n][j]
    BY <1>2, <1>3, <1>4
  <1>7. MapsInv'
    BY <1>1, <1>6 DEF HInv, MapsInv
  <1>8. /\ HInv' /\ UNCHANGED <<Phases, req, since, Outcomes, Answers>>
        /\ Contents' = Contents => UNCHANGED KV!vars
    BY <1>1, <1>7, NoCallSteps
  <1>9. CASE maps[m][k] # it
    <2>1. \A n \in MapIds, j \in Keys : maps'[n][j] = maps[n][j]
      BY <1>6, <1>9
    <2>2. Contents' = Contents
      <3>1. ASSUME NEW x \in Slots PROVE Stored(x)' = Stored(x)
        <4>1. x[1] \in Namespaces /\ x[2] \in Keys
          BY DEF Slots
        <4> QED BY <1>1, <2>1, <4>1 DEF Stored, HInv, IInv, TypeOK
      <3> QED BY <3>1 DEF Contents
    <2> QED BY <1>8, <2>2 DEF Refines
  <1>10. CASE maps[m][k] = it
    <2>1. scopes[m[1]] = m /\ m # None
      BY <1>2, <1>5, <1>10, MemStoreAssumption DEF HInv, MapsInv
    <2>2. Contents[s] = it
      BY <1>2, <1>10, <2>1 DEF Contents, Stored
    <2>3. ASSUME NEW x \in Slots
          PROVE  Stored(x)' = IF x = s THEN None ELSE Stored(x)
      <3>1. x[1] \in Namespaces /\ x[2] \in Keys /\ x = <<x[1], x[2]>>
        BY DEF Slots
      <3>2. CASE scopes[x[1]] = None
        BY <1>1, <2>1, <3>2 DEF Stored
      <3>3. CASE scopes[x[1]] # None
        <4>1. scopes[x[1]] \in MapIds /\ scopes[x[1]][1] = x[1]
          BY <3>1, <3>3 DEF HInv, IInv, TypeOK, MapsInv
        <4>2. scopes[x[1]] = m /\ x[2] = k <=> x = s
          BY <2>1, <3>1, <4>1
        <4> QED BY <1>1, <1>6, <1>10, <3>1, <3>3, <4>1, <4>2 DEF Stored
      <3> QED BY <3>2, <3>3
    <2> HIDE DEF s
    <2>4. Contents' = [Contents EXCEPT ![s] = None]
      BY <1>2, <2>3 DEF Contents
    <2>5. KV!Forget(s)
      BY <1>1, <1>5, <1>8, <2>2, <2>4 DEF KV!Forget, KV!Expired, Expired
    <2> QED BY <1>2, <1>8, <2>5, SameCalls DEF KV!Next, Refines
  <1> QED BY <1>9, <1>10

\* So is every step of the store.
LEMMA NextRefines ==
  ASSUME HInv, [HNext]_hvars
  PROVE  HInv' /\ Refines
  <1>1. IInv'
    BY NextIInv DEF HInv, HNext, hvars
  <1>2. CASE UNCHANGED hvars
    <2>1. UNCHANGED <<clock, scopes, maps, pc, req, frame, reply, since, touched>>
      BY <1>2 DEF hvars, vars
    <2>2. HInv'
      BY <1>1, <2>1
         DEF HInv, HTypeOK, MapsInv, HistoryInv, CallHistory, StampedInCall, Slot
    <2>3. UNCHANGED KV!vars
      BY <2>1 DEF KV!vars, Contents, Stored, Phases, Outcomes, Answers
    <2> QED BY <2>2, <2>3 DEF Refines
  <1>3. ASSUME HNext PROVE HInv' /\ Refines
    <2>1. KeepTime /\ KV!Touch /\ clock \in Nat
      BY <1>3 DEF HNext, HInv, IInv, TypeOK
    <2>2. ASSUME NEW c \in Clients, NEW r \in Requests, Invoke(c, r)
          PROVE  HInv' /\ Refines
      BY <1>1, <2>1, <2>2, InvokeRefines
    <2>3. ASSUME NEW c \in Clients, Client(c)
          PROVE  HInv' /\ Refines
      BY <1>1, <2>1, <2>3, ClientRefines
    <2>4. CASE CollectDelete
      BY <1>1, <2>1, <2>4, CollectDeleteRefines
    <2>5. CASE CollectStart \/ (\E s \in gcTodo : CollectVisit(s))
                 \/ CollectEnd \/ CollectStop \/ Cancel
      <3>1. UNCHANGED <<clock, scopes, maps, pc, req, frame, reply>>
        BY <2>5 DEF CollectStart, CollectVisit, CollectEnd, CollectStop, Cancel,
                    callVars
      <3>2. MapsInv' /\ Contents' = Contents
        BY <3>1 DEF HInv, MapsInv, Contents, Stored
      <3>3. clock' \in Nat /\ clock <= clock'
        BY <2>1, <3>1
      <3> QED BY <1>1, <2>1, <3>1, <3>2, <3>3, NoCallSteps DEF Refines
    <2>6. CASE Tick
      <3>1. UNCHANGED <<scopes, maps, pc, req, frame, reply>>
            /\ clock' \in Nat /\ clock <= clock'
        BY <2>1, <2>6 DEF Tick, callVars
      <3>2. MapsInv' /\ Contents' = Contents
        BY <3>1 DEF HInv, MapsInv, Contents, Stored
      <3>3. HInv' /\ UNCHANGED <<Phases, req, since, Outcomes, Answers>>
        BY <1>1, <2>1, <3>1, <3>2, NoCallSteps
      <3>4. KV!Tick
        BY <2>6, <3>2, <3>3 DEF Tick, KV!Tick
      <3> QED BY <2>1, <3>3, <3>4 DEF KV!Next, Refines
    <2> QED BY <1>3, <2>2, <2>3, <2>4, <2>5, <2>6 DEF HNext, Next, Collect
  <1> QED BY <1>2, <1>3

\* The empty store is the empty interface.
LEMMA InitRefines ==
  ASSUME HInit
  PROVE  HInv /\ KV!Init
  <1>1. IInv
    BY InitIInv DEF HInit
  <1>2. HTypeOK /\ MapsInv /\ HistoryInv
    BY MemStoreAssumption
       DEF HInit, Init, HTypeOK, MapsInv, HistoryInv, CallHistory
  <1>3. Contents = [s \in KV!Slots |-> None]
    BY SameCalls DEF HInit, Init, Contents, Stored, Slots
  <1>4. Phases = [c \in Clients |-> "idle"] /\ Outcomes = [c \in Clients |-> None]
    BY DEF HInit, Init, Phases, AbstractPhase, Outcomes
  <1>5. Answers = [c \in Clients |-> None]
    BY ReplyAssumption DEF HInit, Init, Answers, AbstractReply, Errors
  <1> QED BY <1>1, <1>2, <1>3, <1>4, <1>5 DEF HInit, Init, HInv, KV!Init

-----------------------------------------------------------------------------
(* Theorems *)

\* The memory store is a KeyValueStore (data-store.go:27-36): whatever the
\* interleaving of the sync.Map calls of memory-store.go with those of other
\* callers, with the collector and with the passing of time, each operation
\* takes effect at one moment between its call and its return.
THEOREM StoreImplementsInterface == HSpec => ImplementsKeyValueStore
  <1>1. HInit => HInv /\ KV!Init
    BY InitRefines
  <1>2. HInv /\ [HNext]_hvars => HInv' /\ [KV!Next]_(KV!vars)
    BY NextRefines DEF Refines
  <1> QED BY <1>1, <1>2, PTL DEF HSpec, ImplementsKeyValueStore, KV!Spec
=============================================================================
