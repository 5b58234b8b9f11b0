--------------------------- MODULE MemStoreProofs ---------------------------
(***************************************************************************)
(* Proofs about MemStore, for every set of clients, namespaces, keys,      *)
(* values and lifetimes, and every bound on the clock.                     *)
(***************************************************************************)
EXTENDS MemStore, TLAPS

(***************************************************************************)
(* The inductive invariant: what a call has in hand at each point.         *)
(***************************************************************************)
CallOK(c) ==
  /\ pc[c] = "idle" => frame[c] = EmptyFrame
  /\ pc[c] # "idle" => req[c] \in Requests
  /\ pc[c] = "create" => req[c].op \in WriteOps
  /\ pc[c] = "stamp" => req[c].op \in WriteOps \cup {"Refresh"}
  /\ pc[c] = "expiry" => req[c].op \in ReadOps
  /\ pc[c] = "swap" => req[c].op = "Refresh"
  /\ pc[c] \in {"scope", "create"} => frame[c].scoped = None
  /\ pc[c] \in {"stamp", "item", "expiry", "swap"} =>
       frame[c].scoped # None /\ frame[c].scoped = scopes[req[c].ns]
  /\ pc[c] \in {"expiry", "swap"} => frame[c].item # None
  /\ pc[c] = "stamp" /\ req[c].op = "Refresh" => frame[c].item # None

CallInv == \A c \in Clients : CallOK(c)

\* The entry about to be deleted was found expired at the start of the pass.
CollectInv ==
  /\ gcNow <= clock
  /\ gcPc = "delete" => gcSeen # None /\ Expired(gcSeen.item, gcNow)

IInv == TypeOK /\ CallInv /\ CollectInv

-----------------------------------------------------------------------------
(* Lemmas about the operators *)

\* The fields of a request.
LEMMA RequestFields ==
  ASSUME NEW r \in Requests
  PROVE  /\ r.ns \in Namespaces /\ r.key \in Keys
         /\ r.op \in WriteOps \cup ReadOps \cup {"Refresh", "Remove"}
         /\ r.op \in WriteOps => r.value \in Values
         /\ r.op \in WriteOps \cup {"Refresh"} => r.ttl \in Nat
  BY StoreAssumption DEF Requests, WriteOps, ReadOps

\* The slot a call works on is a slot of an allocated map.
LEMMA SlotType ==
  ASSUME TypeOK, NEW c \in Clients, CallOK(c),
         pc[c] \in {"stamp", "item", "expiry", "swap"}
  PROVE  /\ frame[c].scoped \in MapIds
         /\ req[c].key \in Keys
         /\ Slot(c) \in Items \cup {None}
  BY RequestFields DEF TypeOK, CallOK, Frames, Slot

\* Storing an item keeps the type of the maps.
LEMMA PutType ==
  ASSUME TypeOK, NEW c \in Clients, NEW it \in Items \cup {None}, Put(c, it)
  PROVE  maps' \in [MapIds -> [Keys -> Items \cup {None}]]
  BY DEF TypeOK, Put

\* What a step that continues a call leaves well-typed.
LEMMA ContinueType ==
  ASSUME TypeOK, NEW c \in Clients, NEW p \in Points, NEW f \in Frames,
         Continue(c, p, f)
  PROVE  /\ pc' \in [Clients -> Points] /\ frame' \in [Clients -> Frames]
         /\ req' \in [Clients -> Requests \cup {None}]
         /\ reply' \in [Clients -> Replies]
         /\ pc'[c] = p /\ frame'[c] = f /\ req'[c] = req[c]
         /\ \A d \in Clients \ {c} :
              pc'[d] = pc[d] /\ frame'[d] = frame[d] /\ req'[d] = req[d]
  BY DEF TypeOK, Continue

\* An operation that returns gives its caller a reply.
LEMMA ReturnType ==
  ASSUME TypeOK, NEW c \in Clients, NEW r \in Replies, Return(c, r)
  PROVE  /\ pc' \in [Clients -> Points] /\ frame' \in [Clients -> Frames]
         /\ req' \in [Clients -> Requests \cup {None}]
         /\ reply' \in [Clients -> Replies]
         /\ pc'[c] = "idle" /\ frame'[c] = EmptyFrame
         /\ \A d \in Clients \ {c} :
              pc'[d] = pc[d] /\ frame'[d] = frame[d] /\ req'[d] = req[d]
  BY DEF TypeOK, Return, Points, EmptyFrame, Frames

\* A call that nothing happens to stays as it was, while its map is published.
LEMMA Undisturbed ==
  ASSUME TypeOK, NEW d \in Clients, CallOK(d),
         pc'[d] = pc[d], frame'[d] = frame[d], req'[d] = req[d],
         \A ns \in Namespaces : scopes[ns] # None => scopes'[ns] = scopes[ns]
  PROVE  CallOK(d)'
  BY RequestFields DEF TypeOK, CallOK, Points

-----------------------------------------------------------------------------
(* Every step preserves the invariant *)

\* At first nobody holds anything.
LEMMA InitIInv ==
  ASSUME Init
  PROVE  IInv
  <1>1. EmptyFrame \in Frames
    BY DEF EmptyFrame, Frames
  <1>2. TypeOK
    BY <1>1 DEF Init, TypeOK, Points, Replies
  <1>3. CallInv
    BY DEF Init, CallInv, CallOK
  <1>4. CollectInv
    BY DEF Init, CollectInv
  <1> QED BY <1>2, <1>3, <1>4 DEF IInv

\* A call that begins holds nothing yet.
LEMMA InvokeIInv ==
  ASSUME IInv, NEW c \in Clients, NEW r \in Requests, Invoke(c, r)
  PROVE  IInv'
  <1>1. TypeOK'
    BY DEF IInv, TypeOK, Invoke, Points, Replies, gcVars
  <1>2. CallOK(c)'
    BY DEF IInv, TypeOK, Invoke, CallInv, CallOK, EmptyFrame
  <1>3. ASSUME NEW d \in Clients \ {c} PROVE CallOK(d)'
    BY Undisturbed DEF IInv, TypeOK, Invoke, CallInv
  <1>4. CollectInv'
    BY DEF IInv, CollectInv, Invoke, gcVars
  <1> QED BY <1>1, <1>2, <1>3, <1>4 DEF IInv, CallInv

\* The steps of a call share their shape: what is left to show of each is that
\* the call itself and the two maps are in order.
LEMMA ClientStep ==
  ASSUME IInv, NEW c \in Clients, UNCHANGED <<clock, gcVars, cancelled>>,
         pc' \in [Clients -> Points], frame' \in [Clients -> Frames],
         req' \in [Clients -> Requests \cup {None}],
         reply' \in [Clients -> Replies],
         \A d \in Clients \ {c} :
           pc'[d] = pc[d] /\ frame'[d] = frame[d] /\ req'[d] = req[d],
         scopes' \in [Namespaces -> MapIds \cup {None}],
         maps' \in [MapIds -> [Keys -> Items \cup {None}]],
         \A ns \in Namespaces : scopes[ns] # None => scopes'[ns] = scopes[ns],
         CallOK(c)'
  PROVE  IInv'
  <1>1. TypeOK'
    BY DEF IInv, TypeOK, gcVars
  <1>2. ASSUME NEW d \in Clients \ {c} PROVE CallOK(d)'
    BY Undisturbed DEF IInv, CallInv
  <1>3. CollectInv'
    BY DEF IInv, CollectInv, gcVars
  <1> QED BY <1>1, <1>2, <1>3 DEF IInv, CallInv

\* The map that is loaded is the published one.
LEMMA LoadScopeIInv ==
  ASSUME IInv, NEW c \in Clients, LoadScope(c)
  PROVE  IInv'
  <1> DEFINE m == scopes[req[c].ns]
             found == [frame[c] EXCEPT !.scoped = m]
  <1>1. /\ TypeOK /\ CallOK(c) /\ pc[c] = "scope" /\ req[c] \in Requests
        /\ frame[c] \in Frames /\ frame[c].scoped = None
        /\ UNCHANGED <<clock, scopes, maps, gcVars, cancelled>>
    BY DEF IInv, CallInv, CallOK, LoadScope, TypeOK
  <1>2. /\ req[c].ns \in Namespaces
        /\ m \in MapIds \cup {None} /\ found \in Frames /\ found.scoped = m
    BY <1>1, RequestFields DEF TypeOK, Frames
  <1>3. CASE m # None /\ req[c].op \in WriteOps /\ Continue(c, "stamp", found)
    <2>1. "stamp" \in Points
      BY DEF Points
    <2> HIDE DEF m, found
    <2>2. CallOK(c)'
      BY <1>1, <1>2, <1>3, <2>1, ContinueType DEF CallOK, m, WriteOps
    <2> QED BY <1>1, <1>2, <1>3, <2>1, <2>2, ContinueType, ClientStep DEF TypeOK
  <1>4. CASE m # None /\ req[c].op \notin WriteOps /\ Continue(c, "item", found)
    <2>1. "item" \in Points
      BY DEF Points
    <2> HIDE DEF m, found
    <2>2. CallOK(c)'
      BY <1>1, <1>2, <1>4, <2>1, ContinueType DEF CallOK, m
    <2> QED BY <1>1, <1>2, <1>4, <2>1, <2>2, ContinueType, ClientStep DEF TypeOK
  <1>5. CASE req[c].op \in WriteOps /\ Continue(c, "create", frame[c])
    <2>1. "create" \in Points
      BY DEF Points
    <2>2. CallOK(c)'
      BY <1>1, <1>5, <2>1, ContinueType DEF CallOK
    <2> QED BY <1>1, <1>5, <2>1, <2>2, ContinueType, ClientStep DEF TypeOK
  <1>6. ASSUME NEW r \in {"ok", "InvalidNamespace"}, Return(c, r) PROVE IInv'
    <2>1. r \in Replies
      BY DEF Replies, Errors
    <2>2. CallOK(c)'
      BY <1>1, <1>6, <2>1, ReturnType DEF CallOK
    <2> QED BY <1>1, <1>6, <2>1, <2>2, ReturnType, ClientStep DEF TypeOK
  <1> QED BY <1>3, <1>4, <1>5, <1>6 DEF LoadScope

\* LoadOrStore publishes one map and gives it to whoever asks.
LEMMA CreateScopeIInv ==
  ASSUME IInv, NEW c \in Clients, CreateScope(c)
  PROVE  IInv'
  <1> DEFINE ns == req[c].ns
             m == IF scopes[ns] = None THEN <<ns, c>> ELSE scopes[ns]
             f == [frame[c] EXCEPT !.scoped = m]
  <1>1. /\ TypeOK /\ CallOK(c) /\ pc[c] = "create" /\ req[c] \in Requests
        /\ req[c].op \in WriteOps /\ frame[c] \in Frames
        /\ Continue(c, "stamp", f) /\ scopes' = [scopes EXCEPT ![ns] = m]
        /\ UNCHANGED <<clock, maps, gcVars, cancelled>>
    BY DEF IInv, CallInv, CallOK, CreateScope, TypeOK
  <1>2. ns \in Namespaces /\ m \in MapIds
    BY <1>1, RequestFields DEF TypeOK, MapIds
  <1>3. f \in Frames /\ f.scoped = m /\ m # None /\ "stamp" \in Points
    BY <1>1, <1>2, MemStoreAssumption DEF Frames, Points
  <1>4. scopes' \in [Namespaces -> MapIds \cup {None}] /\ scopes'[ns] = m
    BY <1>1, <1>2 DEF TypeOK
  <1>5. \A n \in Namespaces : scopes[n] # None => scopes'[n] = scopes[n]
    BY <1>1, <1>2 DEF TypeOK
  <1> HIDE DEF m, f
  <1>6. CallOK(c)'
    BY <1>1, <1>3, <1>4, ContinueType DEF CallOK, WriteOps
  <1> QED BY <1>1, <1>3, <1>4, <1>5, <1>6, ContinueType, ClientStep DEF TypeOK

\* Reading the clock for a lifetime changes no map.
LEMMA StampIInv ==
  ASSUME IInv, NEW c \in Clients, Stamp(c)
  PROVE  IInv'
  <1> DEFINE f == [frame[c] EXCEPT !.purge = clock + req[c].ttl]
             p == IF req[c].op = "Refresh" THEN "swap" ELSE "item"
  <1>1. /\ TypeOK /\ CallOK(c) /\ pc[c] = "stamp" /\ req[c] \in Requests
        /\ req[c].op \in WriteOps \cup {"Refresh"} /\ frame[c] \in Frames
        /\ Continue(c, p, f)
        /\ UNCHANGED <<clock, scopes, maps, gcVars, cancelled>>
    BY DEF IInv, CallInv, CallOK, Stamp, TypeOK
  <1>2. /\ f \in Frames /\ f.scoped = frame[c].scoped /\ f.item = frame[c].item
        /\ p \in Points /\ p \in {"swap", "item"}
        /\ p = "swap" => req[c].op = "Refresh"
    <2>1. clock + req[c].ttl \in Nat
      BY <1>1, RequestFields DEF TypeOK
    <2> QED BY <1>1, <2>1 DEF Frames, Points
  <1> HIDE DEF f, p
  <1>3. CallOK(c)'
    BY <1>1, <1>2, ContinueType DEF CallOK
  <1> QED BY <1>1, <1>2, <1>3, ContinueType, ClientStep DEF TypeOK

\* Read and Refresh load an item, or find none and return.
LEMMA LoadIInv ==
  ASSUME IInv, NEW c \in Clients, NEW p \in {"expiry", "stamp"}, pc[c] = "item",
         IF p = "expiry" THEN req[c].op \in ReadOps ELSE req[c].op = "Refresh",
         \/ Return(c, "InvalidKey") /\ UNCHANGED maps
         \/ /\ Slot(c) # None
            /\ Continue(c, p, [frame[c] EXCEPT !.item = Slot(c)])
            /\ UNCHANGED maps \/ Put(c, None),
         UNCHANGED <<clock, scopes, gcVars, cancelled>>
  PROVE  IInv'
  <1> DEFINE f == [frame[c] EXCEPT !.item = Slot(c)]
  <1>1. TypeOK /\ CallOK(c) /\ req[c] \in Requests /\ frame[c] \in Frames
    BY DEF IInv, CallInv, CallOK, TypeOK
  <1>2. /\ f \in Frames /\ f.scoped = frame[c].scoped /\ f.item = Slot(c)
        /\ p \in Points
    BY <1>1, SlotType DEF Frames, Points
  <1>3. maps' \in [MapIds -> [Keys -> Items \cup {None}]]
    BY <1>1, PutType DEF TypeOK
  <1> HIDE DEF f
  <1>4. CASE Return(c, "InvalidKey")
    <2>1. "InvalidKey" \in Replies
      BY DEF Replies, Errors
    <2>2. CallOK(c)'
      BY <1>1, <1>4, <2>1, ReturnType DEF CallOK
    <2> QED BY <1>1, <1>3, <1>4, <2>1, <2>2, ReturnType, ClientStep DEF TypeOK
  <1>5. CASE Slot(c) # None /\ Continue(c, p, f)
    <2>1. CallOK(c)'
      BY <1>1, <1>2, <1>5, ContinueType DEF CallOK
    <2> QED BY <1>1, <1>2, <1>3, <1>5, <2>1, ContinueType, ClientStep DEF TypeOK
  <1> QED BY <1>4, <1>5 DEF f

\* A call returns, having put an item into its slot or not.
LEMMA FinishIInv ==
  ASSUME IInv, NEW c \in Clients, NEW r \in Replies, Return(c, r),
         UNCHANGED maps \/ \E it \in Items \cup {None} : Put(c, it),
         UNCHANGED <<clock, scopes, gcVars, cancelled>>
  PROVE  IInv'
  <1>1. TypeOK
    BY DEF IInv
  <1>2. maps' \in [MapIds -> [Keys -> Items \cup {None}]]
    BY <1>1, PutType DEF TypeOK
  <1>3. CallOK(c)'
    BY <1>1, ReturnType DEF CallOK
  <1> QED BY <1>1, <1>2, <1>3, ReturnType, ClientStep DEF TypeOK

\* The item a call stores is an item.
LEMMA NewItemType ==
  ASSUME TypeOK, NEW c \in Clients, NEW v \in Values
  PROVE  NewItem(c, v) \in Items
  BY DEF TypeOK, Frames, NewItem, Items

\* Each of the steps that return has one of the replies of the interface.
LEMMA ClientIInv ==
  ASSUME IInv, NEW c \in Clients, Client(c)
  PROVE  IInv'
  <1>1. /\ TypeOK /\ CallOK(c) /\ None \in Items \cup {None}
        /\ Errors \cup {"ok"} \subseteq Replies /\ Values \subseteq Replies
    BY DEF IInv, CallInv, Replies
  <1>2. CASE LoadScope(c)
    BY <1>2, LoadScopeIInv
  <1>3. CASE CreateScope(c)
    BY <1>3, CreateScopeIInv
  <1>4. CASE Stamp(c)
    BY <1>4, StampIInv
  <1>5. CASE ReadLoad(c)
    BY <1>5, LoadIInv DEF ReadLoad, At, ReadOps
  <1>6. CASE TakeLoad(c)
    BY <1>6, LoadIInv DEF TakeLoad, At, ReadOps
  <1>7. CASE CheckExpiry(c)
    <2> DEFINE r == IF Expired(frame[c].item, clock) THEN "ExpiredItem"
                    ELSE frame[c].item.value
    <2>1. frame[c].item \in Items
      BY <1>1, <1>7 DEF CheckExpiry, CallOK, TypeOK, Frames
    <2>2. r \in Replies
      BY <1>1, <2>1 DEF Items, Errors
    <2>3. Return(c, r) /\ UNCHANGED <<clock, scopes, maps, gcVars, cancelled>>
      BY <1>7 DEF CheckExpiry
    <2> HIDE DEF r
    <2> QED BY <2>2, <2>3, FinishIInv
  <1>8. CASE StoreIfAbsent(c) \/ StoreItem(c)
    <2>1. req[c].value \in Values
      BY <1>1, <1>8, RequestFields
         DEF CallOK, StoreIfAbsent, StoreItem, At, WriteOps
    <2>2. NewItem(c, req[c].value) \in Items \cup {None}
      BY <1>1, <2>1, NewItemType
    <2>3. "ok" \in Replies /\ "ItemAlreadyExists" \in Replies
      BY DEF Replies, Errors
    <2> QED BY <1>8, <2>2, <2>3, FinishIInv DEF StoreIfAbsent, StoreItem
  <1>9. CASE DeleteItem(c)
    BY <1>1, <1>9, FinishIInv DEF DeleteItem
  <1>10. CASE RefreshLoad(c)
    BY <1>10, LoadIInv DEF RefreshLoad, At
  <1>11. CASE Swap(c)
    <2>1. frame[c].item \in Items
      BY <1>1, <1>11 DEF Swap, CallOK, TypeOK, Frames
    <2>2. NewItem(c, frame[c].item.value) \in Items \cup {None}
      BY <1>1, <2>1, NewItemType DEF Items
    <2>3. "ok" \in Replies /\ "ItemChanged" \in Replies
      BY DEF Replies, Errors
    <2> QED BY <1>11, <2>2, <2>3, FinishIInv DEF Swap
  <1> QED BY <1>2, <1>3, <1>4, <1>5, <1>6, <1>7, <1>8, <1>9, <1>10, <1>11
          DEF Client

\* The collector leaves the calls alone, and the items it leaves are items.
LEMMA CollectorIInv ==
  ASSUME IInv, Collect \/ CollectStop
  PROVE  IInv'
  <1> USE DEF callVars, gcVars
  <1>1. UNCHANGED <<clock, scopes, pc, req, frame, reply, cancelled>>
    BY DEF Collect, CollectStart, CollectVisit, CollectDelete, CollectEnd,
           CollectStop
  <1>2. CallInv'
    BY <1>1 DEF IInv, CallInv, CallOK
  <1>3. CASE CollectStart
    BY <1>1, <1>2, <1>3
       DEF CollectStart, IInv, TypeOK, CollectInv, Present
  <1>4. ASSUME NEW s \in gcTodo, CollectVisit(s) PROVE IInv'
    <2>1. s \in Slots /\ TypeOK
      BY DEF IInv, TypeOK
    <2>2. s[1] \in Namespaces /\ s[2] \in Keys
      BY <2>1 DEF Slots
    <2>3. Stored(s) # None => scopes[s[1]] \in MapIds /\ Stored(s) \in Items
      BY <2>1, <2>2 DEF Stored, TypeOK
    <2>4. gcTodo' \subseteq Slots /\ gcNow' = gcNow /\ UNCHANGED maps
      BY <1>4, <2>1 DEF CollectVisit, TypeOK
    <2>5. CASE Stored(s) # None /\ gcPc' = "delete" /\ Expired(Stored(s), gcNow)
              /\ gcSeen' = [map |-> scopes[s[1]], key |-> s[2], item |-> Stored(s)]
      <3>1. gcSeen' \in Entries
        BY <2>2, <2>3, <2>5 DEF Entries
      <3>2. gcSeen' # None /\ gcSeen'.item = Stored(s)
        BY <2>5, <2>3, <3>1, MemStoreAssumption
      <3> QED BY <1>1, <1>2, <2>1, <2>4, <2>5, <3>1, <3>2
              DEF IInv, TypeOK, CollectInv
    <2>6. CASE UNCHANGED <<gcPc, gcSeen>>
      BY <1>1, <1>2, <2>1, <2>4, <2>6 DEF IInv, TypeOK, CollectInv
    <2> QED BY <1>4, <2>5, <2>6 DEF CollectVisit
  <1>5. CASE CollectDelete
    <2>1. gcSeen.map \in MapIds /\ gcSeen.key \in Keys
      BY <1>5 DEF CollectDelete, IInv, TypeOK, CollectInv, Entries
    <2>2. maps' \in [MapIds -> [Keys -> Items \cup {None}]]
      BY <1>5, <2>1 DEF CollectDelete, IInv, TypeOK
    <2> QED BY <1>1, <1>2, <1>5, <2>2 DEF CollectDelete, IInv, TypeOK, CollectInv
  <1>6. CASE CollectEnd \/ CollectStop
    BY <1>1, <1>2, <1>6
       DEF CollectEnd, CollectStop, IInv, TypeOK, CollectInv
  <1> QED BY <1>3, <1>4, <1>5, <1>6 DEF Collect

\* No step of a caller, of the collector or of the clock breaks the invariant.
LEMMA NextIInv ==
  ASSUME IInv, [Next]_vars
  PROVE  IInv'
  <1>1. ASSUME Tick \/ Cancel PROVE IInv'
    <2>1. UNCHANGED <<scopes, maps, callVars, gcVars>> /\ TypeOK
      BY <1>1 DEF Tick, Cancel, IInv
    <2>2. clock' \in Nat /\ clock <= clock'
      BY <1>1, <2>1 DEF Tick, Cancel, TypeOK
    <2>3. cancelled' \in BOOLEAN
      BY <1>1, <2>1 DEF Tick, Cancel, TypeOK
    <2> QED BY <2>1, <2>2, <2>3
            DEF IInv, TypeOK, CallInv, CallOK, CollectInv, callVars, gcVars,
                Expired
  <1>2. CASE UNCHANGED vars
    BY <1>2 DEF vars, IInv, TypeOK, CallInv, CallOK, CollectInv
  <1> QED BY <1>1, <1>2, InvokeIInv, ClientIInv, CollectorIInv DEF Next

-----------------------------------------------------------------------------
(* Theorems *)

\* The inductive invariant holds of every reachable state.
THEOREM InvariantHolds == Spec => []IInv
  <1>1. Init => IInv
    BY InitIInv
  <1>2. IInv /\ [Next]_vars => IInv'
    BY NextIInv
  <1> QED BY <1>1, <1>2, PTL DEF Spec

\* Every variable of the store keeps its type: in particular a call that
\* reaches a sync.Map has a map and a key of it in hand.
THEOREM TypeCorrect == Spec => []TypeOK
  <1>1. IInv => TypeOK
    BY DEF IInv
  <1> QED BY <1>1, InvariantHolds, PTL

\* No operation works on a namespace map that lost the race to be published,
\* so no Set or CheckAndSet (memory-store.go:129-159) stores an item where no
\* reader will look for it.
THEOREM OperationsUsePublishedMap == Spec => []ScopedIsPublished
  <1>1. IInv => ScopedIsPublished
    <2> SUFFICES ASSUME IInv, NEW c \in Clients, frame[c].scoped # None
                 PROVE  frame[c].scoped = scopes[req[c].ns]
      BY DEF ScopedIsPublished
    <2>1. pc[c] \in Points /\ CallOK(c)
      BY DEF IInv, TypeOK, CallInv
    <2> QED BY <2>1 DEF CallOK, Points, EmptyFrame
  <1> QED BY <1>1, InvariantHolds, PTL

\* What collect() (memory-store.go:78-91) removes is expired at the moment it
\* removes it, however the entry changed since Range delivered it.
THEOREM CollectorSparesTheLiving == Spec => CollectsOnlyExpired
  <1> DEFINE Safe == gcPc = "delete" /\ gcPc' # "delete" =>
               \A m \in MapIds, k \in Keys :
                 maps[m][k] # None /\ maps'[m][k] = None =>
                   Expired(maps[m][k], clock)
  <1>1. IInv /\ [Next]_vars => Safe
    <2> SUFFICES ASSUME IInv, [Next]_vars, gcPc = "delete", gcPc' # "delete",
                        NEW m \in MapIds, NEW k \in Keys,
                        maps[m][k] # None, maps'[m][k] = None
                 PROVE  Expired(maps[m][k], clock)
      OBVIOUS
    <2>1. CollectDelete
      BY DEF Next, vars, gcVars, callVars, Collect, CollectStart, CollectVisit,
             CollectEnd, CollectStop, Tick, Cancel, Invoke, Client, LoadScope,
             CreateScope, Stamp, ReadLoad, TakeLoad, CheckExpiry, StoreIfAbsent,
             StoreItem, DeleteItem, RefreshLoad, Swap
    <2>2. maps[m][k] = gcSeen.item
      BY <2>1 DEF CollectDelete, IInv, TypeOK
    <2>3. gcSeen.item \in Items /\ Expired(gcSeen.item, gcNow)
          /\ gcNow \in Nat /\ clock \in Nat /\ gcNow <= clock
      BY DEF IInv, TypeOK, CollectInv, Entries
    <2> QED BY <2>2, <2>3 DEF Expired, Items
  <1>2. IInv /\ [Next]_vars => [Safe]_vars
    BY <1>1
  <1> QED BY <1>2, InvariantHolds, PTL DEF Spec, CollectsOnlyExpired

\* A call of Refresh (memory-store.go:161-182) ends with the key holding the
\* value it held, or with nothing changed.
THEOREM RefreshOnlyExtends == Spec => RefreshKeepsValue
  <1> DEFINE Kept(c) == pc[c] = "swap" /\ pc'[c] # "swap" =>
               \A m \in MapIds, k \in Keys :
                 \/ maps'[m][k] = maps[m][k]
                 \/ /\ maps[m][k] # None /\ maps'[m][k] # None
                    /\ maps'[m][k].value = maps[m][k].value
  <1>1. IInv /\ [Next]_vars => \A c \in Clients : Kept(c)
    <2> SUFFICES ASSUME IInv, [Next]_vars, NEW c \in Clients,
                        pc[c] = "swap", pc'[c] # "swap",
                        NEW m \in MapIds, NEW k \in Keys,
                        maps'[m][k] # maps[m][k]
                 PROVE  /\ maps[m][k] # None /\ maps'[m][k] # None
                        /\ maps'[m][k].value = maps[m][k].value
      OBVIOUS
    <2>1. TypeOK /\ CallOK(c)
      BY DEF IInv, CallInv
    <2>2. Swap(c)
      <3>1. PICK d \in Clients : (\E r \in Requests : Invoke(d, r)) \/ Client(d)
        BY <2>1 DEF Next, vars, callVars, gcVars, Collect, CollectStart,
                    CollectVisit, CollectDelete, CollectEnd, CollectStop, Tick,
                    Cancel
      <3>2. d = c
        BY <2>1, <3>1
           DEF TypeOK, Invoke, Client, LoadScope, CreateScope, Stamp, ReadLoad,
               TakeLoad, CheckExpiry, StoreIfAbsent, StoreItem, DeleteItem,
               RefreshLoad, Swap, Continue, Return
      <3> QED BY <3>1, <3>2
              DEF Invoke, Client, LoadScope, CreateScope, Stamp, ReadLoad,
                  TakeLoad, CheckExpiry, StoreIfAbsent, StoreItem, DeleteItem,
                  RefreshLoad, At
    <2> DEFINE it == NewItem(c, frame[c].item.value)
    <2>3. Slot(c) = frame[c].item /\ Put(c, it)
      BY <2>1, <2>2 DEF Swap
    <2>4. frame[c].item \in Items
      BY <2>1 DEF CallOK, TypeOK, Frames
    <2>5. it \in Items /\ it # None /\ it.value = frame[c].item.value
      BY <2>1, <2>4, NewItemType, StoreAssumption DEF Items, NewItem
    <2>6. maps[m][k] = frame[c].item /\ maps'[m][k] = it
      BY <2>1, <2>3 DEF TypeOK, Slot, Put
    <2> QED BY <2>4, <2>5, <2>6, StoreAssumption
  <1>2. IInv /\ [Next]_vars => [\A c \in Clients : Kept(c)]_vars
    BY <1>1
  <1> QED BY <1>2, InvariantHolds, PTL DEF Spec, RefreshKeepsValue
=============================================================================
