------------------------ MODULE OneTimeValuesProofs ------------------------
(***************************************************************************)
(* A value that was stored once is redeemed at most once: the proof, for   *)
(* every set of clients, namespaces, keys, values and lifetimes, and every *)
(* bound on the clock.                                                     *)
(***************************************************************************)
EXTENDS OneTimeValues, MemStoreProofs

(***************************************************************************)
(* Where a value can be: in a slot of a map, or in the hands of a call,    *)
(* which is about to store it or has just removed it.  The copies that     *)
(* Read and Refresh load do not count: they are never stored.              *)
(***************************************************************************)
InSlot(m, k, v) == maps[m][k] # None /\ maps[m][k].value = v

Storing(c, v) ==
  /\ pc[c] \in {"scope", "create", "stamp", "item"}
  /\ req[c].op \in WriteOps
  /\ req[c].value = v

Taking(c, v) ==
  /\ pc[c] = "expiry"
  /\ req[c].op = "ReadAndRemove"
  /\ frame[c].item.value = v

InCall(c, v) == Storing(c, v) \/ Taking(c, v)

\* A value is in one place at most, and only if it was written and not taken.
OnePlace(v) ==
  /\ \A m, n \in MapIds, k, l \in Keys :
       InSlot(m, k, v) /\ InSlot(n, l, v) => m = n /\ k = l
  /\ \A c, d \in Clients : InCall(c, v) /\ InCall(d, v) => c = d
  /\ \A m \in MapIds, k \in Keys, c \in Clients :
       ~(InSlot(m, k, v) /\ InCall(c, v))

OnlyFresh(v) ==
  /\ \A m \in MapIds, k \in Keys : InSlot(m, k, v) => v \in written \ taken
  /\ \A c \in Clients : InCall(c, v) => v \in written \ taken

PlaceInv ==
  /\ taken \subseteq written
  /\ \A v \in Values : OnePlace(v) /\ OnlyFresh(v)

OInv == IInv /\ PlaceInv
-----------------------------------------------------------------------------
(* Lemmas about places *)

\* No call takes a value but one that checks the expiry of what it removed.
LEMMA NothingTaken ==
  ASSUME ONext, \A c \in Clients : TakenBy(c) = {}
  PROVE  taken' = taken /\ written \subseteq written'
  BY DEF ONext

\* A step that puts no value into a place where it was not.
LEMMA FewerPlaces ==
  ASSUME PlaceInv, taken' = taken, written \subseteq written',
         \A m \in MapIds, k \in Keys, v \in Values :
           InSlot(m, k, v)' => InSlot(m, k, v),
         \A c \in Clients, v \in Values : InCall(c, v)' => InCall(c, v)
  PROVE  PlaceInv'
  <1>1. taken' \subseteq written'
    BY DEF PlaceInv
  <1>2. ASSUME NEW v \in Values PROVE OnePlace(v)' /\ OnlyFresh(v)'
    <2>1. OnePlace(v) /\ OnlyFresh(v)
      BY DEF PlaceInv
    <2>2. OnePlace(v)'
      BY <2>1 DEF OnePlace
    <2>3. OnlyFresh(v)'
      BY <2>1 DEF OnlyFresh
    <2> QED BY <2>2, <2>3
  <1> QED BY <1>1, <1>2 DEF PlaceInv

\* A call that a step leaves alone holds what it held and returns nothing.
LEMMA CallLeftAlone ==
  ASSUME NEW d \in Clients,
         pc'[d] = pc[d], req'[d] = req[d], frame'[d] = frame[d]
  PROVE  /\ \A v : InCall(d, v)' = InCall(d, v)
         /\ TakenBy(d) = {}
  BY DEF InCall, Storing, Taking, TakenBy

\* A step of one call leaves the others alone.
LEMMA OthersLeftAlone ==
  ASSUME TypeOK, NEW c \in Clients, NEW d \in Clients \ {c}, Client(c)
  PROVE  pc'[d] = pc[d] /\ req'[d] = req[d] /\ frame'[d] = frame[d]
  BY DEF TypeOK, Client, LoadScope, CreateScope, Stamp, ReadLoad, TakeLoad,
         CheckExpiry, StoreIfAbsent, StoreItem, DeleteItem, RefreshLoad, Swap,
         Continue, Return

\* Storing in one slot leaves the others alone.
LEMMA PutSlots ==
  ASSUME TypeOK, NEW c \in Clients, CallOK(c), pc[c] \in {"item", "swap"},
         NEW it, Put(c, it), NEW m \in MapIds, NEW k \in Keys
  PROVE  maps'[m][k] = IF m = frame[c].scoped /\ k = req[c].key
                       THEN it ELSE maps[m][k]
  BY SlotType DEF TypeOK, Put

-----------------------------------------------------------------------------
(* The steps that move no value: they copy it, or drop it *)

\* The steps of a call before it reaches its item, and those of Read, Refresh
\* and Remove: every one leaves the call with the values it held, or none.
LEMMA QuietCall ==
  ASSUME OInv, ONext, NEW c \in Clients,
         \/ LoadScope(c) \/ CreateScope(c) \/ Stamp(c) \/ ReadLoad(c)
         \/ DeleteItem(c) \/ RefreshLoad(c) \/ Swap(c)
  PROVE  PlaceInv'
  <1>1. TypeOK /\ CallOK(c) /\ PlaceInv /\ Client(c)
    BY DEF OInv, IInv, CallInv, Client
  <1>2. /\ \A v \in Values : InCall(c, v)' => InCall(c, v)
        /\ TakenBy(c) = {}
    <2>1. CASE LoadScope(c)
      BY <1>1, <2>1 DEF LoadScope, Continue, Return, TypeOK, CallOK, InCall,
                        Storing, Taking, TakenBy
    <2>2. CASE CreateScope(c)
      BY <1>1, <2>2 DEF CreateScope, Continue, TypeOK, InCall, Storing, Taking,
                        TakenBy
    <2>3. CASE Stamp(c)
      BY <1>1, <2>3 DEF Stamp, Continue, TypeOK, InCall, Storing, Taking,
                        TakenBy, WriteOps
    <2>4. CASE ReadLoad(c)
      BY <1>1, <2>4 DEF ReadLoad, At, Continue, Return, TypeOK, InCall, Storing,
                        Taking, TakenBy
    <2>5. CASE DeleteItem(c)
      BY <1>1, <2>5 DEF DeleteItem, At, Return, TypeOK, InCall, Storing, Taking,
                        TakenBy
    <2>6. CASE RefreshLoad(c)
      BY <1>1, <2>6 DEF RefreshLoad, At, Continue, Return, TypeOK, InCall,
                        Storing, Taking, TakenBy, WriteOps
    <2>7. CASE Swap(c)
      BY <1>1, <2>7 DEF Swap, Return, TypeOK, InCall, Storing, Taking, TakenBy
    <2> QED BY <2>1, <2>2, <2>3, <2>4, <2>5, <2>6, <2>7
  <1>3. ASSUME NEW d \in Clients \ {c}
        PROVE  /\ \A v : InCall(d, v)' = InCall(d, v)
               /\ TakenBy(d) = {}
    BY <1>1, OthersLeftAlone, CallLeftAlone
  <1>4. ASSUME NEW m \in MapIds, NEW k \in Keys, NEW v \in Values, InSlot(m, k, v)'
        PROVE  InSlot(m, k, v)
    <2>1. CASE UNCHANGED maps
      BY <1>4, <2>1 DEF InSlot
    <2>2. CASE DeleteItem(c)
      <3>1. Put(c, None) /\ pc[c] = "item"
        BY <2>2 DEF DeleteItem, At
      <3> QED BY <1>1, <1>4, <3>1, PutSlots DEF InSlot
    <2>3. CASE Swap(c) /\ maps' # maps
      <3> DEFINE it == NewItem(c, frame[c].item.value)
      <3>1. Slot(c) = frame[c].item /\ Put(c, it) /\ pc[c] = "swap"
        BY <2>3 DEF Swap
      <3>2. frame[c].item # None /\ it.value = frame[c].item.value
        BY <1>1, <3>1 DEF CallOK, NewItem
      <3> HIDE DEF it
      <3>3. maps'[m][k] = IF m = frame[c].scoped /\ k = req[c].key
                          THEN it ELSE maps[m][k]
        BY <1>1, <3>1, PutSlots
      <3> QED BY <1>4, <3>1, <3>2, <3>3 DEF InSlot, Slot
    <2> QED BY <2>1, <2>2, <2>3 DEF LoadScope, CreateScope, Stamp, ReadLoad,
                                    RefreshLoad
  <1>5. \A d \in Clients : TakenBy(d) = {}
    BY <1>2, <1>3
  <1>6. \A d \in Clients, v \in Values : InCall(d, v)' => InCall(d, v)
    BY <1>2, <1>3
  <1> QED BY <1>1, <1>4, <1>5, <1>6, NothingTaken, FewerPlaces

\* The collector, the clock and the context: values only go.
LEMMA QuietOther ==
  ASSUME OInv, ONext, Collect \/ CollectStop \/ Tick \/ Cancel
  PROVE  PlaceInv'
  <1> USE DEF callVars, gcVars
  <1>1. UNCHANGED <<pc, req, frame>> /\ TypeOK /\ CollectInv /\ PlaceInv
    BY DEF OInv, IInv, Collect, CollectStart, CollectVisit, CollectDelete,
           CollectEnd, CollectStop, Tick, Cancel
  <1>2. \A d \in Clients : TakenBy(d) = {} /\ \A v : InCall(d, v)' = InCall(d, v)
    BY <1>1, CallLeftAlone
  <1>3. ASSUME NEW m \in MapIds, NEW k \in Keys, NEW v \in Values, InSlot(m, k, v)'
        PROVE  InSlot(m, k, v)
    <2>1. CASE UNCHANGED maps
      BY <1>3, <2>1 DEF InSlot
    <2>2. CASE CollectDelete
      BY <1>1, <1>3, <2>2 DEF CollectDelete, InSlot, TypeOK
    <2> QED BY <2>1, <2>2 DEF Collect, CollectStart, CollectVisit, CollectEnd,
                              CollectStop, Tick, Cancel
  <1> QED BY <1>1, <1>2, <1>3, NothingTaken, FewerPlaces

-----------------------------------------------------------------------------
(* The steps that move a value *)

\* A call starts: the value it brings was in no place before.
LEMMA InvokePlaces ==
  ASSUME OInv, ONext, NEW c \in Clients, NEW r \in Requests, Invoke(c, r)
  PROVE  PlaceInv'
  <1>1. /\ TypeOK /\ PlaceInv /\ UNCHANGED <<maps, frame>> /\ pc[c] = "idle"
        /\ pc'[c] = "scope" /\ req'[c] = r
        /\ \A d \in Clients \ {c} : pc'[d] = pc[d] /\ req'[d] = req[d]
    BY DEF OInv, IInv, Invoke, TypeOK
  <1>2. \A d \in Clients \ {c} :
          TakenBy(d) = {} /\ \A v : InCall(d, v)' = InCall(d, v)
    BY <1>1, CallLeftAlone
  <1>3. TakenBy(c) = {} /\ \A v : ~InCall(c, v)
    BY <1>1 DEF TakenBy, InCall, Storing, Taking
  <1>4. taken' = taken /\ written \subseteq written'
    BY <1>2, <1>3, NothingTaken
  <1>5. \A v : \A m \in MapIds, k \in Keys : InSlot(m, k, v)' = InSlot(m, k, v)
    BY <1>1 DEF InSlot
  <1>6. ASSUME NEW v, InCall(c, v)' PROVE v \in written' \ written
    <2>1. WrittenBy(c) = {v}
      BY <1>1, <1>6 DEF InCall, Storing, Taking, WrittenBy
    <2> QED BY <2>1 DEF ONext
  <1>7. ASSUME NEW v \in Values PROVE OnePlace(v)' /\ OnlyFresh(v)'
    <2>1. OnePlace(v) /\ OnlyFresh(v) /\ taken \subseteq written
      BY <1>1 DEF PlaceInv
    <2>2. OnePlace(v)'
      BY <1>2, <1>3, <1>5, <1>6, <2>1 DEF OnePlace, OnlyFresh
    <2>3. OnlyFresh(v)'
      BY <1>2, <1>4, <1>5, <1>6, <2>1 DEF OnlyFresh
    <2> QED BY <2>2, <2>3
  <1> QED BY <1>1, <1>4, <1>7 DEF PlaceInv

\* ReadAndRemove takes the item out of its slot: the value is now with it.
LEMMA TakePlaces ==
  ASSUME OInv, ONext, NEW c \in Clients, TakeLoad(c)
  PROVE  PlaceInv'
  <1>1. TypeOK /\ CallOK(c) /\ PlaceInv /\ Client(c) /\ pc[c] = "item"
    BY DEF OInv, IInv, CallInv, Client, TakeLoad, At
  <1>2. \A d \in Clients \ {c} :
          TakenBy(d) = {} /\ \A v : InCall(d, v)' = InCall(d, v)
    BY <1>1, OthersLeftAlone, CallLeftAlone
  <1>3. TakenBy(c) = {} /\ \A v : ~InCall(c, v)
    BY <1>1 DEF TakenBy, InCall, Storing, Taking, TakeLoad, At, WriteOps
  <1>4. taken' = taken /\ written \subseteq written'
    BY <1>2, <1>3, NothingTaken
  <1>5. CASE Slot(c) = None
    <2>1. UNCHANGED maps /\ pc'[c] = "idle"
      BY <1>1, <1>5 DEF TakeLoad, Return, TypeOK
    <2>2. \A v : ~InCall(c, v)'
      BY <2>1 DEF InCall, Storing, Taking
    <2>3. \A v : \A m \in MapIds, k \in Keys : InSlot(m, k, v)' => InSlot(m, k, v)
      BY <2>1 DEF InSlot
    <2> QED BY <1>1, <1>2, <1>4, <2>2, <2>3, FewerPlaces
  <1>6. CASE Slot(c) # None
    <2>1. PICK n \in MapIds, l \in Keys : n = frame[c].scoped /\ l = req[c].key
      BY <1>1, SlotType
    <2>2. Put(c, None) /\ pc'[c] = "expiry" /\ frame'[c].item = Slot(c)
      BY <1>1, <1>6 DEF TakeLoad, Continue, TypeOK, Frames
    <2>3. \A m \in MapIds, k \in Keys :
            maps'[m][k] = IF m = n /\ k = l THEN None ELSE maps[m][k]
      BY <1>1, <2>1, <2>2, PutSlots
    <2>4. \A v : InCall(c, v)' => InSlot(n, l, v) /\ ~InSlot(n, l, v)'
      BY <1>6, <2>1, <2>2, <2>3 DEF InCall, Storing, Taking, InSlot, Slot
    <2>5. \A v : \A m \in MapIds, k \in Keys : InSlot(m, k, v)' =>
            InSlot(m, k, v) /\ ~(m = n /\ k = l)
      BY <2>3 DEF InSlot
    <2>6. ASSUME NEW v \in Values PROVE OnePlace(v)' /\ OnlyFresh(v)'
      <3>1. OnePlace(v) /\ OnlyFresh(v)
        BY <1>1 DEF PlaceInv
      <3>2. OnePlace(v)'
        BY <1>2, <2>1, <2>4, <2>5, <3>1 DEF OnePlace
      <3>3. OnlyFresh(v)'
        BY <1>2, <1>4, <2>1, <2>4, <2>5, <3>1 DEF OnlyFresh
      <3> QED BY <3>2, <3>3
    <2> QED BY <1>1, <1>4, <2>6 DEF PlaceInv
  <1> QED BY <1>5, <1>6

\* Set and CheckAndSet put the value they brought into a slot, or drop it.
LEMMA StorePlaces ==
  ASSUME OInv, ONext, NEW c \in Clients, StoreItem(c) \/ StoreIfAbsent(c)
  PROVE  PlaceInv'
  <1> DEFINE n == frame[c].scoped
             l == req[c].key
             w == req[c].value
             it == NewItem(c, w)
  <1>1. /\ TypeOK /\ CallOK(c) /\ PlaceInv /\ Client(c) /\ pc[c] = "item"
        /\ n \in MapIds /\ l \in Keys /\ pc'[c] = "idle"
        /\ InCall(c, w)
    <2>1. TypeOK /\ CallOK(c) /\ PlaceInv /\ Client(c) /\ pc[c] = "item"
      BY DEF OInv, IInv, CallInv, Client, StoreItem, StoreIfAbsent, At
    <2>2. pc'[c] = "idle" /\ InCall(c, w)
      BY <2>1 DEF StoreItem, StoreIfAbsent, At, Return, TypeOK, InCall, Storing,
                  WriteOps
    <2> QED BY <2>1, <2>2, SlotType
  <1>2. \A d \in Clients \ {c} :
          TakenBy(d) = {} /\ \A v : InCall(d, v)' = InCall(d, v)
    BY <1>1, OthersLeftAlone, CallLeftAlone
  <1>3. TakenBy(c) = {} /\ \A v : ~InCall(c, v)'
    BY <1>1 DEF TakenBy, InCall, Storing, Taking
  <1>4. taken' = taken /\ written \subseteq written'
    BY <1>2, <1>3, NothingTaken
  <1>5. it.value = w
    BY DEF NewItem
  <1>6. UNCHANGED maps \/ Put(c, it)
    BY DEF StoreItem, StoreIfAbsent
  <1>7. \A m \in MapIds, k \in Keys :
          \/ maps'[m][k] = maps[m][k]
          \/ m = n /\ k = l /\ maps'[m][k] = it
    BY <1>1, <1>6, PutSlots
  <1> HIDE DEF n, l, w, it
  <1>8. \A v : \A m \in MapIds, k \in Keys : InSlot(m, k, v)' =>
          InSlot(m, k, v) \/ (m = n /\ k = l /\ v = w)
    BY <1>5, <1>7 DEF InSlot
  <1>9. ASSUME NEW v \in Values PROVE OnePlace(v)' /\ OnlyFresh(v)'
    <2>1. OnePlace(v) /\ OnlyFresh(v)
      BY <1>1 DEF PlaceInv
    <2>2. OnePlace(v)'
      BY <1>1, <1>2, <1>3, <1>8, <2>1 DEF OnePlace
    <2>3. OnlyFresh(v)'
      BY <1>1, <1>2, <1>3, <1>4, <1>8, <2>1 DEF OnlyFresh
    <2> QED BY <2>2, <2>3
  <1> QED BY <1>1, <1>4, <1>9 DEF PlaceInv

\* Read returns a copy of a value and ReadAndRemove the one it removed, which
\* is then in no place any more.
LEMMA ExpiryPlaces ==
  ASSUME OInv, ONext, NEW c \in Clients, CheckExpiry(c)
  PROVE  /\ PlaceInv'
         /\ \A d \in Clients : TakenBy(d) \cap taken = {}
  <1> DEFINE w == frame[c].item.value
  <1>1. /\ TypeOK /\ PlaceInv /\ Client(c) /\ pc[c] = "expiry"
        /\ pc'[c] = "idle" /\ UNCHANGED maps /\ w \in Values
        /\ reply'[c] \in {"ExpiredItem", w}
    <2>1. TypeOK /\ CallOK(c) /\ PlaceInv /\ Client(c) /\ pc[c] = "expiry"
      BY DEF OInv, IInv, CallInv, Client, CheckExpiry
    <2>2. w \in Values
      BY <2>1 DEF TypeOK, CallOK, Frames, Items
    <2> QED BY <2>1, <2>2 DEF CheckExpiry, Return, TypeOK
  <1>2. \A d \in Clients \ {c} :
          TakenBy(d) = {} /\ \A v : InCall(d, v)' = InCall(d, v)
    BY <1>1, OthersLeftAlone, CallLeftAlone
  <1>3. \A v : ~InCall(c, v)'
    BY <1>1 DEF InCall, Storing, Taking
  <1>4. \A v : \A m \in MapIds, k \in Keys : InSlot(m, k, v)' = InSlot(m, k, v)
    BY <1>1 DEF InSlot
  <1>5. TakenBy(c) \subseteq {w} /\ (TakenBy(c) # {} => InCall(c, w))
    <2>1. "ExpiredItem" \notin Values
      BY ReplyAssumption DEF Errors
    <2> QED BY <1>1, <2>1 DEF TakenBy, InCall, Taking
  <1>6. written \subseteq written' /\ taken' = taken \cup TakenBy(c)
    BY <1>2 DEF ONext
  <1> HIDE DEF w
  <1>7. ASSUME NEW v \in Values PROVE OnePlace(v)' /\ OnlyFresh(v)'
    <2>1. OnePlace(v) /\ OnlyFresh(v)
      BY <1>1 DEF PlaceInv
    <2>2. OnePlace(v)'
      BY <1>2, <1>3, <1>4, <2>1 DEF OnePlace
    <2>3. OnlyFresh(v)'
      BY <1>2, <1>3, <1>4, <1>5, <1>6, <2>1 DEF OnePlace, OnlyFresh
    <2> QED BY <2>2, <2>3
  <1>8. w \in written \ taken \/ TakenBy(c) = {}
    BY <1>1, <1>5 DEF PlaceInv, OnlyFresh
  <1>9. taken' \subseteq written'
    BY <1>1, <1>5, <1>6, <1>8 DEF PlaceInv
  <1>10. \A d \in Clients : TakenBy(d) \cap taken = {}
    BY <1>2, <1>5, <1>8
  <1> QED BY <1>7, <1>9, <1>10 DEF PlaceInv

-----------------------------------------------------------------------------
(* Theorems *)

\* No step hands out a value twice, or stores one again.
LEMMA NextOInv ==
  ASSUME OInv, [ONext]_ovars
  PROVE  OInv'
  <1>1. CASE UNCHANGED ovars
    <2>1. UNCHANGED <<maps, pc, req, frame, written, taken>> /\ PlaceInv
      BY <1>1 DEF ovars, vars, OInv
    <2>2. \A d \in Clients : \A v : InCall(d, v)' = InCall(d, v)
      BY <2>1, CallLeftAlone
    <2>3. PlaceInv'
      BY <2>1, <2>2, FewerPlaces DEF InSlot
    <2>4. IInv'
      BY <1>1, NextIInv DEF OInv, ovars
    <2> QED BY <2>3, <2>4 DEF OInv
  <1>2. CASE ONext
    <2>1. IInv'
      BY <1>2, NextIInv DEF OInv, ONext
    <2>2. PlaceInv'
      BY <1>2, InvokePlaces, QuietCall, QuietOther, TakePlaces, StorePlaces,
         ExpiryPlaces DEF ONext, Next, Client
    <2> QED BY <2>1, <2>2 DEF OInv
  <1> QED BY <1>1, <1>2

\* The invariant behind the two theorems below: what memory-store.go stores,
\* moves and removes is never in two places.
THEOREM OneTimeInvariantHolds == OSpec => []OInv
  <1>1. OInit => OInv
    <2> SUFFICES ASSUME OInit PROVE OInv
      OBVIOUS
    <2>1. IInv
      BY InitIInv DEF OInit
    <2>2. PlaceInv
      BY DEF OInit, Init, PlaceInv, OnePlace, OnlyFresh, InSlot, InCall, Storing,
             Taking
    <2> QED BY <2>1, <2>2 DEF OInv
  <1>2. OInv /\ [ONext]_ovars => OInv'
    BY NextOInv
  <1> QED BY <1>1, <1>2, PTL DEF OSpec

\* A value that ReadAndRemove has returned (memory-store.go:111-127) is in no
\* map of the store any more.
THEOREM TakenValuesAreGone == OSpec => []TakenIsGone
  <1>1. OInv => TakenIsGone
    BY DEF OInv, IInv, TypeOK, Items, PlaceInv, OnlyFresh, InSlot, TakenIsGone
  <1> QED BY <1>1, OneTimeInvariantHolds, PTL

\* A value stored by one call is returned by ReadAndRemove to one caller at
\* most, whatever Refresh, Set, Remove and the collector do to its key: an
\* authorization code of cmd/authorizer.go is redeemed once.
THEOREM ValuesAreRedeemedOnce == OSpec => RedeemedOnce
  <1> DEFINE Once == \A c \in Clients : TakenBy(c) \cap taken = {}
  <1>1. OInv /\ [ONext]_ovars => [Once]_ovars
    <2> SUFFICES ASSUME OInv, ONext PROVE Once
      OBVIOUS
    <2>1. CASE \E c \in Clients : CheckExpiry(c)
      BY <2>1, ExpiryPlaces
    <2>2. CASE \A c \in Clients : ~CheckExpiry(c)
      <3>1. ASSUME NEW c \in Clients, pc[c] = "expiry", pc'[c] = "idle" PROVE FALSE
        <4>1. TypeOK /\ pc' # pc
          BY <3>1 DEF OInv, IInv
        <4>2. PICK d \in Clients : (\E r \in Requests : Invoke(d, r)) \/ Client(d)
          BY <4>1 DEF ONext, Next, callVars, Collect, CollectStart, CollectVisit,
                      CollectDelete, CollectEnd, CollectStop, Tick, Cancel
        <4>3. d = c
          BY <3>1, <4>1, <4>2, OthersLeftAlone DEF Invoke, TypeOK
        <4> QED BY <2>2, <3>1, <4>2, <4>3
                DEF Invoke, Client, LoadScope, CreateScope, Stamp, ReadLoad,
                    TakeLoad, StoreIfAbsent, StoreItem, DeleteItem, RefreshLoad,
                    Swap, At
      <3> QED BY <3>1 DEF TakenBy
    <2> QED BY <2>1, <2>2
  <1>2. OSpec => [][Once]_ovars
    BY <1>1, OneTimeInvariantHolds, PTL DEF OSpec
  <1> QED BY <1>2 DEF RedeemedOnce
=============================================================================
