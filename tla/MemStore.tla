------------------------------ MODULE MemStore ------------------------------
(***************************************************************************)
(* The in-memory key/value store (internal/services/memory-store.go).      *)
(*                                                                         *)
(* A memStore is a sync.Map from namespaces to sync.Maps from keys to      *)
(* memoryItems.  No lock is held across an operation: each sync.Map call   *)
(* and each reading of the clock is a step of its own, and the steps of    *)
(* concurrent HTTP handlers and of the collector goroutine interleave.     *)
(*                                                                         *)
(* Time is a count of ticks, and time.Now() reads it.  It stops at         *)
(* MaxTime, the only bound of the module.                                  *)
(***************************************************************************)
EXTENDS StoreCalls

(***************************************************************************)
(* A sync.Map for a namespace is allocated by the client that failed to    *)
(* find one, so the pair of both names it.  A client allocates at most one *)
(* per namespace: from then on it finds one published.                     *)
(***************************************************************************)
MapIds == Namespaces \X Clients

Slots == Namespaces \X Keys

Errors == {"InvalidNamespace", "InvalidKey", "ExpiredItem",
           "ItemAlreadyExists", "ItemChanged"}

Replies == Values \cup Errors \cup {"ok", None}

\* An entry the collector is about to delete, with the item it saw there.
Entries == [map : MapIds, key : Keys, item : Items]

ASSUME MemStoreAssumption == None \notin MapIds \cup Entries

\* A call returns a value and an error, in results of their own; the model has
\* one variable for both, so the two must not be confused.
ASSUME ReplyAssumption == (Values \cup {None}) \cap Errors = {}

VARIABLES
  clock,
  scopes,     \* memStore.scopes: the map published for each namespace
  maps,       \* the contents of every allocated sync.Map
  pc,         \* what each client does next
  req,        \* the arguments of its call
  frame,      \* the locals of its call
  reply,      \* what its last call returned
  gcPc,       \* the collector goroutine: "select", "range", "delete", "stopped"
  gcNow,      \* local: the time its pass started
  gcTodo,     \* entries its pass has yet to visit
  gcSeen,     \* local: the entry about to be deleted
  cancelled   \* ctx.Done() is closed

callVars == <<pc, req, frame, reply>>
gcVars   == <<gcPc, gcNow, gcTodo, gcSeen>>
vars == <<clock, scopes, maps, pc, req, frame, reply,
          gcPc, gcNow, gcTodo, gcSeen, cancelled>>

\* The namespace's map, the item loaded, and the purge time of the item to be
\* stored.
Frames == [scoped : MapIds \cup {None}, item : Items \cup {None}, purge : Nat]

EmptyFrame == [scoped |-> None, item |-> None, purge |-> 0]

Points == {"idle", "scope", "create", "stamp", "item", "expiry", "swap"}

TypeOK ==
  /\ clock \in Nat
  /\ scopes \in [Namespaces -> MapIds \cup {None}]
  /\ maps \in [MapIds -> [Keys -> Items \cup {None}]]
  /\ pc \in [Clients -> Points]
  /\ req \in [Clients -> Requests \cup {None}]
  /\ frame \in [Clients -> Frames]
  /\ reply \in [Clients -> Replies]
  /\ gcPc \in {"select", "range", "delete", "stopped"}
  /\ gcNow \in Nat
  /\ gcTodo \subseteq Slots
  /\ gcSeen \in Entries \cup {None}
  /\ cancelled \in BOOLEAN

Init ==
  /\ clock = 0
  /\ scopes = [ns \in Namespaces |-> None]
  /\ maps = [m \in MapIds |-> [k \in Keys |-> None]]
  /\ pc = [c \in Clients |-> "idle"]
  /\ req = [c \in Clients |-> None]
  /\ frame = [c \in Clients |-> EmptyFrame]
  /\ reply = [c \in Clients |-> None]
  /\ gcPc = "select" /\ gcNow = 0 /\ gcTodo = {} /\ gcSeen = None
  /\ cancelled = FALSE

-----------------------------------------------------------------------------
(* Helpers *)

Slot(c) == maps[frame[c].scoped][req[c].key]

Put(c, it) == maps' = [maps EXCEPT ![frame[c].scoped][req[c].key] = it]

At(c, point, ops) == pc[c] = point /\ req[c].op \in ops

\* The call of client c goes on at point, with locals f.
Continue(c, point, f) ==
  /\ pc' = [pc EXCEPT ![c] = point]
  /\ frame' = [frame EXCEPT ![c] = f]
  /\ UNCHANGED <<req, reply>>

\* The call of client c returns r.
Return(c, r) ==
  /\ pc' = [pc EXCEPT ![c] = "idle"]
  /\ req' = [req EXCEPT ![c] = None]
  /\ frame' = [frame EXCEPT ![c] = EmptyFrame]
  /\ reply' = [reply EXCEPT ![c] = r]

-----------------------------------------------------------------------------
(* The operations of the store: one sync.Map call or clock reading a step. *)

Invoke(c, r) ==
  /\ pc[c] = "idle"
  /\ pc' = [pc EXCEPT ![c] = "scope"]
  /\ req' = [req EXCEPT ![c] = r]
  /\ reply' = [reply EXCEPT ![c] = None]
  /\ UNCHANGED <<clock, scopes, maps, frame, gcVars, cancelled>>

\* scopes.Load(ns), with which every operation starts.
LoadScope(c) ==
  LET m == scopes[req[c].ns]
      op == req[c].op
      found == [frame[c] EXCEPT !.scoped = m]
  IN
  /\ pc[c] = "scope"
  /\ \/ m # None /\ op \in WriteOps    /\ Continue(c, "stamp", found)
     \/ m # None /\ op \notin WriteOps /\ Continue(c, "item", found)
     \/ m = None /\ op \in WriteOps    /\ Continue(c, "create", frame[c])
     \/ m = None /\ op = "Remove"      /\ Return(c, "ok")
     \/ m = None /\ op \in ReadOps \cup {"Refresh"}
                 /\ Return(c, "InvalidNamespace")
  /\ UNCHANGED <<clock, scopes, maps, gcVars, cancelled>>

\* Mutated: the new map is stored whether or not another one was published.
CreateScopeByStore(c) ==
  LET m == <<req[c].ns, c>> IN
  /\ pc[c] = "create"
  /\ scopes' = [scopes EXCEPT ![req[c].ns] = m]
  /\ Continue(c, "stamp", [frame[c] EXCEPT !.scoped = m])
  /\ UNCHANGED <<clock, maps, gcVars, cancelled>>

\* scopes.LoadOrStore(ns, new(sync.Map)): the client that comes second gets
\* the map of the first, and its own is garbage.
CreateScope(c) ==
  LET ns == req[c].ns
      m == IF scopes[ns] = None THEN <<ns, c>> ELSE scopes[ns]
  IN
  /\ pc[c] = "create"
  /\ scopes' = [scopes EXCEPT ![ns] = m]
  /\ Continue(c, "stamp", [frame[c] EXCEPT !.scoped = m])
  /\ UNCHANGED <<clock, maps, gcVars, cancelled>>

\* purge: time.Now().Add(ttl), evaluated before the sync.Map call that stores
\* the item.
Stamp(c) ==
  /\ pc[c] = "stamp"
  /\ Continue(c, IF req[c].op = "Refresh" THEN "swap" ELSE "item",
              [frame[c] EXCEPT !.purge = clock + req[c].ttl])
  /\ UNCHANGED <<clock, scopes, maps, gcVars, cancelled>>

NewItem(c, v) == [purge |-> frame[c].purge, value |-> v]

\* Read: scoped.Load(key).
ReadLoad(c) ==
  /\ At(c, "item", {"Read"})
  /\ \/ Slot(c) = None /\ Return(c, "InvalidKey")
     \/ Slot(c) # None
        /\ Continue(c, "expiry", [frame[c] EXCEPT !.item = Slot(c)])
  /\ UNCHANGED <<clock, scopes, maps, gcVars, cancelled>>

\* Mutated: the item is loaded, and left to a later call to delete.
TakeLoadOnly(c) ==
  /\ At(c, "item", {"ReadAndRemove"})
  /\ \/ Slot(c) = None /\ Return(c, "InvalidKey")
     \/ Slot(c) # None
        /\ Continue(c, "expiry", [frame[c] EXCEPT !.item = Slot(c)])
  /\ UNCHANGED <<clock, scopes, maps, gcVars, cancelled>>

\* ReadAndRemove: scoped.LoadAndDelete(key).
TakeLoad(c) ==
  /\ At(c, "item", {"ReadAndRemove"})
  /\ \/ Slot(c) = None /\ Return(c, "InvalidKey") /\ UNCHANGED maps
     \/ /\ Slot(c) # None
        /\ Continue(c, "expiry", [frame[c] EXCEPT !.item = Slot(c)])
        /\ Put(c, None)
  /\ UNCHANGED <<clock, scopes, gcVars, cancelled>>

\* Read and ReadAndRemove: purge.Before(time.Now()), on the item loaded
\* before, whatever has become of the key since.
CheckExpiry(c) ==
  /\ pc[c] = "expiry"
  /\ LET it == frame[c].item
     IN  Return(c, IF Expired(it, clock) THEN "ExpiredItem" ELSE it.value)
  /\ UNCHANGED <<clock, scopes, maps, gcVars, cancelled>>

\* CheckAndSet: scoped.LoadOrStore(key, item).  An item that has expired and
\* is not yet collected still counts as loaded.
StoreIfAbsent(c) ==
  /\ At(c, "item", {"CheckAndSet"})
  /\ \/ Slot(c) # None /\ Return(c, "ItemAlreadyExists") /\ UNCHANGED maps
     \/ /\ Slot(c) = None
        /\ Put(c, NewItem(c, req[c].value))
        /\ Return(c, "ok")
  /\ UNCHANGED <<clock, scopes, gcVars, cancelled>>

\* Set: scoped.Store(key, item).
StoreItem(c) ==
  /\ At(c, "item", {"Set"})
  /\ Put(c, NewItem(c, req[c].value))
  /\ Return(c, "ok")
  /\ UNCHANGED <<clock, scopes, gcVars, cancelled>>

\* Refresh: scoped.Load(key).  Nothing asks whether the item has expired.
RefreshLoad(c) ==
  /\ At(c, "item", {"Refresh"})
  /\ \/ Slot(c) = None /\ Return(c, "InvalidKey")
     \/ Slot(c) # None
        /\ Continue(c, "stamp", [frame[c] EXCEPT !.item = Slot(c)])
  /\ UNCHANGED <<clock, scopes, maps, gcVars, cancelled>>

\* Mutated: the new item is stored without comparing.
SwapByStore(c) ==
  /\ pc[c] = "swap"
  /\ Put(c, NewItem(c, frame[c].item.value))
  /\ Return(c, "ok")
  /\ UNCHANGED <<clock, scopes, gcVars, cancelled>>

\* Mutated: the loaded item, not its value, becomes the value of the new one.
SwapNested(c) ==
  /\ pc[c] = "swap"
  /\ \/ /\ Slot(c) = frame[c].item
        /\ Put(c, NewItem(c, frame[c].item))
        /\ Return(c, "ok")
     \/ Slot(c) # frame[c].item /\ Return(c, "ItemChanged") /\ UNCHANGED maps
  /\ UNCHANGED <<clock, scopes, gcVars, cancelled>>

\* Refresh: scoped.CompareAndSwap(key, item, newItem).
Swap(c) ==
  /\ pc[c] = "swap"
  /\ \/ /\ Slot(c) = frame[c].item
        /\ Put(c, NewItem(c, frame[c].item.value))
        /\ Return(c, "ok")
     \/ Slot(c) # frame[c].item /\ Return(c, "ItemChanged") /\ UNCHANGED maps
  /\ UNCHANGED <<clock, scopes, gcVars, cancelled>>

\* Remove: scoped.Delete(key).
DeleteItem(c) ==
  /\ At(c, "item", {"Remove"})
  /\ Put(c, None)
  /\ Return(c, "ok")
  /\ UNCHANGED <<clock, scopes, gcVars, cancelled>>

Client(c) ==
  \/ LoadScope(c) \/ CreateScope(c) \/ Stamp(c)
  \/ ReadLoad(c) \/ TakeLoad(c) \/ CheckExpiry(c)
  \/ StoreIfAbsent(c) \/ StoreItem(c) \/ DeleteItem(c)
  \/ RefreshLoad(c) \/ Swap(c)

-----------------------------------------------------------------------------
(* The collector goroutine started by NewMemoryStore.  The ticker may fire  *)
(* at any time.  The nested Ranges visit every entry present when they      *)
(* start and not removed before its turn, and may or may not visit those    *)
(* stored after that.                                                       *)


\* The item a reader that starts now would find.
Stored(s) == IF scopes[s[1]] = None THEN None ELSE maps[scopes[s[1]]][s[2]]

Present == {s \in Slots : Stored(s) # None}

\* case <-ticker.C: collect() reads the clock and starts its Range.
CollectStart ==
  /\ gcPc = "select"
  /\ gcPc' = "range"
  /\ gcNow' = clock
  /\ \E late \in SUBSET Slots : gcTodo' = Present \cup late
  /\ UNCHANGED <<clock, scopes, maps, callVars, gcSeen, cancelled>>

\* Mutated: the comparison of the times is turned round.
CollectVisitAfter(s) ==
  LET it == Stored(s) IN
  /\ gcPc = "range"
  /\ s \in gcTodo
  /\ gcTodo' = gcTodo \ {s}
  /\ \/ /\ it # None
        /\ it.purge > gcNow
        /\ gcPc' = "delete"
        /\ gcSeen' = [map |-> scopes[s[1]], key |-> s[2], item |-> it]
     \/ /\ it # None => it.purge <= gcNow
        /\ UNCHANGED <<gcPc, gcSeen>>
  /\ UNCHANGED <<clock, scopes, maps, callVars, gcNow, cancelled>>

\* Range delivers an entry; purge.Before(now) decides whether to delete it.
CollectVisit(s) ==
  LET it == Stored(s) IN
  /\ gcPc = "range"
  /\ s \in gcTodo
  /\ gcTodo' = gcTodo \ {s}
  /\ \/ /\ it # None
        /\ Expired(it, gcNow)
        /\ gcPc' = "delete"
        /\ gcSeen' = [map |-> scopes[s[1]], key |-> s[2], item |-> it]
     \/ /\ it # None => ~Expired(it, gcNow)
        /\ UNCHANGED <<gcPc, gcSeen>>
  /\ UNCHANGED <<clock, scopes, maps, callVars, gcNow, cancelled>>

\* Mutated: the key is deleted, whatever it holds by now.
CollectDeleteAny ==
  /\ gcPc = "delete"
  /\ maps' = [maps EXCEPT ![gcSeen.map][gcSeen.key] = None]
  /\ gcPc' = "range"
  /\ gcSeen' = None
  /\ UNCHANGED <<clock, scopes, callVars, gcNow, gcTodo, cancelled>>

\* scoped.CompareAndDelete(key, value).
CollectDelete ==
  /\ gcPc = "delete"
  /\ maps' = [maps EXCEPT ![gcSeen.map][gcSeen.key] =
                         IF @ = gcSeen.item THEN None ELSE @]
  /\ gcPc' = "range"
  /\ gcSeen' = None
  /\ UNCHANGED <<clock, scopes, callVars, gcNow, gcTodo, cancelled>>

\* Both Ranges have returned: back to the select.
CollectEnd ==
  /\ gcPc = "range"
  /\ gcTodo = {}
  /\ gcPc' = "select"
  /\ gcNow' = 0
  /\ UNCHANGED <<clock, scopes, maps, callVars, gcTodo, gcSeen, cancelled>>

\* Mutated: the ticker is stopped, and the goroutine goes back to its select.
CollectStopTicker ==
  /\ gcPc = "select"
  /\ cancelled
  /\ UNCHANGED vars

\* case <-ctx.Done(): the ticker is stopped and the goroutine returns.
CollectStop ==
  /\ gcPc = "select"
  /\ cancelled
  /\ gcPc' = "stopped"
  /\ UNCHANGED <<clock, scopes, maps, callVars, gcNow, gcTodo, gcSeen, cancelled>>

Collect == CollectStart \/ (\E s \in gcTodo : CollectVisit(s))
             \/ CollectDelete \/ CollectEnd

-----------------------------------------------------------------------------
(* The environment *)

Tick ==
  /\ clock < MaxTime
  /\ clock' = clock + 1
  /\ UNCHANGED <<scopes, maps, callVars, gcVars, cancelled>>

\* main's shutdown() cancels the context.
Cancel ==
  /\ ~cancelled
  /\ cancelled' = TRUE
  /\ UNCHANGED <<clock, scopes, maps, callVars, gcVars>>

Next ==
  \/ \E c \in Clients : (\E r \in Requests : Invoke(c, r)) \/ Client(c)
  \/ Collect \/ CollectStop
  \/ Tick \/ Cancel

Spec == Init /\ [][Next]_vars

(***************************************************************************)
(* Time passes, the ticker keeps firing and a pass that has begun goes on. *)
(* Go's select chooses at random among the channels that are ready, so a   *)
(* closed ctx.Done() is not passed over forever: strong fairness.          *)
(***************************************************************************)
Fairness == WF_vars(Tick) /\ WF_vars(Collect) /\ SF_vars(CollectStop)

FairSpec == Spec /\ Fairness

-----------------------------------------------------------------------------
(* Properties *)

\* A call works on the map published for its namespace, never on one that lost
\* the race to be published: no item is stored where no reader will look.
ScopedIsPublished ==
  \A c \in Clients :
    frame[c].scoped # None => frame[c].scoped = scopes[req[c].ns]

\* What the collector removes has expired at that moment, even when the entry
\* was refreshed or set again after Range delivered it.
CollectsOnlyExpired ==
  [][gcPc = "delete" /\ gcPc' # "delete" =>
       \A m \in MapIds, k \in Keys :
         maps[m][k] # None /\ maps'[m][k] = None => Expired(maps[m][k], clock)]_vars

\* A Refresh only moves the purge time of the item it finds: it brings back no
\* item that was removed in the meantime, and undoes no Set.
RefreshKeepsValue ==
  [][\A c \in Clients : pc[c] = "swap" /\ pc'[c] # "swap" =>
       \A m \in MapIds, k \in Keys :
         \/ maps'[m][k] = maps[m][k]
         \/ /\ maps[m][k] # None /\ maps'[m][k] # None
            /\ maps'[m][k].value = maps[m][k].value]_vars

\* An item that has expired does not stay forever, unless the store is stopped.
ExpiredGoes ==
  \A s \in Slots :
    LET dead == Stored(s) # None /\ Expired(Stored(s), clock)
    IN  dead ~> (~dead \/ cancelled)

\* The goroutine ends once its context is cancelled, also in mid-pass.
CollectorStops == cancelled ~> gcPc = "stopped"

=============================================================================
