----------------------------- MODULE StoreCalls -----------------------------
(***************************************************************************)
(* What a caller of the key/value store passes and gets back               *)
(* (internal/services/data-store.go), shared by the abstract store and the *)
(* in-memory one.                                                          *)
(***************************************************************************)
EXTENDS Naturals

CONSTANTS
  Clients,      \* goroutines that call the store
  Namespaces,   \* first argument of every operation
  Keys,
  Values,       \* stored values; they are comparable with ==
  TTLs,         \* lifetimes a caller may ask for, in ticks
  MaxTime,      \* bound: the clock stops here
  None          \* nil: no item, no map, no call, no reply yet

Items == [purge : Nat, value : Values]

ReadOps  == {"Read", "ReadAndRemove"}
WriteOps == {"CheckAndSet", "Set"}

Requests ==
  [op : ReadOps \cup {"Remove"}, ns : Namespaces, key : Keys]
    \cup [op : {"Refresh"}, ns : Namespaces, key : Keys, ttl : TTLs]
    \cup [op : WriteOps, ns : Namespaces, key : Keys, value : Values, ttl : TTLs]

\* purge.Before(now): an item is alive up to and including its purge time.
Expired(it, now) == it.purge < now

ASSUME StoreAssumption ==
  /\ TTLs \subseteq Nat
  /\ MaxTime \in Nat
  /\ None \notin Items \cup Requests
=============================================================================
