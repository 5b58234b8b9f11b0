--------------------------- MODULE KeyValueStore ---------------------------
(***************************************************************************)
(* What a KeyValueStore promises its callers: every operation takes effect *)
(* at one moment between its call and its return, as if the callers took   *)
(* turns.  An item's lifetime counts from some moment inside the call that *)
(* stored it, and nothing but its expiry or a caller makes an item vanish. *)
(***************************************************************************)
EXTENDS StoreCalls

VARIABLES
  clock,
  kv,        \* the item under each namespace and key
  phase,     \* of each client: "idle", "called", or "found" an item
  req,       \* the call it has under way
  since,     \* when it called
  touched,   \* has its key changed since it called?
  outcome,   \* the item it found
  reply      \* what its last call returned

vars == <<clock, kv, phase, req, since, touched, outcome, reply>>

Slots == Namespaces \X Keys

SlotOf(r) == <<r.ns, r.key>>

Init ==
  /\ clock = 0
  /\ kv = [s \in Slots |-> None]
  /\ phase = [c \in Clients |-> "idle"]
  /\ req = [c \in Clients |-> None]
  /\ since = [c \in Clients |-> 0]
  /\ touched = [c \in Clients |-> FALSE]
  /\ outcome = [c \in Clients |-> None]
  /\ reply = [c \in Clients |-> None]

\* Client c calls: what r asks for happens at some later moment.
Call(c, r) ==
  /\ phase[c] = "idle"
  /\ phase' = [phase EXCEPT ![c] = "called"]
  /\ req' = [req EXCEPT ![c] = r]
  /\ since' = [since EXCEPT ![c] = clock]
  /\ reply' = [reply EXCEPT ![c] = None]
  /\ UNCHANGED <<clock, kv, outcome>>

Respond(c, r) ==
  /\ phase' = [phase EXCEPT ![c] = "idle"]
  /\ req' = [req EXCEPT ![c] = None]
  /\ since' = [since EXCEPT ![c] = 0]
  /\ outcome' = [outcome EXCEPT ![c] = None]
  /\ reply' = [reply EXCEPT ![c] = r]

Called(c, ops) == phase[c] = "called" /\ req[c].op \in ops

Absent(c) == kv[SlotOf(req[c])] = None

Place(c, it) == kv' = [kv EXCEPT ![SlotOf(req[c])] = it]

\* A new item, stamped at some moment of the call.
PlaceStamped(c, v) ==
  \E t \in since[c] .. clock : Place(c, [purge |-> t + req[c].ttl, value |-> v])

\* A call that needs an item finds none.
Miss(c) ==
  /\ Called(c, ReadOps \cup {"Refresh"})
  /\ Absent(c)
  /\ Respond(c, "Missing")
  /\ UNCHANGED <<clock, kv>>

\* Read and ReadAndRemove get hold of the item, the latter for itself alone.
Find(c) ==
  /\ Called(c, ReadOps)
  /\ ~Absent(c)
  /\ phase' = [phase EXCEPT ![c] = "found"]
  /\ outcome' = [outcome EXCEPT ![c] = kv[SlotOf(req[c])]]
  /\ IF req[c].op = "Read" THEN UNCHANGED kv ELSE Place(c, None)
  /\ UNCHANGED <<clock, req, since, reply>>

\* They answer with its value if it is still alive by then.
Answer(c) ==
  /\ phase[c] = "found"
  /\ Respond(c, IF Expired(outcome[c], clock) THEN "ExpiredItem"
                ELSE outcome[c].value)
  /\ UNCHANGED <<clock, kv>>

Store(c) ==
  /\ Called(c, WriteOps)
  /\ \/ req[c].op = "CheckAndSet" /\ ~Absent(c)
        /\ Respond(c, "ItemAlreadyExists") /\ UNCHANGED kv
     \/ /\ req[c].op = "CheckAndSet" => Absent(c)
        /\ PlaceStamped(c, req[c].value) /\ Respond(c, "ok")
  /\ UNCHANGED clock

\* Refresh gives the item a new lifetime, or gives up because of a change.
Extend(c) ==
  /\ Called(c, {"Refresh"})
  /\ \/ /\ ~Absent(c)
        /\ PlaceStamped(c, kv[SlotOf(req[c])].value) /\ Respond(c, "ok")
     \/ touched[c] /\ Respond(c, "ItemChanged") /\ UNCHANGED kv
  /\ UNCHANGED clock

Drop(c) ==
  /\ Called(c, {"Remove"})
  /\ Place(c, None)
  /\ Respond(c, "ok")
  /\ UNCHANGED clock

\* An expired item may go at any time.
Forget(s) ==
  /\ kv[s] # None
  /\ Expired(kv[s], clock)
  /\ kv' = [kv EXCEPT ![s] = None]
  /\ UNCHANGED <<clock, phase, req, since, outcome, reply>>

Tick ==
  /\ clock < MaxTime
  /\ clock' = clock + 1
  /\ UNCHANGED <<kv, phase, req, since, outcome, reply>>

\* A call under way is touched by every change of its key.
Touch ==
  touched' = [c \in Clients |->
    /\ phase[c] = "called" /\ phase'[c] = "called"
    /\ touched[c] \/ kv'[SlotOf(req[c])] # kv[SlotOf(req[c])]]

Next ==
  /\ \/ \E c \in Clients :
          \/ \E r \in Requests : Call(c, r)
          \/ Miss(c) \/ Find(c) \/ Answer(c) \/ Store(c) \/ Extend(c) \/ Drop(c)
     \/ \E s \in Slots : Forget(s)
     \/ Tick
  /\ Touch

Spec == Init /\ [][Next]_vars
=============================================================================
