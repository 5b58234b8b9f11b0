------------------------- MODULE MemStoreRefinement -------------------------
(***************************************************************************)
(* The in-memory store implements the KeyValueStore interface.  Two        *)
(* history variables, which no step of the store reads, say what the       *)
(* refinement mapping cannot recover from its state.                       *)
(***************************************************************************)
EXTENDS MemStore

VARIABLES
  since,     \* when each call under way was made
  touched    \* has its key changed since?

hvars == <<vars, since, touched>>

AbstractPhase(p) ==
  CASE p = "idle" -> "idle" [] p = "expiry" -> "found" [] OTHER -> "called"

\* The interface does not tell a missing namespace from a missing key.
AbstractReply(r) ==
  IF r \in {"InvalidNamespace", "InvalidKey"} THEN "Missing" ELSE r

Contents == [s \in Slots |-> Stored(s)]
Phases   == [c \in Clients |-> AbstractPhase(pc[c])]
Outcomes == [c \in Clients |-> IF pc[c] = "expiry" THEN frame[c].item ELSE None]
Answers  == [c \in Clients |-> AbstractReply(reply[c])]

KV == INSTANCE KeyValueStore WITH
  kv <- Contents, phase <- Phases, outcome <- Outcomes, reply <- Answers

HInit ==
  /\ Init
  /\ since = [c \in Clients |-> 0]
  /\ touched = [c \in Clients |-> FALSE]

\* The times of call are bookkeeping on top of a step, and so is KV!Touch.
KeepTime ==
  since' = [c \in Clients |->
    CASE pc[c] = "idle" /\ pc'[c] # "idle" -> clock
      [] pc'[c] = "idle" -> 0
      [] OTHER -> since[c]]

HNext == Next /\ KeepTime /\ KV!Touch

HSpec == HInit /\ [][HNext]_hvars

\* Every operation of the in-memory store is atomic as the interface promises:
\* whatever the interleaving of its sync.Map calls with those of other callers
\* and with the collector, its effect is one step of the abstract store.
ImplementsKeyValueStore == KV!Spec
=============================================================================
