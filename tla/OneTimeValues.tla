--------------------------- MODULE OneTimeValues ---------------------------
(***************************************************************************)
(* The store used for values that are to be redeemed once, as the          *)
(* authorization codes and QR secrets of cmd/authorizer.go are: every      *)
(* value is written by one call only, and history variables record which   *)
(* values were written and which a ReadAndRemove has handed out.           *)
(***************************************************************************)
EXTENDS MemStore

VARIABLES
  written,   \* values some call was asked to store
  taken      \* values some ReadAndRemove has returned

ovars == <<vars, written, taken>>

OInit == Init /\ written = {} /\ taken = {}

\* The value client c's ReadAndRemove returns in this step, if it does.
TakenBy(c) ==
  IF pc[c] = "expiry" /\ req[c].op = "ReadAndRemove" /\ pc'[c] = "idle"
  THEN {reply'[c]} \cap Values ELSE {}

WrittenBy(c) ==
  IF pc[c] = "idle" /\ pc'[c] = "scope" /\ req'[c].op \in WriteOps
  THEN {req'[c].value} ELSE {}

ONext ==
  /\ Next
  /\ \A c \in Clients : WrittenBy(c) \cap written = {}
  /\ written' = written \cup UNION {WrittenBy(c) : c \in Clients}
  /\ taken' = taken \cup UNION {TakenBy(c) : c \in Clients}

OSpec == OInit /\ [][ONext]_ovars

\* A value that was stored once is handed out by ReadAndRemove at most once,
\* whatever Refresh, Set, Remove and the collector do to its key meanwhile.
RedeemedOnce ==
  [][\A c \in Clients : TakenBy(c) \cap taken = {}]_ovars

\* A value that was handed out is gone: no map holds it and no call is left
\* that could put it back.
TakenIsGone ==
  \A m \in MapIds, k \in Keys :
    maps[m][k] # None => maps[m][k].value \notin taken
=============================================================================
