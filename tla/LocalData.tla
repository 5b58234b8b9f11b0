------------------------------ MODULE LocalData ------------------------------
(***************************************************************************)
(* A table of the local data store (internal/data/local), read page by     *)
(* page with List and row by row with ByID while other connections write   *)
(* to it.  Players, staff and facilities share this code; a facility has   *)
(* no column that may be NULL.                                             *)
(*                                                                         *)
(* SQLite runs a query on the table as it is when the first row is asked   *)
(* for.  The reader is not in the repository.  It starts with token 0, as  *)
(* the sketch in cmd/main.go does, hands on the token of every page, and   *)
(* takes an empty page for the end; of a call that fails it keeps nothing, *)
(* not even the token that comes with the error, and makes it again.       *)
(***************************************************************************)
EXTENDS Integers, FiniteSets

CONSTANTS
  Ids,         \* primary keys
  PageSize,    \* the LIMIT of the List queries
  MaxFaults,   \* bound: queries the database fails
  None

Rows == {"whole", "null"}    \* "null": some column that is scanned is NULL

ASSUME LocalDataAssumption ==
  /\ Ids \subseteq Nat \ {0}
  /\ PageSize \in Nat \ {0}
  /\ MaxFaults \in Nat
  /\ None \notin Rows
  /\ None \notin [Ids -> Rows \cup {None}]

VARIABLES
  table,     \* the row under each id, or None
  pc,        \* of the reader: "list", "next" row of the page, "done"
  asked,     \* the token it called List with
  view,      \* the table the query runs on, None before its first row
  token,     \* the variable List returns as the next token, or -1
  page,      \* ids of the rows it has collected
  answer,    \* the last result of ByID
  faults,    \* history: queries that failed
  got,       \* history: ids of the rows the reader was given
  stable,    \* history: ids that had a row all the time
  blind      \* history: did a page end early before its first row?

listVars == <<pc, asked, view, token, page>>
vars == <<table, listVars, answer, faults, got, stable, blind>>

Answers == {"none", "row", "ErrNoRows", "ErrorUnknownID"}

TypeOK ==
  /\ table \in [Ids -> Rows \cup {None}]
  /\ pc \in {"list", "next", "done"}
  /\ asked \in Nat
  /\ view \in [Ids -> Rows \cup {None}] \cup {None}
  /\ token \in Nat \cup {-1}
  /\ page \subseteq Ids
  /\ answer \in [id : Ids \cup {None}, result : Answers]
  /\ faults \in 0 .. MaxFaults
  /\ got \subseteq Ids
  /\ stable \subseteq Ids
  /\ blind \in BOOLEAN

Present(t) == {i \in Ids : t[i] # None}

Init ==
  /\ table \in [Ids -> Rows \cup {None}]
  /\ pc = "list" /\ asked = 0
  /\ view = None /\ token = 0 /\ page = {}
  /\ answer = [id |-> None, result |-> "none"]
  /\ faults = 0
  /\ got = {} /\ stable = Present(table) /\ blind = FALSE

-----------------------------------------------------------------------------
(* Helpers *)

\* Mutated: the row of the token is on the next page again.
SelectFromToken(t, k) ==
  {i \in Present(t) :
    i >= k /\ Cardinality({j \in Present(t) : k <= j /\ j <= i}) <= PageSize}

\* Mutated: in the order of descending ids.
SelectDescending(t, k) ==
  {i \in Present(t) :
    k < i /\ Cardinality({j \in Present(t) : i <= j}) <= PageSize}

\* SELECT ... WHERE id > k ORDER BY id ASC LIMIT PageSize
Select(t, k) ==
  {i \in Present(t) :
    k < i /\ Cardinality({j \in Present(t) : k < j /\ j <= i}) <= PageSize}

\* The rows Next has still to deliver.
Remaining == Select(IF view = None THEN table ELSE view, asked) \ page

First(i) == i \in Remaining /\ \A j \in Remaining : i <= j

Fault == faults < MaxFaults /\ faults' = faults + 1

\* Mutated: the reader goes on with the token that came with the error.
FailHanded(t) ==
  /\ pc' = "list"
  /\ view' = None /\ token' = t /\ page' = {}
  /\ asked' = t
  /\ UNCHANGED <<got, blind>>

\* The call returns an error and token t; the reader asks again as before.
Fail(t) ==
  /\ pc' = "list"
  /\ view' = None /\ token' = t /\ page' = {}
  /\ UNCHANGED <<asked, got, blind>>

\* The call returns a page and its token.
ReturnPage ==
  /\ pc' = IF page = {} THEN "done" ELSE "list"
  /\ asked' = token
  /\ view' = None /\ page' = {}
  /\ got' = got \cup page
  /\ UNCHANGED token

-----------------------------------------------------------------------------
(* List *)

\* fetchList.Query(token), which may fail: List returns -1 then.
ListQuery ==
  /\ pc = "list"
  /\ \/ /\ pc' = "next" /\ token' = asked
        /\ UNCHANGED <<asked, view, page, got, blind, faults>>
     \/ Fault /\ Fail(-1)
  /\ UNCHANGED <<table, answer, stable>>

\* Mutated: the token is not moved on.
ListRowNoToken(i) ==
  /\ pc = "next"
  /\ First(i)
  /\ LET t == IF view = None THEN table ELSE view IN
     \/ t[i] = "null" /\ Fail(token)
     \/ /\ t[i] = "whole"
        /\ view' = t /\ page' = page \cup {i}
        /\ UNCHANGED <<pc, asked, token, got, blind>>
  /\ UNCHANGED <<table, answer, faults, stable>>

\* rows.Next() delivers the next row, and rows.Scan() takes it, which fails on
\* a NULL: List returns the id of the row before, and leaves the result set open.
ListRow(i) ==
  /\ pc = "next"
  /\ First(i)
  /\ LET t == IF view = None THEN table ELSE view IN
     \/ t[i] = "null" /\ Fail(token)
     \/ /\ t[i] = "whole"
        /\ view' = t /\ token' = i /\ page' = page \cup {i}
        /\ UNCHANGED <<pc, asked, got, blind>>
  /\ UNCHANGED <<table, answer, faults, stable>>

\* rows.Next() is false: after the last row, or because the query failed, which
\* List does not ask.
ListEnd ==
  /\ pc = "next"
  /\ \/ Remaining = {} /\ UNCHANGED <<faults, blind>>
     \/ Remaining # {} /\ Fault /\ blind' = (blind \/ page = {})
  /\ ReturnPage
  /\ UNCHANGED <<table, answer, stable>>

List == ListQuery \/ (\E i \in Ids : ListRow(i)) \/ ListEnd

-----------------------------------------------------------------------------

\* ByID: no row is sql.ErrNoRows; every other error, of the query or of a NULL,
\* becomes the unknown-id error.
ByID(i) ==
  /\ \/ /\ table[i] = "whole"
        /\ answer' = [id |-> i, result |-> "row"] /\ UNCHANGED faults
     \/ /\ table[i] = None
        /\ answer' = [id |-> i, result |-> "ErrNoRows"] /\ UNCHANGED faults
     \/ /\ IF table[i] = "null" THEN UNCHANGED faults ELSE Fault
        /\ answer' = [id |-> i, result |-> "ErrorUnknownID"]
  /\ UNCHANGED <<table, listVars, got, stable, blind>>

\* Another connection inserts, changes or deletes a row.
Write(i, r) ==
  /\ table[i] # r
  /\ table' = [table EXCEPT ![i] = r]
  /\ stable' = IF r = None THEN stable \ {i} ELSE stable
  /\ UNCHANGED <<listVars, answer, faults, got, blind>>

Next ==
  \/ List
  \/ \E i \in Ids : ByID(i) \/ \E r \in Rows \cup {None} : Write(i, r)

Spec == Init /\ [][Next]_vars

\* The reader goes on; writers and callers of ByID may stop.
FairSpec == Spec /\ WF_vars(List)

-----------------------------------------------------------------------------
(* Properties *)

\* When the reader comes to the end, it was given every row that was there all
\* the time, whatever was inserted, changed or deleted meanwhile and whichever
\* queries failed - unless one failed before its first row: List then returns
\* an empty page and no error, as it does at the end.  And its token never
\* passes such a row that it was not given, least of all one that cannot be
\* scanned.
NothingMissed ==
  /\ \A i \in stable : i <= asked => i \in got
  /\ pc = "done" /\ ~blind => stable \subseteq got

\* No id is given to the reader twice, even when its row was deleted and the id
\* used for a new one.
NoRowTwice == page \cap got = {}

\* However many rows are written before and behind it, a row that stays comes to
\* the reader, unless rows that cannot be scanned keep turning up, or a query
\* that fails before its first row makes it stop.  (That there is an end to come
\* to is not said: a writer that adds a row for every page keeps it away.)
StableRowArrives ==
  \A i \in Ids :
    <>[](i \in stable /\ \A j \in Ids : table[j] # "null") => <>(i \in got \/ blind)

\* "unknown player id" (errors.go:32) is said only of ids without a row.
UnknownIdHasNoRow ==
  [][\A i \in Ids :
       answer' # answer /\ answer' = [id |-> i, result |-> "ErrorUnknownID"] =>
         table[i] = None]_vars
=============================================================================
