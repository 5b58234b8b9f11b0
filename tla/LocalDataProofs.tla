--------------------------- MODULE LocalDataProofs ---------------------------
(***************************************************************************)
(* Proofs about LocalData, for every set of ids, every page size and every *)
(* number of queries that fail.                                            *)
(***************************************************************************)
EXTENDS LocalData, FiniteSetTheorems, WellFoundedInduction, TLAPS

\* The table the query runs on, or will.
Source == IF view = None THEN table ELSE view

\* The page under way holds all rows of its view between the two tokens.
PageInv ==
  /\ page = {} => view = None
  /\ pc = "next" => token \in Nat /\ asked <= token
  /\ pc = "next" /\ page = {} => token = asked
  /\ page # {} => view # None
  /\ \A i \in page : asked < i /\ i <= token
  /\ view # None => \A i \in Present(view) : asked < i /\ i <= token => i \in page
  /\ pc # "next" => page = {}

\* The reader was given all rows up to its token that were always there, and
\* none beyond it.
ReaderInv ==
  /\ \A i \in got : i <= asked
  /\ \A i \in stable : i <= asked => i \in got
  /\ stable \subseteq Present(Source)
  /\ stable \subseteq Present(table)

IInv == TypeOK /\ PageInv /\ ReaderInv /\ NothingMissed

-----------------------------------------------------------------------------
(* Lemmas about the query *)

\* Ids are positive.
LEMMA PresentNat ==
  ASSUME NEW t PROVE Present(t) \subseteq Nat \ {0}
BY LocalDataAssumption DEF Present

\* The rows counted for the LIMIT are finitely many.
LEMMA BetweenFinite ==
  ASSUME NEW t, NEW k \in Nat, NEW i \in Nat
  PROVE  IsFiniteSet({j \in Present(t) : k < j /\ j <= i})
<1>1. {j \in Present(t) : k < j /\ j <= i} \subseteq 0 .. i
  BY PresentNat
<1>2. IsFiniteSet(0 .. i)
  BY FS_Interval
<1> QED BY <1>1, <1>2, FS_Subset

\* Every set of natural numbers has a least element: its initial segments are
\* finite sets, of which one is contained in all the others.
LEMMA LeastNatural ==
  ASSUME NEW S \in SUBSET Nat, S # {}
  PROVE  \E n \in S : \A m \in S : n <= m
<1> DEFINE Upto(n) == {j \in S : j <= n}
           T == {Upto(n) : n \in S}
<1>0. \A n \in S : n \in Nat
  OBVIOUS
<1>1. \A n \in S : IsFiniteSet(Upto(n))
  <2> SUFFICES ASSUME NEW n \in S PROVE IsFiniteSet(Upto(n))
    OBVIOUS
  <2>1. Upto(n) \in SUBSET Nat /\ \A j \in Upto(n) : j <= n
    BY <1>0
  <2> QED BY <1>0, <2>1, FS_BoundedSetOfNaturals
<1>2. T \subseteq FiniteSubsetsOf(Nat) /\ T # {}
  BY <1>1 DEF FiniteSubsetsOf
<1>3. PICK x \in T : \A y \in T : ~ (<<y, x>> \in StrictSubsetOrdering(Nat))
  BY <1>2, FS_StrictSubsetOrderingWellFounded, WFMin
<1>4. PICK n \in S : x = Upto(n)
  OBVIOUS
<1>5. ASSUME NEW m \in S, m < n PROVE FALSE
  <2>1. Upto(m) \subseteq Upto(n) /\ Upto(m) # Upto(n)
    <3>1. \A j \in Upto(m) : j \in Upto(n)
      BY <1>0, <1>5
    <3>2. n \in Upto(n) /\ n \notin Upto(m)
      BY <1>0, <1>5
    <3> QED BY <3>1, <3>2
  <2>2. Upto(m) \in SUBSET Nat /\ Upto(n) \in SUBSET Nat
    OBVIOUS
  <2>3. <<Upto(m), Upto(n)>> \in StrictSubsetOrdering(Nat)
    BY <2>1, <2>2 DEF StrictSubsetOrdering
  <2> QED BY <1>3, <1>4, <2>3
<1> QED BY <1>5

\* A page has no gaps: with a row it has those of lower ids.
LEMMA SelectDown ==
  ASSUME NEW t, NEW k \in Nat, NEW i \in Select(t, k),
         NEW j \in Present(t), k < j, j < i
  PROVE  j \in Select(t, k)
<1> DEFINE Upto(n) == {q \in Present(t) : k < q /\ q <= n}
<1>1. i \in Nat /\ j \in Nat
  BY PresentNat DEF Select
<1>2. IsFiniteSet(Upto(i)) /\ IsFiniteSet(Upto(j))
  BY <1>1, BetweenFinite
<1>3. Upto(j) \subseteq Upto(i)
  BY <1>1, PresentNat
<1>4. Cardinality(Upto(j)) <= Cardinality(Upto(i))
  BY <1>2, <1>3, FS_Subset
<1>5. Cardinality(Upto(i)) <= PageSize
  BY DEF Select
<1>6. Cardinality(Upto(i)) \in Nat /\ Cardinality(Upto(j)) \in Nat
  BY <1>2, FS_CardinalityType
<1>7. Cardinality(Upto(j)) <= PageSize
  BY <1>4, <1>5, <1>6, LocalDataAssumption
<1> QED BY <1>7 DEF Select

\* A page is empty only when no row is left.
LEMMA SelectEmpty ==
  ASSUME NEW t, NEW k \in Nat, Select(t, k) = {}, NEW i \in Present(t)
  PROVE  i <= k
<1> SUFFICES ASSUME k < i PROVE FALSE
  BY PresentNat
<1> DEFINE S == {j \in Present(t) : k < j}
<1>1. S \subseteq Nat /\ S # {}
  BY PresentNat
<1>2. PICK n \in S : \A m \in S : n <= m
  BY <1>1, LeastNatural
<1>3. {j \in Present(t) : k < j /\ j <= n} = {n}
  BY <1>1, <1>2
<1>4. Cardinality({j \in Present(t) : k < j /\ j <= n}) = 1
  BY <1>3, FS_Singleton
<1>5. n \in Select(t, k)
  BY <1>2, <1>4, LocalDataAssumption DEF Select
<1> QED BY <1>5

-----------------------------------------------------------------------------
(* The invariant *)

\* Before the first call nothing was read.
LEMMA InitIInv == Init => IInv
<1> SUFFICES ASSUME Init PROVE IInv
  OBVIOUS
<1>1. TypeOK
  <2>1. 0 \in Nat /\ 0 \in 0 .. MaxFaults
    BY LocalDataAssumption
  <2>2. answer \in [id : Ids \cup {None}, result : Answers]
    BY DEF Init, Answers
  <2> QED BY <2>1, <2>2 DEF Init, TypeOK, Present
<1>2. PageInv
  BY DEF Init, PageInv
<1>3. ReaderInv
  BY LocalDataAssumption DEF Init, ReaderInv, Present, Source
<1>4. NothingMissed
  BY <1>3 DEF Init, NothingMissed, ReaderInv
<1> QED BY <1>1, <1>2, <1>3, <1>4 DEF IInv

\* A call that fails leaves the reader where it was.
LEMMA FailIInv ==
  ASSUME IInv, NEW t \in Nat \cup {-1}, Fail(t), faults' \in 0 .. MaxFaults, pc # "done",
         UNCHANGED <<table, answer, stable>>
  PROVE  IInv'
BY DEF IInv, TypeOK, PageInv, ReaderInv, NothingMissed, Present, Source, Fail

\* Fetching starts with an empty page.
LEMMA ListQueryIInv ==
  ASSUME IInv, ListQuery PROVE IInv'
<1>1. CASE Fault /\ Fail(-1)
  <2>1. faults' \in 0 .. MaxFaults
    BY <1>1, LocalDataAssumption DEF Fault, IInv, TypeOK
  <2> QED BY <1>1, <2>1, FailIInv DEF ListQuery
<1>2. CASE /\ pc' = "next" /\ token' = asked
           /\ UNCHANGED <<asked, view, page, got, blind, faults>>
  BY <1>2 DEF ListQuery, IInv, TypeOK, PageInv, ReaderInv, NothingMissed, Present, Source
<1> QED BY <1>1, <1>2 DEF ListQuery

\* The next row is the one that follows the page's last.
LEMMA ListRowIInv ==
  ASSUME IInv, NEW i \in Ids, ListRow(i) PROVE IInv'
<1>1. CASE Fail(token)
  BY <1>1, FailIInv DEF ListRow, IInv, TypeOK
<1>2. CASE /\ Source[i] = "whole"
           /\ view' = Source /\ token' = i /\ page' = page \cup {i}
           /\ UNCHANGED <<pc, asked, got, blind>>
  <2> USE DEF IInv
  <2>1. i \in Select(Source, asked) /\ i \notin page
    BY DEF ListRow, First, Remaining, Source
  <2>2. i \in Present(Source) /\ asked < i /\ i \in Nat /\ asked \in Nat /\ token \in Nat
    BY <2>1, LocalDataAssumption DEF Select, TypeOK, PageInv, ListRow
  <2>3. TypeOK'
    BY <1>2, <2>2 DEF ListRow, TypeOK, Source
  <2>4. \A j \in Present(Source) : asked < j /\ j < i => j \in page
    <3> SUFFICES ASSUME NEW j \in Present(Source), asked < j, j < i PROVE j \in page
      OBVIOUS
    <3>1. j \in Select(Source, asked)
      BY <2>1, <2>2, SelectDown
    <3>2. j \in page \/ i <= j
      BY <3>1 DEF ListRow, First, Remaining, Source
    <3> QED BY <2>2, <3>2, PresentNat
  <2>5. \A j \in page : j < i
    <3> SUFFICES ASSUME NEW j \in page, i <= j PROVE FALSE
      BY <2>2, LocalDataAssumption DEF TypeOK
    <3>1. view # None /\ j <= token /\ j \in Nat
      BY LocalDataAssumption DEF PageInv, TypeOK
    <3>2. i \in Present(view) /\ i <= token
      BY <2>2, <3>1 DEF Source
    <3> QED BY <2>1, <2>2, <3>1, <3>2 DEF PageInv
  <2>6. view' # None
    BY <1>2, LocalDataAssumption DEF TypeOK, Source
  <2>7. PageInv'
    <3>1. page' # {} /\ pc' = "next"
      BY <1>2 DEF ListRow
    <3>2. \A j \in page' : asked' < j /\ j <= token'
      BY <1>2, <2>2, <2>5, LocalDataAssumption DEF PageInv, TypeOK
    <3>3. \A j \in Present(view') : asked' < j /\ j <= token' => j \in page'
      BY <1>2, <2>2, <2>4, PresentNat
    <3>4. token' \in Nat /\ asked' <= token'
      BY <1>2, <2>2
    <3> QED BY <2>6, <3>1, <3>2, <3>3, <3>4 DEF PageInv, Present
  <2>8. Source' = Source
    BY <1>2, <2>6 DEF Source
  <2>9. ReaderInv' /\ NothingMissed'
    BY <1>2, <2>8 DEF ListRow, ReaderInv, NothingMissed, Present
  <2> QED BY <2>3, <2>7, <2>9
<1> QED BY <1>1, <1>2 DEF ListRow, Source

\* A page that is returned closes the gap between its two tokens, and an empty
\* one leaves no row behind.
LEMMA ListEndIInv ==
  ASSUME IInv, ListEnd PROVE IInv'
<1> USE DEF IInv
<1>1. faults' \in 0 .. MaxFaults
  BY LocalDataAssumption DEF ListEnd, Fault, TypeOK
<1>2. blind' \in BOOLEAN
  BY DEF ListEnd, TypeOK
<1>3. token \in Nat /\ asked <= token
  BY DEF ListEnd, PageInv
<1>4. TypeOK'
  BY <1>1, <1>2, <1>3 DEF ListEnd, ReturnPage, TypeOK
<1>5. PageInv'
  BY DEF ListEnd, ReturnPage, PageInv
<1>6. \A i \in stable : i <= token => i \in got \cup page
  <2> SUFFICES ASSUME NEW i \in stable, i <= token, asked < i PROVE i \in page
    BY LocalDataAssumption DEF ReaderInv, TypeOK
  <2>1. page # {}
    BY LocalDataAssumption DEF PageInv, TypeOK, ListEnd
  <2>2. i \in Present(view)
    BY <2>1 DEF PageInv, ReaderInv, Source
  <2> QED BY <2>1, <2>2 DEF PageInv
<1>7. ReaderInv'
  <2>1. \A i \in got' : i <= asked'
    BY <1>3, LocalDataAssumption DEF ListEnd, ReturnPage, ReaderInv, PageInv, TypeOK
  <2>2. \A i \in stable' : i <= asked' => i \in got'
    BY <1>6 DEF ListEnd, ReturnPage
  <2>3. stable' \subseteq Present(table)' /\ Source' = table'
    BY DEF ListEnd, ReturnPage, ReaderInv, Present, Source
  <2> QED BY <2>1, <2>2, <2>3 DEF ReaderInv, Present
<1>8. NothingMissed'
  <2>0. \A i \in stable' : i <= asked' => i \in got'
    BY <1>7 DEF ReaderInv
  <2> SUFFICES ASSUME page = {}, ~blind', NEW i \in stable PROVE i \in got
    BY <2>0 DEF NothingMissed, ListEnd, ReturnPage
  <2>1. Remaining = {}
    BY DEF ListEnd
  <2>2. Select(Source, asked) = {}
    BY <2>1 DEF Remaining, Source
  <2>3. i \in Present(Source)
    BY DEF ReaderInv
  <2>4. i <= asked
    BY <2>2, <2>3, SelectEmpty DEF TypeOK
  <2> QED BY <2>4 DEF ReaderInv
<1> QED BY <1>4, <1>5, <1>7, <1>8

\* A write takes the id of a deleted row off the stable ones.
LEMMA WriteIInv ==
  ASSUME IInv, NEW i \in Ids, NEW r \in Rows \cup {None}, Write(i, r)
  PROVE  IInv'
<1> USE DEF IInv
<1>1. table' = [table EXCEPT ![i] = r] /\ UNCHANGED <<listVars, faults, got, blind, answer>>
  BY DEF Write
<1>2. stable' \subseteq stable /\ (r = None => i \notin stable')
  BY DEF Write
<1>3. TypeOK'
  BY <1>1, <1>2 DEF TypeOK, listVars
<1>4. PageInv'
  BY <1>1 DEF PageInv, listVars, Present
<1>5. stable' \subseteq Present(table)'
  BY <1>1, <1>2 DEF ReaderInv, Present, TypeOK
<1>6. stable' \subseteq Present(Source)'
  BY <1>1, <1>2, <1>5 DEF ReaderInv, Present, Source, listVars
<1>7. ReaderInv'
  BY <1>1, <1>2, <1>5, <1>6 DEF ReaderInv, Present, listVars
<1>8. NothingMissed'
  BY <1>1, <1>2 DEF NothingMissed, listVars
<1> QED BY <1>3, <1>4, <1>7, <1>8

\* ByID disturbs neither the table nor the reader.
LEMMA ByIDIInv ==
  ASSUME IInv, NEW i \in Ids, ByID(i) PROVE IInv'
<1>1. UNCHANGED <<table, listVars, got, stable, blind>>
  BY DEF ByID
<1>2. faults' \in 0 .. MaxFaults
  BY LocalDataAssumption DEF ByID, Fault, IInv, TypeOK
<1>3. answer' \in [id : Ids \cup {None}, result : Answers]
  BY DEF ByID, Answers
<1> QED BY <1>1, <1>2, <1>3
        DEF IInv, TypeOK, PageInv, ReaderInv, NothingMissed, Present, Source, listVars

\* No step disturbs the invariant.
LEMMA NextIInv == IInv /\ [Next]_vars => IInv'
<1> SUFFICES ASSUME IInv, [Next]_vars PROVE IInv'
  OBVIOUS
<1>1. CASE List
  BY <1>1, ListQueryIInv, ListRowIInv, ListEndIInv DEF List
<1>2. CASE \E i \in Ids : ByID(i) \/ \E r \in Rows \cup {None} : Write(i, r)
  BY <1>2, ByIDIInv, WriteIInv
<1>3. CASE UNCHANGED vars
  BY <1>3 DEF vars, listVars, IInv, TypeOK, PageInv, ReaderInv, NothingMissed,
             Present, Source
<1> QED BY <1>1, <1>2, <1>3 DEF Next

\* The invariant holds in every state.
THEOREM InvariantHolds == Spec => []IInv
BY InitIInv, NextIInv, PTL DEF Spec

\* The variables keep their types: the reader never asks with a negative token,
\* though List (player.go:102) returns one.
THEOREM TypeCorrect == Spec => []TypeOK
<1>1. IInv => TypeOK
  BY DEF IInv
<1> QED BY <1>1, InvariantHolds, PTL

\* Keyset pagination (WHERE id > ? ORDER BY id LIMIT ?) gives the reader every
\* row that is there all the time, for any table and page size and any writes.
THEOREM ReaderMissesNothing == Spec => []NothingMissed
<1>1. IInv => NothingMissed
  BY DEF IInv
<1> QED BY <1>1, InvariantHolds, PTL

\* It gives no id twice.
THEOREM ReaderSeesNoRowTwice == Spec => []NoRowTwice
<1>1. IInv => NoRowTwice
  BY LocalDataAssumption DEF IInv, PageInv, ReaderInv, TypeOK, NoRowTwice
<1> QED BY <1>1, InvariantHolds, PTL
=============================================================================
