---------------------------- MODULE FdPassProofs ----------------------------
(***************************************************************************)
(* Proofs about what user-space schemes are reached by and what is sent to *)
(* them.  FdPass: a description that travels with a call is not closed     *)
(* while anybody refers to it, for any callers, descriptions and size of   *)
(* the file tables.  Schemes (instance Names): an open file reaches the    *)
(* scheme it was opened at.                                                *)
(*                                                                         *)
(* Arc::strong_count is a sum of two cardinalities.  The proofs replace it *)
(* by the sets of places that are counted, and compare those.              *)
(***************************************************************************)
EXTENDS FdPass, FiniteSetTheorems, TLAPS

\* The requests.
FdRequests ==
    [st : {"Free", "Waiting", "Responded"}, call : Calls \cup {None}, fds : Seq(Descs), exclusive : BOOLEAN,
     response : {"None", "Regular", "Fd", "MultipleFds"}]

\* The file tables.
FileTables == [Slots -> Descs \cup {None}]

\* The types of the state; a request carries no more than a table has slots.
FdTypes ==
    /\ table \in [Contexts -> FileTables] /\ state \in [Callers -> FdRequests]
    /\ \A c \in Callers : Len(state[c].fds) <= Cardinality(Slots)
    /\ closed \subseteq Descs

\* A file table has d.
FdInTable(d) == \E c \in Contexts : \E i \in Slots : table[c][i] = d
\* A request or an undelivered answer has d.
FdInCall(d) == \E c \in Callers : \E k \in DOMAIN state[c].fds : state[c].fds[k] = d

\* The inductive invariant: what has been closed is nowhere.
FdInv == FdTypes /\ \A d \in closed : ~FdInTable(d) /\ ~FdInCall(d)

\* The references of file tables to d.
TablePlaces(d) == {cs \in Contexts \X Slots : table[cs[1]][cs[2]] = d}
\* The references of requests to d.
CallPlaces(d) == {ci \in Callers \X (1 .. Cardinality(Slots)) : ci[2] <= Len(state[ci[1]].fds) /\ state[ci[1]].fds[ci[2]] = d}

\* Arc::strong_count is the number of the two kinds of places, which are finitely many.
LEMMA StrongCounts ==
    ASSUME FdPassAssumption, NEW d
    PROVE  /\ IsFiniteSet(TablePlaces(d)) /\ IsFiniteSet(CallPlaces(d))
           /\ Cardinality(TablePlaces(d)) \in Nat /\ Cardinality(CallPlaces(d)) \in Nat
           /\ Strong(d) = Cardinality(TablePlaces(d)) + Cardinality(CallPlaces(d))
<1>1. IsFiniteSet(Contexts \X Slots)
  <2>1. IsFiniteSet(Callers \cup {Handler})
    BY FS_AddElement, Zenon DEF FdPassAssumption
  <2> QED
    BY <2>1, FS_Product, Zenon DEF FdPassAssumption, Contexts
<1>2. IsFiniteSet(Callers \X (1 .. Cardinality(Slots)))
  <2>1. Cardinality(Slots) \in Nat
    BY FS_CardinalityType, Zenon DEF FdPassAssumption
  <2>2. IsFiniteSet(1 .. Cardinality(Slots))
    BY <2>1, FS_Interval
  <2> QED
    BY <2>2, FS_Product, Zenon DEF FdPassAssumption
<1>3. IsFiniteSet(TablePlaces(d))
  <2>1. TablePlaces(d) \in SUBSET (Contexts \X Slots)
    BY Zenon DEF TablePlaces
  <2> QED
    BY <1>1, <2>1, FS_Subset, Zenon
<1>4. IsFiniteSet(CallPlaces(d))
  <2>1. CallPlaces(d) \in SUBSET (Callers \X (1 .. Cardinality(Slots)))
    BY Zenon DEF CallPlaces
  <2> QED
    BY <1>2, <2>1, FS_Subset, Zenon
<1>5. Strong(d) = Cardinality(TablePlaces(d)) + Cardinality(CallPlaces(d))
  BY Zenon DEF Strong, Count, TablePlaces, CallPlaces
<1> QED
  BY <1>3, <1>4, <1>5, FS_CardinalityType, Zenon

\* The places of a description are those where it is found.
LEMMA PlacesHaveIt ==
    ASSUME FdPassAssumption, FdTypes, NEW d
    PROVE  /\ TablePlaces(d) = {} <=> ~FdInTable(d)
           /\ CallPlaces(d) = {} <=> ~FdInCall(d)
           /\ \A c \in Callers : \A k \in DOMAIN state[c].fds : state[c].fds[k] = d => <<c,
              k>> \in CallPlaces(d)
<1>1. TablePlaces(d) = {} <=> ~FdInTable(d)
  <2>1. \A c \in Contexts : \A i \in Slots : table[c][i] = d => <<c, i>> \in TablePlaces(d)
    BY DEF TablePlaces
  <2>2. \A x \in TablePlaces(d) : x[1] \in Contexts /\ x[2] \in Slots /\ table[x[1]][x[2]] = d
    BY DEF TablePlaces
  <2> QED
    BY <2>1, <2>2, Zenon DEF FdInTable
<1>2. ASSUME NEW c \in Callers PROVE state[c].fds \in Seq(Descs) /\ Len(state[c].fds) <= Cardinality(Slots)
  BY DEF FdTypes, FdRequests
<1>3. \A c \in Callers : \A k \in DOMAIN state[c].fds : state[c].fds[k] = d => <<c, k>> \in CallPlaces(d)
  <2> SUFFICES ASSUME NEW c \in Callers, NEW k \in DOMAIN state[c].fds, state[c].fds[k] = d
               PROVE  <<c, k>> \in CallPlaces(d)
    BY Zenon
  <2>1. Cardinality(Slots) \in Nat
    BY FS_CardinalityType, Zenon DEF FdPassAssumption
  <2>2. k \in 1 .. Cardinality(Slots) /\ k <= Len(state[c].fds)
    BY <1>2, <2>1
  <2> QED
    BY <2>2 DEF CallPlaces
<1>4. \A x \in CallPlaces(d) : x[1] \in Callers /\ x[2] \in DOMAIN state[x[1]].fds /\ state[x[1]].fds[x[2]] = d
  BY <1>2 DEF CallPlaces
<1> QED
  BY <1>1, <1>3, <1>4, Zenon DEF FdInCall

\* What is nowhere has no reference.
LEMMA StrongZero == ASSUME FdPassAssumption, FdTypes, NEW d, ~FdInTable(d), ~FdInCall(d) PROVE Strong(d) = 0
<1>1. TablePlaces(d) = {} /\ CallPlaces(d) = {}
  BY PlacesHaveIt, Zenon
<1>2. Cardinality(TablePlaces(d)) = 0 /\ Cardinality(CallPlaces(d)) = 0
  BY <1>1, FS_EmptySet, Zenon
<1> QED
  BY <1>2, StrongCounts

\* Where close() sees a count of one, the slot it cleared was the only place.
LEMMA SoleSlot ==
    ASSUME FdPassAssumption, FdTypes, NEW c \in Contexts, NEW i \in Slots, NEW d, table[c][i] = d,
           Strong(d) = 1
    PROVE  ~FdInCall(d) /\ \A e \in Contexts : \A j \in Slots : table[e][j] = d => e = c /\ j = i
<1>1. {<<c, i>>} \in SUBSET TablePlaces(d)
  BY DEF TablePlaces
<1>2. Cardinality({<<c, i>>}) = 1
  BY FS_Singleton, Zenon
<1>3. 1 <= Cardinality(TablePlaces(d)) /\ (Cardinality(TablePlaces(d)) = 1 => TablePlaces(d) = {<<c, i>>})
  BY <1>1, <1>2, FS_Subset, StrongCounts, Zenon
<1>4. Cardinality(TablePlaces(d)) = 1 /\ Cardinality(CallPlaces(d)) = 0
  BY <1>3, StrongCounts
<1>5. CallPlaces(d) = {}
  BY <1>4, FS_EmptySet, StrongCounts, Zenon
<1>6. ASSUME NEW e \in Contexts, NEW j \in Slots, table[e][j] = d PROVE e = c /\ j = i
  <2>1. <<e, j>> \in TablePlaces(d)
    BY <1>6 DEF TablePlaces
  <2> QED
    BY <1>3, <1>4, <2>1
<1> QED
  BY <1>5, <1>6, PlacesHaveIt, Zenon

\* Where to_close counts as many references as the request has, nobody else has one.
LEMMA SoleCall ==
    ASSUME FdPassAssumption, FdTypes, NEW c \in Callers, NEW d,
           Strong(d) = Cardinality({k \in DOMAIN state[c].fds : state[c].fds[k] = d})
    PROVE  ~FdInTable(d) /\ \A e \in Callers : \A k \in DOMAIN state[e].fds : state[e].fds[k] = d => e = c
<1> DEFINE S == {k \in DOMAIN state[c].fds : state[c].fds[k] = d}
           f == [k \in S |-> <<c, k>>]
<1>1. f \in Injection(S, CallPlaces(d))
  <2>1. \A k \in S : f[k] = <<c, k>> /\ f[k] \in CallPlaces(d)
    BY PlacesHaveIt, Zenon
  <2>2. f \in [S -> CallPlaces(d)]
    BY <2>1, Zenon
  <2>3. \A k, l \in S : f[k] = f[l] => k = l
    BY <2>1
  <2> QED
    BY <2>2, <2>3, Zenon DEF Injection, IsInjective
<1> HIDE DEF f
<1>2. /\ IsFiniteSet(S) /\ Cardinality(S) <= Cardinality(CallPlaces(d))
      /\ Cardinality(S) = Cardinality(CallPlaces(d)) <=> f \in Surjection(S, CallPlaces(d))
  BY <1>1, FS_Injection, StrongCounts, Zenon
<1>3. Cardinality(S) \in Nat
  BY <1>2, FS_CardinalityType, Zenon
<1>4. Cardinality(TablePlaces(d)) = 0 /\ Cardinality(S) = Cardinality(CallPlaces(d))
  BY <1>2, <1>3, StrongCounts
<1>5. TablePlaces(d) = {}
  BY <1>4, FS_EmptySet, StrongCounts, Zenon
<1>6. ASSUME NEW e \in Callers, NEW k \in DOMAIN state[e].fds, state[e].fds[k] = d PROVE e = c
  <2>1. <<e, k>> \in CallPlaces(d)
    BY <1>6, PlacesHaveIt, Zenon
  <2>2. PICK l \in S : f[l] = <<e, k>>
    BY <1>2, <1>4, <2>1, Zenon DEF Surjection
  <2> QED
    BY <2>2 DEF f
<1> QED
  BY <1>5, <1>6, PlacesHaveIt, Zenon

\* Where an exiting context has all the references, nobody else has one.
LEMMA SoleTable ==
    ASSUME FdPassAssumption, FdTypes, NEW c \in Contexts, NEW d,
           Strong(d) = Cardinality({i \in Slots : table[c][i] = d})
    PROVE  ~FdInCall(d) /\ \A e \in Contexts : \A j \in Slots : table[e][j] = d => e = c
<1> DEFINE S == {i \in Slots : table[c][i] = d}
           f == [i \in S |-> <<c, i>>]
<1>1. f \in Injection(S, TablePlaces(d))
  <2>1. \A k \in S : f[k] = <<c, k>> /\ f[k] \in TablePlaces(d)
    BY DEF TablePlaces
  <2>2. f \in [S -> TablePlaces(d)]
    BY <2>1, Zenon
  <2>3. \A k, l \in S : f[k] = f[l] => k = l
    BY <2>1
  <2> QED
    BY <2>2, <2>3, Zenon DEF Injection, IsInjective
<1> HIDE DEF f
<1>2. /\ IsFiniteSet(S) /\ Cardinality(S) <= Cardinality(TablePlaces(d))
      /\ Cardinality(S) = Cardinality(TablePlaces(d)) <=> f \in Surjection(S, TablePlaces(d))
  BY <1>1, FS_Injection, StrongCounts, Zenon
<1>3. Cardinality(S) \in Nat
  BY <1>2, FS_CardinalityType, Zenon
<1>4. Cardinality(CallPlaces(d)) = 0 /\ Cardinality(S) = Cardinality(TablePlaces(d))
  BY <1>2, <1>3, StrongCounts
<1>5. CallPlaces(d) = {}
  BY <1>4, FS_EmptySet, StrongCounts, Zenon
<1>6. ASSUME NEW e \in Contexts, NEW j \in Slots, table[e][j] = d PROVE e = c
  <2>1. <<e, j>> \in TablePlaces(d)
    BY <1>6 DEF TablePlaces
  <2>2. PICK l \in S : f[l] = <<e, j>>
    BY <1>2, <1>4, <2>1, Zenon DEF Surjection
  <2> QED
    BY <2>2 DEF f
<1> QED
  BY <1>5, <1>6, PlacesHaveIt, Zenon

\* Somebody has d.
FdKnown(d) == FdInTable(d) \/ FdInCall(d)

\* A step that brings no reference to what had none, and closes only what has none afterwards,
\* preserves FdInv.
LEMMA FdPlacesStep ==
    ASSUME FdInv, FdTypes', \A d \in Descs : FdInTable(d)' \/ FdInCall(d)' => FdKnown(d),
           \A d \in closed' : d \in closed \/ (~FdInTable(d)' /\ ~FdInCall(d)')
    PROVE  FdInv'
BY Zenon DEF FdInv, FdTypes, FdKnown

\* A table that is filled with what somebody has.
LEMMA FdTableStep ==
    ASSUME FdTypes, NEW c \in Contexts, NEW t \in FileTables, table' = [table EXCEPT ![c] = t],
           \A i \in Slots : t[i] # None => FdKnown(t[i])
    PROVE  table' \in [Contexts -> FileTables] /\ \A d \in Descs : d # None /\ FdInTable(d)' => FdKnown(d)
<1>1. table' \in [Contexts -> FileTables]
  BY Zenon DEF FdTypes
<1>2. ASSUME NEW d \in Descs, d # None, FdInTable(d)' PROVE FdKnown(d)
  <2>1. PICK e \in Contexts : \E i \in Slots : table'[e][i] = d
    BY <1>2, Zenon DEF FdInTable
  <2>2. PICK i \in Slots : table'[e][i] = d
    BY <2>1, Zenon
  <2>3. CASE e = c
    <3>1. t[i] = d
      BY <2>2, <2>3, Zenon DEF FdTypes
    <3> QED
      BY <3>1, <1>2, Zenon
  <2>4. CASE e # c
    <3>1. table[e][i] = d
      BY <2>2, <2>4, Zenon DEF FdTypes
    <3> QED
      BY <3>1, Zenon DEF FdKnown, FdInTable
  <2> QED
    BY <2>3, <2>4, Zenon
<1> QED
  BY <1>1, <1>2, Zenon

\* A request that is filled with what somebody has.
LEMMA FdStateStep ==
    ASSUME FdTypes, NEW c \in Callers, NEW r \in FdRequests, state' = [state EXCEPT ![c] = r],
           Len(r.fds) <= Cardinality(Slots), \A k \in DOMAIN r.fds : FdKnown(r.fds[k])
    PROVE  /\ state' \in [Callers -> FdRequests]
           /\ \A e \in Callers : Len(state'[e].fds) <= Cardinality(Slots)
           /\ \A d \in Descs : FdInCall(d)' => FdKnown(d)
           /\ \A e \in Callers \ {c} : state'[e] = state[e]
           /\ state'[c] = r
<1>1. state' \in [Callers -> FdRequests]
  BY Zenon DEF FdTypes
<1>2. ASSUME NEW e \in Callers PROVE (e = c => state'[e] = r) /\ (e # c => state'[e] = state[e])
  BY Zenon DEF FdTypes
<1>3. ASSUME NEW d \in Descs, FdInCall(d)' PROVE FdKnown(d)
  <2>1. PICK e \in Callers : \E k \in DOMAIN state'[e].fds : state'[e].fds[k] = d
    BY <1>3, Zenon DEF FdInCall
  <2>2. PICK k \in DOMAIN state'[e].fds : state'[e].fds[k] = d
    BY <2>1, Zenon
  <2>3. CASE e = c
    <3>1. state'[e] = r
      BY <1>2, <2>3, Zenon
    <3>2. k \in DOMAIN r.fds /\ r.fds[k] = d
      BY <2>2, <3>1, Zenon
    <3> QED
      BY <3>2, Zenon
  <2>4. CASE e # c
    <3>1. state'[e] = state[e]
      BY <1>2, <2>4, Zenon
    <3>2. k \in DOMAIN state[e].fds /\ state[e].fds[k] = d
      BY <2>2, <3>1, Zenon
    <3> QED
      BY <3>2, Zenon DEF FdKnown, FdInCall
  <2> QED
    BY <2>3, <2>4, Zenon
<1> QED
  BY <1>1, <1>2, <1>3, Zenon DEF FdTypes

\* bulk_get_files returns what is in the table, no more than it has slots.
LEMMA FilesKnown ==
    ASSUME FdPassAssumption, FdTypes, NEW c \in Contexts, NEW list \in Lists,
           \A i \in Range(list) : table[c][i] # None
    PROVE  /\ Files(table[c], list) \in Seq(Descs)
           /\ Len(Files(table[c], list)) <= Cardinality(Slots)
           /\ \A k \in DOMAIN Files(table[c], list) : FdKnown(Files(table[c], list)[k])
<1>1. PICK n \in 1 .. Cardinality(Slots) : list \in [1 .. n -> Slots]
  BY Zenon DEF Lists
<1>2. Cardinality(Slots) \in Nat
  BY FS_CardinalityType, Zenon DEF FdPassAssumption
<1>3. n \in Nat /\ n <= Cardinality(Slots)
  BY <1>1, <1>2
<1> DEFINE F == Files(table[c], list)
<1>4. ASSUME NEW k \in 1 .. n PROVE F[k] = table[c][list[k]] /\ F[k] \in Descs /\ FdKnown(F[k])
  <2>1. F[k] = table[c][list[k]] /\ list[k] \in Slots
    BY <1>1, <1>4, Zenon DEF Files
  <2>2. F[k] # None
    BY <1>1, <1>4, <2>1, Zenon DEF Range
  <2>3. F[k] \in Descs \cup {None}
    BY <2>1, Zenon DEF FdTypes, FileTables
  <2> QED
    BY <2>1, <2>2, <2>3, Zenon DEF FdKnown, FdInTable
<1>5. DOMAIN F = 1 .. n
  BY <1>1, Zenon DEF Files
<1>6. F = [k \in 1 .. n |-> F[k]]
  BY <1>1, Zenon DEF Files
<1> HIDE DEF F
<1>7. F \in [1 .. n -> Descs]
  BY <1>4, <1>6, Zenon
<1>8. F \in Seq(Descs) /\ Len(F) = n
  BY <1>3, <1>7
<1> QED
  BY <1>3, <1>4, <1>5, <1>8, Zenon DEF F

\* bulk_remove_files only clears slots.
LEMMA RemovedTable ==
    ASSUME NEW tbl \in FileTables, NEW S
    PROVE  Removed(tbl, S) \in FileTables /\ \A i \in Slots : Removed(tbl, S)[i] \in {None, tbl[i]}
BY DEF Removed, FileTables

\* Cloning descriptions out of a table, or taking them out, brings nothing into it.
LEMMA FdTakeKeeps ==
    ASSUME FdTypes, NEW c \in Contexts, NEW list, NEW clone, Take(c, list, clone)
    PROVE  table' \in [Contexts -> FileTables] /\ \A d \in Descs : d # None /\ FdInTable(d)' => FdKnown(d)
<1>1. CASE clone
  <2>1. table' = table
    BY <1>1, Zenon DEF Take
  <2> QED
    BY <2>1, Zenon DEF FdTypes, FdInTable, FdKnown
<1>2. CASE ~clone
  <2> DEFINE t == Removed(table[c], Range(list))
  <2>1. table' = [table EXCEPT ![c] = t]
    BY <1>2, Zenon DEF Take
  <2>2. table[c] \in FileTables
    BY Zenon DEF FdTypes
  <2>3. t \in FileTables /\ \A i \in Slots : t[i] \in {None, table[c][i]}
    BY <2>2, RemovedTable, Zenon
  <2>4. \A i \in Slots : t[i] # None => FdKnown(t[i])
    BY <2>3, Zenon DEF FdKnown, FdInTable
  <2> HIDE DEF t
  <2> QED
    BY <2>1, <2>3, <2>4, FdTableStep, Zenon
<1> QED
  BY <1>1, <1>2, Zenon

\* bulk_add_fds and bulk_insert_fds put only the delivered descriptions into the table.
LEMMA DeliveredFrom ==
    ASSUME NEW tbl \in FileTables, NEW descs \in Seq(Descs), NEW n, NEW t,
           t \in Delivered(tbl, descs, n) \cup {BulkAdd(tbl, descs), tbl}
    PROVE  t \in FileTables /\ \A i \in Slots : t[i] = tbl[i] \/ \E k \in DOMAIN descs : t[i] = descs[k]
<1>1. \A k \in DOMAIN descs : descs[k] \in Descs
  OBVIOUS
<1>2. CASE t = tbl
  BY <1>2, Zenon
<1>3. CASE t = BulkAdd(tbl, descs) /\ t # tbl
  <2> DEFINE Rank(i) == Cardinality({j \in Empty(tbl) : j <= i})
  <2>1. t = [i \in Slots |-> IF tbl[i] = None /\ Rank(i) \in DOMAIN descs THEN descs[Rank(i)] ELSE tbl[i]]
    BY <1>3, Zenon DEF BulkAdd
  <2> HIDE DEF Rank
  <2>2. \A i \in Slots : t[i] = tbl[i] \/ \E k \in DOMAIN descs : t[i] = descs[k]
    BY <2>1, Zenon
  <2>3. \A i \in Slots : t[i] \in Descs \cup {None}
    BY <1>1, <2>2, Zenon DEF FileTables
  <2>4. t \in FileTables
    BY <2>1, <2>3, Zenon DEF FileTables
  <2> QED
    BY <2>2, <2>4, Zenon
<1>4. ASSUME NEW first, t = BulkInsert(tbl, descs, first), t # tbl
      PROVE  t \in FileTables /\ \A i \in Slots : t[i] = tbl[i] \/ \E k \in DOMAIN descs : t[i] = descs[k]
  <2>1. t = [i \in Slots |-> IF i - first + 1 \in DOMAIN descs THEN descs[i - first + 1] ELSE tbl[i]]
    BY <1>4, Zenon DEF BulkInsert
  <2>2. \A i \in Slots : t[i] = tbl[i] \/ \E k \in DOMAIN descs : t[i] = descs[k]
    BY <2>1, Zenon
  <2>3. \A i \in Slots : t[i] \in Descs \cup {None}
    BY <1>1, <2>2, Zenon DEF FileTables
  <2>4. t \in FileTables
    BY <2>1, <2>3, Zenon DEF FileTables
  <2> QED
    BY <2>2, <2>4, Zenon
<1>5. t = tbl \/ t = BulkAdd(tbl, descs) \/ \E first : t = BulkInsert(tbl, descs, first)
  BY Zenon DEF Delivered
<1> QED
  BY <1>2, <1>3, <1>4, <1>5, Zenon

\* Tables that stay as they are.
LEMMA FdSameTable ==
    ASSUME FdTypes, table' = table
    PROVE  table' \in [Contexts -> FileTables] /\ \A d \in Descs : d # None /\ FdInTable(d)' => FdKnown(d)
BY Zenon DEF FdTypes, FdInTable, FdKnown

\* Requests that stay as they are.
LEMMA FdSameState ==
    ASSUME FdTypes, state' = state
    PROVE  /\ state' \in [Callers -> FdRequests]
           /\ \A e \in Callers : Len(state'[e].fds) <= Cardinality(Slots)
           /\ \A d \in Descs : FdInCall(d)' => FdKnown(d)
BY Zenon DEF FdTypes, FdInCall, FdKnown

\* FdInv after a step from what the step does to tables, requests and closed.
LEMMA FdPartsStep ==
    ASSUME FdPassAssumption, FdInv, closed' \in SUBSET Descs,
           table' \in [Contexts -> FileTables], \A d \in Descs : d # None /\ FdInTable(d)' => FdKnown(d),
           state' \in [Callers -> FdRequests], \A e \in Callers : Len(state'[e].fds) <= Cardinality(Slots),
           \A d \in Descs : FdInCall(d)' => FdKnown(d),
           \A d \in closed' : d \in closed \/ (~FdInTable(d)' /\ ~FdInCall(d)')
    PROVE  FdInv'
<1>1. FdTypes'
  BY Zenon DEF FdTypes
<1>2. \A d \in Descs : d # None
  BY Zenon DEF FdPassAssumption
<1> QED
  BY <1>1, <1>2, FdPlacesStep, Zenon

\* A free request carries nothing.
LEMMA FdFreeTyped == Free \in FdRequests /\ Free.fds = <<>> /\ Len(Free.fds) = 0 /\ DOMAIN Free.fds = {}
<1>1. <<>> \in Seq(Descs) /\ Len(<<>>) = 0 /\ DOMAIN <<>> = {}
  OBVIOUS
<1> QED
  BY <1>1 DEF Free, FdRequests

\* What a request carries.
LEMMA FdRequestOf ==
    ASSUME FdTypes, NEW c \in Callers
    PROVE  /\ state[c] \in FdRequests /\ state[c].fds \in Seq(Descs) /\ Len(state[c].fds) <= Cardinality(Slots)
           /\ state[c].call \in Calls \cup {None}
           /\ \A k \in DOMAIN state[c].fds : state[c].fds[k] \in Descs /\ FdKnown(state[c].fds[k])
<1>1. state[c] \in FdRequests /\ Len(state[c].fds) <= Cardinality(Slots)
  BY Zenon DEF FdTypes
<1>2. state[c].fds \in Seq(Descs) /\ state[c].call \in Calls \cup {None}
  BY <1>1 DEF FdRequests
<1>3. ASSUME NEW s \in Seq(Descs), NEW k \in DOMAIN s PROVE s[k] \in Descs
  OBVIOUS
<1>4. \A k \in DOMAIN state[c].fds : state[c].fds[k] \in Descs /\ FdKnown(state[c].fds[k])
  BY <1>2, <1>3, Zenon DEF FdKnown, FdInCall
<1> QED
  BY <1>1, <1>2, <1>4, Zenon

\* dup() of a context preserves FdInv.
LEMMA FdDupKeeps ==
    ASSUME FdPassAssumption, FdInv, NEW c \in Contexts, NEW i \in Slots, Dup(c, i)
    PROVE  FdInv'
<1> USE DEF FdInv
<1> DEFINE l == Lowest(Empty(table[c]))
           t == [table[c] EXCEPT ![l] = table[c][i]]
<1>1. table[c] \in FileTables
  BY Zenon DEF FdTypes
<1>2. table' = [table EXCEPT ![c] = t]
  BY Zenon DEF Dup
<1> HIDE DEF l
<1>3. t \in FileTables /\ \A j \in Slots : t[j] = table[c][j] \/ t[j] = table[c][i]
  BY <1>1 DEF FileTables
<1> HIDE DEF t
<1>4. \A j \in Slots : t[j] # None => FdKnown(t[j])
  BY <1>3, Zenon DEF FdKnown, FdInTable
<1>5. state' = state /\ closed' = closed
  BY Zenon DEF Dup
<1> QED
  BY <1>2, <1>3, <1>4, <1>5, FdTableStep, FdSameState, FdPartsStep, Zenon DEF FdTypes

\* close() of a context, where Arc::try_unwrap may get the last reference, preserves FdInv.
LEMMA FdCloseKeeps ==
    ASSUME FdPassAssumption, FdInv, NEW c \in Contexts, NEW i \in Slots, Close(c, i)
    PROVE  FdInv'
<1> DEFINE t == [table[c] EXCEPT ![i] = None]
<1>d. PICK d : table[c][i] = d
  BY Zenon
<1>0. FdTypes
  BY Zenon DEF FdInv
<1>1. table[c] \in FileTables
  BY <1>0, Zenon DEF FdTypes
<1>2. table' = [table EXCEPT ![c] = t] /\ d # None
  BY <1>d, Zenon DEF Close
<1>3. t \in FileTables /\ t[i] = None /\ \A j \in Slots : j # i => t[j] = table[c][j]
  BY <1>1 DEF FileTables
<1>a. d \in Descs
  BY <1>1, <1>2, <1>d DEF FileTables
<1> HIDE DEF t
<1>4. \A j \in Slots : t[j] # None => FdKnown(t[j])
  BY <1>3, Zenon DEF FdKnown, FdInTable
<1>5. state' = state /\ (closed' = closed \/ (closed' = closed \cup {d} /\ Strong(d) = 1))
  BY <1>d, Zenon DEF Close
<1>6. closed' \in SUBSET Descs
  BY <1>0, <1>5, <1>a, Zenon DEF FdTypes
<1>7. ASSUME Strong(d) = 1 PROVE ~FdInTable(d)' /\ ~FdInCall(d)'
  <2>1. ~FdInCall(d) /\ \A e \in Contexts : \A j \in Slots : table[e][j] = d => e = c /\ j = i
    BY <1>0, <1>7, <1>d, SoleSlot
  <2>2. ~FdInCall(d)'
    BY <1>5, <2>1, Zenon DEF FdInCall
  <2>3. ASSUME NEW e \in Contexts, NEW j \in Slots, table'[e][j] = d PROVE FALSE
    <3>1. CASE e = c
      <4>1. table'[e] = t
        BY <1>0, <1>2, <3>1, Zenon DEF FdTypes
      <4> QED
        BY <1>2, <1>3, <2>1, <2>3, <3>1, <4>1, Zenon
    <3>2. CASE e # c
      <4>1. table'[e] = table[e]
        BY <1>0, <1>2, <3>2, Zenon DEF FdTypes
      <4> QED
        BY <2>1, <2>3, <3>2, <4>1, Zenon
    <3> QED
      BY <3>1, <3>2, Zenon
  <2> QED
    BY <2>2, <2>3, Zenon DEF FdInTable
<1>8. \A x \in closed' : x \in closed \/ (~FdInTable(x)' /\ ~FdInCall(x)')
  BY <1>5, <1>7, Zenon
<1> QED
  BY <1>0, <1>2, <1>3, <1>4, <1>5, <1>6, <1>8, FdTableStep, FdSameState, FdPartsStep, Zenon

\* sendfd, which takes the descriptions out of the table or clones them into the call, preserves FdInv.
LEMMA FdSendfdKeeps ==
    ASSUME FdPassAssumption, FdInv, NEW c \in Callers, NEW list \in Lists, NEW clone \in BOOLEAN,
           NEW exclusive \in BOOLEAN,
           Sendfd(c, list, clone, exclusive)
    PROVE  FdInv'
<1>0. FdTypes /\ c \in Contexts
  BY Zenon DEF FdInv, Contexts
<1>1. Take(c, list, clone) /\ closed' = closed
  BY Zenon DEF Sendfd
<1>2. table' \in [Contexts -> FileTables] /\ \A d \in Descs : d # None /\ FdInTable(d)' => FdKnown(d)
  BY <1>0, <1>1, FdTakeKeeps, Zenon
<1> DEFINE F == Files(table[c], list)
           r == [st |-> "Waiting", call |-> "Sendfd", fds |-> F, exclusive |-> exclusive,
              response |-> "None"]
<1>3. F \in Seq(Descs) /\ Len(F) <= Cardinality(Slots) /\ \A k \in DOMAIN F : FdKnown(F[k])
  BY <1>0, <1>1, FilesKnown, Zenon DEF Take
<1>4. state' = state \/ state' = [state EXCEPT ![c] = r]
  BY Zenon DEF Sendfd
<1> HIDE DEF F
<1>5. r \in FdRequests /\ r.fds = F
  BY <1>3 DEF FdRequests, Calls
<1> HIDE DEF r
<1>6. /\ state' \in [Callers -> FdRequests]
      /\ \A e \in Callers : Len(state'[e].fds) <= Cardinality(Slots)
      /\ \A d \in Descs : FdInCall(d)' => FdKnown(d)
  BY <1>0, <1>3, <1>4, <1>5, FdSameState, FdStateStep, Zenon
<1> QED
  BY <1>0, <1>1, <1>2, <1>6, FdPartsStep, Zenon DEF FdTypes

\* sendfd to a scheme that has gone preserves FdInv.
LEMMA FdSendNoDeviceKeeps ==
    ASSUME FdPassAssumption, FdInv, NEW c \in Callers, NEW list \in Lists, NEW clone \in BOOLEAN,
           SendNoDevice(c, list, clone)
    PROVE  FdInv'
<1>0. FdTypes /\ c \in Contexts
  BY Zenon DEF FdInv, Contexts
<1>1. Take(c, list, clone) /\ closed' = closed /\ state' = state
  BY Zenon DEF SendNoDevice
<1> QED
  BY <1>0, <1>1, FdTakeKeeps, FdSameState, FdPartsStep, Zenon DEF FdTypes

\* A call that is to be answered by descriptions preserves FdInv.
LEMMA FdCallKeeps ==
    ASSUME FdPassAssumption, FdInv, NEW c \in Callers, NEW call \in Calls, Call(c, call)
    PROVE  FdInv'
<1>0. FdTypes
  BY Zenon DEF FdInv
<1> DEFINE r == [Free EXCEPT !.st = "Waiting", !.call = call]
<1>1. state' = [state EXCEPT ![c] = r] /\ table' = table /\ closed' = closed
  BY Zenon DEF Call
<1>2. r \in FdRequests /\ r.fds = Free.fds
  BY FdFreeTyped DEF FdRequests, Free
<1> HIDE DEF r
<1>3. Len(r.fds) <= Cardinality(Slots) /\ DOMAIN r.fds = {}
  <2>1. Cardinality(Slots) \in Nat
    BY FS_CardinalityType, Zenon DEF FdPassAssumption
  <2>2. 0 <= Cardinality(Slots)
    BY <2>1
  <2> QED
    BY <1>2, <2>2, FdFreeTyped, Zenon
<1> QED
  BY <1>0, <1>1, <1>2, <1>3, FdStateStep, FdSameTable, FdPartsStep, Zenon DEF FdTypes

\* handle_movefd, which replaces what the request carried, preserves FdInv.
LEMMA FdMoveFdKeeps ==
    ASSUME FdPassAssumption, FdInv, NEW c \in Callers, NEW list \in Lists, NEW clone \in BOOLEAN,
           NEW exclusive \in BOOLEAN,
           MoveFd(c, list, clone, exclusive)
    PROVE  FdInv'
<1>0. FdTypes /\ Handler \in Contexts
  BY Zenon DEF FdInv, Contexts
<1>1. Take(Handler, list, clone) /\ closed' = closed
  BY Zenon DEF MoveFd
<1>2. table' \in [Contexts -> FileTables] /\ \A d \in Descs : d # None /\ FdInTable(d)' => FdKnown(d)
  BY <1>0, <1>1, FdTakeKeeps, Zenon
<1> DEFINE F == Files(table[Handler], list)
           r == [state[c] EXCEPT !.fds = F, !.exclusive = exclusive]
<1>3. F \in Seq(Descs) /\ Len(F) <= Cardinality(Slots) /\ \A k \in DOMAIN F : FdKnown(F[k])
  BY <1>0, <1>1, FilesKnown, Zenon DEF Take
<1>4. state' = state \/ state' = [state EXCEPT ![c] = r]
  <2>1. state' = state \/ state' = [state EXCEPT ![c].fds = F, ![c].exclusive = exclusive]
    BY Zenon DEF MoveFd
  <2> HIDE DEF F
  <2>2. state \in [Callers -> FdRequests]
    BY <1>0, Zenon DEF FdTypes
  <2> QED
    BY <2>1, <2>2
<1> HIDE DEF F
<1>5. r \in FdRequests /\ r.fds = F
  BY <1>0, <1>3, FdRequestOf DEF FdRequests
<1> HIDE DEF r
<1>6. /\ state' \in [Callers -> FdRequests]
      /\ \A e \in Callers : Len(state'[e].fds) <= Cardinality(Slots)
      /\ \A d \in Descs : FdInCall(d)' => FdKnown(d)
  BY <1>0, <1>3, <1>4, <1>5, FdSameState, FdStateStep, Zenon
<1> QED
  BY <1>0, <1>1, <1>2, <1>6, FdPartsStep, Zenon DEF FdTypes

\* Clearing slots of one table brings nothing into any.
LEMMA FdTableShrinks ==
    ASSUME FdTypes, NEW c \in Contexts, NEW t, \A i \in Slots : t[i] \in {None, table[c][i]},
           table' = [table EXCEPT ![c] = t]
    PROVE  \A d : d # None /\ FdInTable(d)' => FdInTable(d)
<1> SUFFICES ASSUME NEW d, d # None, NEW e \in Contexts, NEW i \in Slots,
       table'[e][i] = d PROVE FdInTable(d)
  BY Zenon DEF FdInTable
<1>1. (e = c => table'[e] = t) /\ (e # c => table'[e] = table[e])
  BY Zenon DEF FdTypes
<1>2. table[e][i] = d
  BY <1>1, Zenon
<1> QED
  BY <1>2, Zenon DEF FdInTable

\* ParsedCqe::ObtainFd, which takes the first description and drops the others, preserves FdInv.
LEMMA FdObtainFdKeeps ==
    ASSUME FdPassAssumption, FdInv, NEW c \in Callers, NEW i \in Slots, ObtainFd(c, i)
    PROVE  FdInv'
<1>0. FdTypes /\ Handler \in Contexts
  BY Zenon DEF FdInv, Contexts
<1>1. state[c].fds \in Seq(Descs) /\ state[c].fds # <<>> /\ \A k \in DOMAIN state[c].fds : state[c].fds[k] \in Descs /\ FdKnown(state[c].fds[k])
  BY <1>0, FdRequestOf, Zenon DEF ObtainFd
<1>2. state[c].fds[1] \in Descs /\ FdKnown(state[c].fds[1])
  <2>1. 1 \in DOMAIN state[c].fds
    BY <1>1
  <2> QED
    BY <1>1, <2>1, Zenon
<1> DEFINE r == [state[c] EXCEPT !.fds = <<>>, !.exclusive = FALSE]
           t == IF table[Handler][i] = None THEN [table[Handler] EXCEPT ![i] = state[c].fds[1]] ELSE table[Handler]
<1>3. table[Handler] \in FileTables
  BY <1>0, Zenon DEF FdTypes
<1>4. table' = [table EXCEPT ![Handler] = t] /\ closed' = closed
  BY <1>0 DEF ObtainFd, FdTypes
<1>5. t \in FileTables /\ \A j \in Slots : t[j] = table[Handler][j] \/ t[j] = state[c].fds[1]
  BY <1>2, <1>3 DEF FileTables
<1> HIDE DEF t
<1>6. \A j \in Slots : t[j] # None => FdKnown(t[j])
  BY <1>0, <1>2, <1>5, Zenon DEF FdKnown, FdInTable
<1>7. state' = [state EXCEPT ![c] = r]
  BY <1>0 DEF ObtainFd, FdTypes
<1>8. r \in FdRequests /\ r.fds = <<>>
  <2>1. state[c] \in FdRequests
    BY <1>0, Zenon, FdRequestOf
  <2>2. <<>> \in Seq(Descs)
    OBVIOUS
  <2> QED
    BY <2>1, <2>2 DEF FdRequests
<1> HIDE DEF r
<1>9. Len(r.fds) <= Cardinality(Slots) /\ DOMAIN r.fds = {}
  BY <1>8, FS_CardinalityType DEF FdPassAssumption
<1> QED
  BY <1>0, <1>4, <1>5, <1>6, <1>7, <1>8, <1>9, FdTableStep, FdStateStep, FdPartsStep, Zenon DEF FdTypes

\* handle_obtainfd preserves FdInv.
LEMMA FdObtainFdsKeeps ==
    ASSUME FdPassAssumption, FdInv, NEW c \in Callers, NEW n, ObtainFds(c, n)
    PROVE  FdInv'
<1>0. FdTypes /\ Handler \in Contexts
  BY Zenon DEF FdInv, Contexts
<1>1. state[c].fds \in Seq(Descs) /\ \A k \in DOMAIN state[c].fds : state[c].fds[k] \in Descs /\ FdKnown(state[c].fds[k])
  BY <1>0, FdRequestOf, Zenon
<1> DEFINE r == [state[c] EXCEPT !.fds = <<>>, !.exclusive = FALSE]
<1>2. PICK t : t \in Delivered(table[Handler], state[c].fds, n) /\ table' = [table EXCEPT ![Handler] = t]
  BY Zenon DEF ObtainFds
<1>3. table[Handler] \in FileTables
  BY <1>0, Zenon DEF FdTypes
<1>5. t \in FileTables /\ \A j \in Slots : t[j] = table[Handler][j] \/ \E k \in DOMAIN state[c].fds : t[j] = state[c].fds[k]
  <2>1. t \in Delivered(table[Handler], state[c].fds, n) \cup {BulkAdd(table[Handler], state[c].fds),
           table[Handler]}
    BY <1>2, Zenon
  <2> QED
    BY <1>1, <1>3, <2>1, DeliveredFrom
<1>6. \A j \in Slots : t[j] # None => FdKnown(t[j])
  <2>1. \A j \in Slots : FdKnown(table[Handler][j])
    BY <1>0, Zenon DEF FdKnown, FdInTable
  <2> QED
    BY <1>1, <1>5, <2>1, Zenon
<1>7. state' = [state EXCEPT ![c] = r] /\ closed' = closed
  BY <1>0 DEF ObtainFds, FdTypes
<1>8. r \in FdRequests /\ r.fds = <<>>
  <2>1. state[c] \in FdRequests
    BY <1>0, Zenon, FdRequestOf
  <2>2. <<>> \in Seq(Descs)
    OBVIOUS
  <2> QED
    BY <2>1, <2>2 DEF FdRequests
<1> HIDE DEF r
<1>9. Len(r.fds) <= Cardinality(Slots) /\ DOMAIN r.fds = {}
  BY <1>8, FS_CardinalityType DEF FdPassAssumption
<1> QED
  BY <1>0, <1>2, <1>5, <1>6, <1>7, <1>8, <1>9, FdTableStep, FdStateStep, FdPartsStep, Zenon DEF FdTypes

\* An answered request carries the answer, or nothing if its caller is gone.
LEMMA FdAnsweredStep ==
    ASSUME FdPassAssumption, FdTypes, NEW c \in Callers, NEW response \in {"Regular", "Fd", "MultipleFds"},
           NEW fds \in Seq(Descs), Len(fds) <= Cardinality(Slots), \A k \in DOMAIN fds : FdKnown(fds[k]),
           state' = Answered(c, response, fds)
    PROVE  /\ state' \in [Callers -> FdRequests]
           /\ \A e \in Callers : Len(state'[e].fds) <= Cardinality(Slots)
           /\ \A d \in Descs : FdInCall(d)' => FdKnown(d)
           /\ \A e \in Callers \ {c} : state'[e] = state[e]
           /\ \A k \in DOMAIN state'[c].fds : \E j \in DOMAIN fds : state'[c].fds[k] = fds[j]
<1>1. CASE c \in dead
  <2>1. state' = [state EXCEPT ![c] = Free]
    BY <1>1, Zenon DEF Answered
  <2>2. Len(Free.fds) <= Cardinality(Slots) /\ DOMAIN Free.fds = {} /\ Free \in FdRequests
    BY FdFreeTyped, FS_CardinalityType DEF FdPassAssumption
  <2> QED
    BY <2>1, <2>2, FdStateStep, Zenon
<1>2. CASE c \notin dead
  <2> DEFINE r == [state[c] EXCEPT !.st = "Responded", !.fds = fds, !.exclusive = FALSE,
     !.response = response]
  <2>1. state' = [state EXCEPT ![c] = r]
    BY <1>2, Zenon DEF Answered
  <2>2. r \in FdRequests /\ r.fds = fds
    BY FdRequestOf DEF FdRequests
  <2> HIDE DEF r
  <2> QED
    BY <2>1, <2>2, FdStateStep, Zenon
<1> QED
  BY <1>1, <1>2, Zenon

\* What to_close lists is nowhere once the request has been answered from a table.
LEMMA FdToCloseGone ==
    ASSUME FdPassAssumption, FdTypes, NEW c \in Callers, NEW d \in ToClose(c),
           d # None => (FdInTable(d)' => FdInTable(d)),
           \A e \in Callers \ {c} : state'[e] = state[e],
           \A k \in DOMAIN state'[c].fds : FdInTable(state'[c].fds[k])
    PROVE  d \in Descs /\ ~FdInTable(d)' /\ ~FdInCall(d)'
<1>1. d \in Range(state[c].fds) /\ Strong(d) = Cardinality({k \in DOMAIN state[c].fds : state[c].fds[k] = d})
  BY Zenon DEF ToClose
<1>2. d \in Descs /\ d # None
  BY <1>1, FdRequestOf, Zenon DEF Range, FdPassAssumption
<1>3. ~FdInTable(d) /\ \A e \in Callers : \A k \in DOMAIN state[e].fds : state[e].fds[k] = d => e = c
  BY <1>1, SoleCall, Zenon
<1>4. ASSUME NEW e \in Callers, NEW k \in DOMAIN state'[e].fds, state'[e].fds[k] = d PROVE FALSE
  <2>1. CASE e = c
    BY <1>3, <1>4, <2>1, Zenon
  <2>2. CASE e # c
    <3>1. state'[e] = state[e]
      BY <2>2, Zenon
    <3> QED
      BY <1>3, <1>4, <2>2, <3>1, Zenon
  <2> QED
    BY <2>1, <2>2, Zenon
<1>5. ~FdInCall(d)'
  BY <1>4, Zenon DEF FdInCall
<1> QED
  BY <1>2, <1>3, <1>5, Zenon

\* respond() with a code, which closes what only the request had, preserves FdInv.
LEMMA FdRespondKeeps == ASSUME FdPassAssumption, FdInv, NEW c \in Callers, Respond(c) PROVE FdInv'
<1>0. FdTypes
  BY Zenon DEF FdInv
<1>1. state' = Answered(c, "Regular", <<>>) /\ closed' = closed \cup ToClose(c) /\ table' = table
  BY Zenon DEF Respond
<1>2. <<>> \in Seq(Descs) /\ Len(<<>>) <= Cardinality(Slots) /\ DOMAIN <<>> = {}
  BY FS_CardinalityType DEF FdPassAssumption
<1>3. /\ state' \in [Callers -> FdRequests]
      /\ \A e \in Callers : Len(state'[e].fds) <= Cardinality(Slots)
      /\ \A d \in Descs : FdInCall(d)' => FdKnown(d)
      /\ \A e \in Callers \ {c} : state'[e] = state[e]
      /\ DOMAIN state'[c].fds = {}
  BY <1>0, <1>1, <1>2, FdAnsweredStep, Zenon
<1>4. \A d : FdInTable(d)' => FdInTable(d)
  BY <1>1, Zenon DEF FdInTable
<1>5. \A d \in ToClose(c) : d \in Descs /\ ~FdInTable(d)' /\ ~FdInCall(d)'
  BY <1>0, <1>3, <1>4, FdToCloseGone, Zenon
<1>6. closed' \in SUBSET Descs /\ \A d \in closed' : d \in closed \/ (~FdInTable(d)' /\ ~FdInCall(d)')
  BY <1>0, <1>1, <1>5, Zenon DEF FdTypes
<1> QED
  BY <1>0, <1>1, <1>3, <1>6, FdSameTable, FdPartsStep, Zenon

\* ResponseWithFd, with its description out of the table already, preserves FdInv.
LEMMA FdRespondFdKeeps ==
    ASSUME FdPassAssumption, FdInv, NEW c \in Callers, NEW i \in Slots, RespondFd(c, i)
    PROVE  FdInv'
<1>0. FdTypes /\ Handler \in Contexts
  BY Zenon DEF FdInv, Contexts
<1> DEFINE t == [table[Handler] EXCEPT ![i] = None]
<1>1. table[Handler] \in FileTables /\ table[Handler][i] # None
  BY <1>0, Zenon DEF FdTypes, RespondFd
<1>2. table' = [table EXCEPT ![Handler] = t]
  BY Zenon DEF RespondFd
<1>3. t \in FileTables /\ \A j \in Slots : t[j] \in {None, table[Handler][j]}
  BY <1>1 DEF FileTables
<1> HIDE DEF t
<1>4. \A j \in Slots : t[j] # None => FdKnown(t[j])
  BY <1>0, <1>3, Zenon DEF FdKnown, FdInTable
<1>5. table' \in [Contexts -> FileTables] /\ \A d \in Descs : d # None /\ FdInTable(d)' => FdKnown(d)
  BY <1>0, <1>2, <1>3, <1>4, FdTableStep, Zenon
<1>6. CASE state[c].st # "Waiting"
  <2>1. state' = state /\ closed' = closed
    BY <1>6, Zenon DEF RespondFd
  <2> QED
    BY <1>0, <1>5, <2>1, FdSameState, FdPartsStep, Zenon DEF FdTypes
<1>7. CASE state[c].st = "Waiting"
  <2>d. PICK x : x = table[Handler][i]
    BY Zenon
  <2>1. state' = Answered(c, "Fd", <<x>>) /\ closed' = closed \cup ToClose(c)
    BY <1>7, <2>d, Zenon DEF RespondFd
  <2>2. x \in Descs /\ FdInTable(x) /\ FdKnown(x)
    <3>1. x \in Descs \cup {None}
      BY <1>1, <2>d, Zenon DEF FileTables
    <3> QED
      BY <1>0, <1>1, <2>d, <3>1, Zenon DEF FdInTable, FdKnown
  <2>3. <<x>> \in Seq(Descs) /\ Len(<<x>>) = 1 /\ \A k \in DOMAIN <<x>> : <<x>>[k] = x
    BY <2>2
  <2>4. 1 <= Cardinality(Slots)
    <3>1. Cardinality(Slots) \in Nat /\ Cardinality(Slots) # 0
      BY FS_CardinalityType, FS_EmptySet, Zenon DEF FdPassAssumption
    <3> QED
      BY <3>1
  <2>5. /\ state' \in [Callers -> FdRequests]
        /\ \A e \in Callers : Len(state'[e].fds) <= Cardinality(Slots)
        /\ \A d \in Descs : FdInCall(d)' => FdKnown(d)
        /\ \A e \in Callers \ {c} : state'[e] = state[e]
        /\ \A k \in DOMAIN state'[c].fds : \E j \in DOMAIN <<x>> : state'[c].fds[k] = <<x>>[j]
    <3> DEFINE fds == <<x>>
    <3>1. fds \in Seq(Descs) /\ Len(fds) <= Cardinality(Slots) /\ \A k \in DOMAIN fds : FdKnown(fds[k])
      BY <2>2, <2>3, <2>4, Zenon
    <3>2. state' = Answered(c, "Fd", fds)
      BY <2>1, Zenon
    <3> HIDE DEF fds
    <3>3. /\ state' \in [Callers -> FdRequests]
          /\ \A e \in Callers : Len(state'[e].fds) <= Cardinality(Slots)
          /\ \A d \in Descs : FdInCall(d)' => FdKnown(d)
          /\ \A e \in Callers \ {c} : state'[e] = state[e]
          /\ \A k \in DOMAIN state'[c].fds : \E j \in DOMAIN fds : state'[c].fds[k] = fds[j]
      BY <1>0, <3>1, <3>2, FdAnsweredStep, Zenon
    <3> QED
      BY <3>3, Zenon DEF fds
  <2>6. \A k \in DOMAIN state'[c].fds : state'[c].fds[k] = x
    BY <2>3, <2>5, Zenon
  <2>7. \A k \in DOMAIN state'[c].fds : FdInTable(state'[c].fds[k])
    <3> SUFFICES ASSUME NEW k \in DOMAIN state'[c].fds PROVE FdInTable(state'[c].fds[k])
      BY Zenon
    <3> QED
      BY <2>2, <2>6, Zenon
  <2>8. \A d : d # None /\ FdInTable(d)' => FdInTable(d)
    BY <1>0, <1>2, <1>3, FdTableShrinks, Zenon
  <2>9. \A d \in ToClose(c) : d \in Descs /\ ~FdInTable(d)' /\ ~FdInCall(d)'
    BY <1>0, <2>5, <2>7, <2>8, FdToCloseGone, Zenon
  <2>10. closed' \in SUBSET Descs /\ \A d \in closed' : d \in closed \/ (~FdInTable(d)' /\ ~FdInCall(d)')
    BY <1>0, <2>1, <2>9, Zenon DEF FdTypes
  <2> QED
    BY <1>0, <1>5, <2>5, <2>10, FdPartsStep, Zenon
<1> QED
  BY <1>6, <1>7, Zenon

\* ResponseWithMultipleFds preserves FdInv.
LEMMA FdRespondFdsKeeps == ASSUME FdPassAssumption, FdInv, NEW c \in Callers, RespondFds(c) PROVE FdInv'
<1>0. FdTypes
  BY Zenon DEF FdInv
<1>1. state' = Answered(c, "MultipleFds", state[c].fds) /\ table' = table /\ closed' = closed
  BY Zenon DEF RespondFds
<1>2. state[c].fds \in Seq(Descs) /\ Len(state[c].fds) <= Cardinality(Slots) /\ \A k \in DOMAIN state[c].fds : FdKnown(state[c].fds[k])
  BY <1>0, FdRequestOf, Zenon
<1>3. /\ state' \in [Callers -> FdRequests]
      /\ \A e \in Callers : Len(state'[e].fds) <= Cardinality(Slots)
      /\ \A d \in Descs : FdInCall(d)' => FdKnown(d)
  BY <1>0, <1>1, <1>2, FdAnsweredStep, Zenon
<1> QED
  BY <1>0, <1>1, <1>3, FdSameTable, FdPartsStep, Zenon DEF FdTypes

\* The return of the caller, which puts the answer into its table or drops it, preserves FdInv.
LEMMA FdReturnKeeps == ASSUME FdPassAssumption, FdInv, NEW c \in Callers, NEW n, Return(c, n) PROVE FdInv'
<1>0. FdTypes /\ c \in Contexts
  BY Zenon DEF FdInv, Contexts
<1>1. state[c].fds \in Seq(Descs) /\ \A k \in DOMAIN state[c].fds : state[c].fds[k] \in Descs /\ FdKnown(state[c].fds[k])
  BY <1>0, FdRequestOf, Zenon
<1>2. PICK t : /\ t \in CASE state[c].call = "Recvfd" /\ state[c].response = "MultipleFds" ->
                               Delivered(table[c], state[c].fds, n)
                          [] state[c].call = "Open" /\ state[c].response = "Fd" -> {BulkAdd(table[c],
                             state[c].fds)}
                          [] OTHER -> {table[c]}
               /\ table' = [table EXCEPT ![c] = t]
  BY Zenon DEF Return
<1>3. table[c] \in FileTables
  BY <1>0, Zenon DEF FdTypes
<1>4. t = table[c] \/ t = BulkAdd(table[c], state[c].fds) \/ t \in Delivered(table[c], state[c].fds, n)
  BY <1>2, Zenon
<1>5. t \in FileTables /\ \A j \in Slots : t[j] = table[c][j] \/ \E k \in DOMAIN state[c].fds : t[j] = state[c].fds[k]
  <2>1. t \in Delivered(table[c], state[c].fds, n) \cup {BulkAdd(table[c], state[c].fds), table[c]}
    BY <1>4, Zenon
  <2> QED
    BY <1>1, <1>3, <2>1, DeliveredFrom
<1>6. \A j \in Slots : t[j] # None => FdKnown(t[j])
  <2>1. \A j \in Slots : FdKnown(table[c][j])
    BY <1>0, Zenon DEF FdKnown, FdInTable
  <2> QED
    BY <1>1, <1>5, <2>1, Zenon
<1>7. state' = [state EXCEPT ![c] = Free] /\ closed' = closed
  BY Zenon DEF Return
<1>8. Len(Free.fds) <= Cardinality(Slots) /\ DOMAIN Free.fds = {} /\ Free \in FdRequests
  BY FdFreeTyped, FS_CardinalityType DEF FdPassAssumption
<1> QED
  BY <1>0, <1>2, <1>5, <1>6, <1>7, <1>8, FdTableStep, FdStateStep, FdPartsStep, Zenon DEF FdTypes

\* The exit of a caller whose request stays behind preserves FdInv.
LEMMA FdKillKeeps == ASSUME FdPassAssumption, FdInv, NEW c \in Callers, Kill(c) PROVE FdInv'
<1>0. FdTypes /\ c \in Contexts
  BY Zenon DEF FdInv, Contexts
<1> DEFINE t == Removed(table[c], Slots)
           X == {d \in Descs : Strong(d) > 0 /\ Strong(d) = Cardinality({i \in Slots : table[c][i] = d})}
<1>1. table' = [table EXCEPT ![c] = t] /\ state' = state /\ closed' = closed \cup X
  BY Zenon DEF Kill
<1>2. t \in FileTables /\ \A i \in Slots : t[i] = None
  BY DEF Removed, FileTables
<1>3. \A x \in X : x \in Descs /\ Strong(x) = Cardinality({i \in Slots : table[c][i] = x})
  BY Zenon
<1> HIDE DEF t, X
<1>4. ASSUME NEW d \in X PROVE ~FdInTable(d)' /\ ~FdInCall(d)'
  <2>d. PICK x : x = d
    BY Zenon
  <2>1. ~FdInCall(x) /\ \A e \in Contexts : \A j \in Slots : table[e][j] = x => e = c
    BY <1>0, <1>3, <2>d, SoleTable, Zenon
  <2>2. x # None
    BY <1>3, <2>d, Zenon DEF FdPassAssumption
  <2>3. ASSUME NEW e \in Contexts, NEW j \in Slots, table'[e][j] = x PROVE FALSE
    <3>1. (e = c => table'[e] = t) /\ (e # c => table'[e] = table[e])
      BY <1>0, <1>1, Zenon DEF FdTypes
    <3> QED
      BY <1>2, <2>1, <2>2, <2>3, <3>1, Zenon
  <2>4. ~FdInCall(x)'
    BY <1>1, <2>1, Zenon DEF FdInCall
  <2> QED
    BY <2>d, <2>3, <2>4, Zenon DEF FdInTable
<1>5. closed' \in SUBSET Descs /\ \A d \in closed' : d \in closed \/ (~FdInTable(d)' /\ ~FdInCall(d)')
  BY <1>0, <1>1, <1>3, <1>4, Zenon DEF FdTypes
<1>6. \A i \in Slots : t[i] # None => FdKnown(t[i])
  BY <1>2, Zenon
<1> QED
  BY <1>0, <1>1, <1>2, <1>5, <1>6, FdTableStep, FdSameState, FdPartsStep, Zenon

\* Every step of callers and handler preserves FdInv.
LEMMA FdNext == ASSUME FdPassAssumption, FdInv, [Next]_vars PROVE FdInv'
<1>1. ASSUME table' = table, state' = state, closed' = closed PROVE FdInv'
  BY <1>1, Zenon DEF FdInv, FdTypes, FdInTable, FdInCall
<1>2. CASE UNCHANGED vars
  BY <1>1, <1>2, Zenon DEF vars
<1>3. ASSUME NEW c \in Callers, Gone(c) PROVE FdInv'
  BY <1>1, <1>3, Zenon DEF Gone
<1>4. CASE Next
  BY <1>3, <1>4, FdDupKeeps, FdCloseKeeps, FdSendfdKeeps, FdSendNoDeviceKeeps, FdCallKeeps,
     FdMoveFdKeeps, FdObtainFdKeeps, FdObtainFdsKeeps,
     FdRespondKeeps, FdRespondFdKeeps, FdRespondFdsKeeps, FdReturnKeeps, FdKillKeeps, Zenon DEF Next
<1> QED
  BY <1>2, <1>4, Zenon

\* Every description begins in one table, and none is closed.
LEMMA FdInitially == ASSUME FdPassAssumption, Init PROVE FdInv
<1>1. table \in [Contexts -> FileTables] /\ closed = {} /\ state = [c \in Callers |-> Free]
  BY Zenon DEF Init, FileTables
<1>2. Free \in FdRequests /\ Len(Free.fds) <= Cardinality(Slots)
  BY FdFreeTyped, FS_CardinalityType DEF FdPassAssumption
<1> QED
  BY <1>1, <1>2, Zenon DEF FdInv, FdTypes

\* FdInv says of the places what InUseIsOpen says of the counts.
LEMMA ClosedIsUnused == ASSUME FdPassAssumption, FdInv PROVE InUseIsOpen
BY StrongZero, Zenon DEF FdInv, InUseIsOpen

\* FdInv holds for any callers, descriptions and size of the tables.
THEOREM FdInvariant == ASSUME FdPassAssumption PROVE Spec => []FdInv
<1>1. Init => FdInv
  BY FdInitially
<1>2. FdInv /\ [Next]_vars => FdInv'
  BY FdNext
<1> QED
  BY <1>1, <1>2, PTL DEF Spec

\* InUseIsOpen of FdPass: a description that a table, a waiting call or an undelivered answer
\* refers to has not been closed at its scheme, whichever of sendfd, ObtainFd, responses and
\* exits race for its last reference.
THEOREM InUseIsOpenAlways == ASSUME FdPassAssumption PROVE Spec => []InUseIsOpen
<1>1. FdInv => InUseIsOpen
  BY ClosedIsUnused
<1> QED
  BY <1>1, FdInvariant, PTL

-----------------------------------------------------------------------------
(* The list of schemes and its namespaces: Schemes.                         *)

CONSTANTS sc_Daemons, sc_Clients, sc_Names, sc_MAX_GLOBAL_SCHEMES, sc_SCHEME_MAX_SCHEMES,
          sc_MaxNamespaces, sc_MaxRegistrations, sc_Window
VARIABLES sc_map, sc_names, sc_next_ns, sc_next_id, sc_handles, sc_pc, sc_task, sc_begun, sc_since,
          sc_wrapped, sc_panicked

Names == INSTANCE Schemes WITH
    Daemons <- sc_Daemons, Clients <- sc_Clients, Names <- sc_Names,
    MAX_GLOBAL_SCHEMES <- sc_MAX_GLOBAL_SCHEMES, SCHEME_MAX_SCHEMES <- sc_SCHEME_MAX_SCHEMES,
    MaxNamespaces <- sc_MaxNamespaces, MaxRegistrations <- sc_MaxRegistrations, Window <- sc_Window,
    map <- sc_map, names <- sc_names, next_ns <- sc_next_ns, next_id <- sc_next_id,
    handles <- sc_handles, pc <- sc_pc, task <- sc_task, begun <- sc_begun, since <- sc_since,
    wrapped <- sc_wrapped, panicked <- sc_panicked

\* A nonempty set of numbers has a least one: the search for a free number ends.
LEMMA MinOfNumbers ==
    ASSUME NEW S \in SUBSET Nat, S # {}
    PROVE  Names!Min(S) \in S /\ \A y \in S : Names!Min(S) <= y
<1>1. \E x \in S : \A y \in S : <<y, x>> \notin OpToRel(<, Nat)
  BY NatLessThanWellFounded, WFMin, Zenon
<1>2. PICK x \in S : \A y \in S : <<y, x>> \notin OpToRel(<, Nat)
  BY <1>1, Zenon
<1>3. \A y \in S : x <= y
  <2>1. ASSUME NEW y \in S, y < x PROVE FALSE
    <3>1. <<y, x>> \in OpToRel(<, Nat)
      BY <2>1 DEF OpToRel
    <3> QED
      BY <1>2, <3>1, Zenon
  <2> QED
    BY <2>1
<1> QED
  BY <1>3, Zenon DEF Names!Min

\* As long as the table is finite some number from next_id on is free.
LEMMA SomeNumberIsFree ==
    ASSUME NEW D \in SUBSET Nat, IsFiniteSet(D), NEW s \in Nat
    PROVE  LET S == {i \in s .. s + Cardinality(D) : i \notin D}
           IN  Names!Min(S) \in Nat /\ Names!Min(S) >= s /\ Names!Min(S) \notin D
<1> DEFINE I == s .. s + Cardinality(D)
           S == {i \in I : i \notin D}
<1>1. Cardinality(D) \in Nat
  BY FS_CardinalityType, Zenon
<1>2. IsFiniteSet(I) /\ Cardinality(I) = Cardinality(D) + 1
  BY <1>1, FS_Interval
<1>3. ASSUME S = {} PROVE FALSE
  <2>1. I \subseteq D
    BY <1>3, Zenon
  <2>2. Cardinality(I) <= Cardinality(D)
    BY <2>1, FS_Subset, Zenon
  <2> QED
    BY <1>1, <1>2, <2>2
<1>4. S \in SUBSET Nat
  OBVIOUS
<1>5. Names!Min(S) \in S
  BY <1>3, <1>4, MinOfNumbers, Zenon
<1> QED
  BY <1>5

\* Daemon d has reserved a number and a name, and has no scheme yet.
NameReserved(d) == sc_pc[d] = "reserved"
\* The number of daemon d is in the list.
OwnsNumber(d) == sc_pc[d] \in {"handle", "serve", "close"}
\* Client c has looked a number up.
UsesNumber(c) == sc_pc[c] \in {"open", "file"}
\* The numbers in the list and the reserved ones.
NumbersInUse == DOMAIN sc_map \cup {sc_task[d].id : d \in {e \in sc_Daemons : sc_pc[e] = "reserved"}}

\* The types of the state; the list is finite.
SchemesTypes ==
    /\ sc_next_id \in Nat /\ sc_next_ns \in Nat \ {0} /\ sc_wrapped \in BOOLEAN
    /\ DOMAIN sc_map \subseteq Nat /\ IsFiniteSet(DOMAIN sc_map)
    /\ DOMAIN sc_names = 0 .. sc_next_ns - 1
    /\ sc_pc = [t \in Names!Tasks |-> sc_pc[t]] /\ sc_task = [t \in Names!Tasks |-> sc_task[t]]
    /\ \A t \in Names!Tasks : sc_task[t].id \in Nat

\* A reserved number is not in the list and no file has it; daemons have different numbers,
\* all given out before.
DaemonOK(d) ==
    /\ NameReserved(d) => sc_task[d].id \notin DOMAIN sc_map /\ \A c \in sc_Clients : UsesNumber(c) => sc_task[c].id # sc_task[d].id
    /\ OwnsNumber(d) => sc_task[d].id \in DOMAIN sc_map
    /\ NameReserved(d) \/ OwnsNumber(d) =>
        /\ sc_task[d].id < sc_next_id /\ sc_task[d].id # Names!Event
        /\ \A e \in sc_Daemons \ {d} : NameReserved(e) \/ OwnsNumber(e) => sc_task[e].id # sc_task[d].id

\* The number of a file was given out before; if it is in the list it stands for the scheme
\* that was found.
ClientOK(c) ==
    UsesNumber(c) => /\ sc_task[c].id < sc_next_id
                     /\ sc_task[c].id \in DOMAIN sc_map => sc_map[sc_task[c].id] = sc_task[c].scheme

\* Every name has a number that is in the list or reserved.
NamesOK == \A ns \in DOMAIN sc_names : \A n \in DOMAIN sc_names[ns] : sc_names[ns][n] \in NumbersInUse

\* The inductive invariant: until the numbers wrap around, those in use are below next_id.
SchemesInv ==
    /\ SchemesTypes
    /\ ~sc_wrapped => /\ ~sc_panicked /\ Names!Event \in DOMAIN sc_map
                      /\ \A i \in DOMAIN sc_map : i < sc_next_id
                      /\ \A d \in sc_Daemons : DaemonOK(d)
                      /\ \A c \in sc_Clients : ClientOK(c)
                      /\ NamesOK

\* The instance counts as the theorems about finite sets do.
LEMMA NamesCardinality == ASSUME NEW S PROVE Names!Cardinality(S) = Cardinality(S)
BY DEF Names!Cardinality, Cardinality

\* insert_and_pass and reserve_scheme choose a number that no scheme has.
LEMMA AllocatedIsFree ==
    ASSUME Names!SchemesAssumption, SchemesInv
    PROVE  /\ Names!Allocated \in Nat /\ Names!Allocated \notin DOMAIN sc_map
           /\ sc_next_id < sc_SCHEME_MAX_SCHEMES => Names!Allocated >= sc_next_id
<1>1. Names!Start \in Nat
  BY DEF SchemesInv, SchemesTypes, Names!Start
<1>2. Names!Allocated \in Nat /\ Names!Allocated >= Names!Start /\ Names!Allocated \notin DOMAIN sc_map
  <2>1. Names!Cardinality(DOMAIN sc_map) = Cardinality(DOMAIN sc_map)
    BY NamesCardinality, Zenon
  <2> QED
    BY <1>1, <2>1, SomeNumberIsFree DEF SchemesInv, SchemesTypes, Names!Allocated
<1> QED
  BY <1>2 DEF Names!SchemesAssumption, Names!Start, SchemesInv, SchemesTypes

\* reserve_scheme preserves SchemesInv.
LEMMA SchemeReserveKeeps ==
    ASSUME Names!SchemesAssumption, SchemesInv, NEW d \in sc_Daemons, NEW ns \in 1 .. sc_next_ns - 1,
           NEW n \in sc_Names,
           Names!Reserve(d, ns, n)
    PROVE  SchemesInv'
<1> DEFINE a == Names!Allocated
<1>1. /\ a \in Nat /\ a \notin DOMAIN sc_map
      /\ sc_next_id < sc_SCHEME_MAX_SCHEMES => a >= sc_next_id
  BY AllocatedIsFree, Zenon
<1>2. /\ sc_pc[d] = "idle" /\ sc_pc' = [sc_pc EXCEPT ![d] = "reserved"]
      /\ sc_task' = [sc_task EXCEPT ![d] = [ns |-> ns, name |-> n, id |-> a,
         scheme |-> Names!User(sc_begun')]]
      /\ sc_names' = [sc_names EXCEPT ![ns] = Names!Insert(@, n, a)]
      /\ sc_next_id' = a + 1 /\ sc_wrapped' = (sc_wrapped \/ sc_next_id >= sc_SCHEME_MAX_SCHEMES)
      /\ UNCHANGED <<sc_map, sc_next_ns, sc_panicked>>
  BY Zenon DEF Names!Reserve, Names!Wraps
<1> HIDE DEF a
<1>3. d \in Names!Tasks /\ sc_task'[d].id = a /\ NameReserved(d)' /\ ~OwnsNumber(d)' /\ ~NameReserved(d) /\ ~OwnsNumber(d)
  BY <1>2 DEF Names!Tasks, SchemesInv, SchemesTypes, NameReserved, OwnsNumber
<1>4. \A t \in Names!Tasks \ {d} : /\ sc_task'[t] = sc_task[t] /\ NameReserved(t)' = NameReserved(t) /\ OwnsNumber(t)' = OwnsNumber(t)
                                   /\ UsesNumber(t)' = UsesNumber(t)
  BY <1>2 DEF NameReserved, OwnsNumber, UsesNumber
<1>5. SchemesTypes'
  <2>1. sc_wrapped' \in BOOLEAN
    BY <1>2, Zenon
  <2>2. sc_pc' = [t \in Names!Tasks |-> sc_pc'[t]] /\ sc_task' = [t \in Names!Tasks |-> sc_task'[t]]
    BY <1>2 DEF SchemesInv, SchemesTypes
  <2>3. \A t \in Names!Tasks : sc_task'[t].id \in Nat
    BY <1>1, <1>3, <1>4, Zenon DEF SchemesInv, SchemesTypes
  <2>4. sc_next_id' \in Nat /\ DOMAIN sc_names' = DOMAIN sc_names
    BY <1>1, <1>2
  <2> QED
    BY <1>2, <2>3, <2>4, Zenon DEF SchemesInv, SchemesTypes
<1> SUFFICES ASSUME ~sc_wrapped'
             PROVE  (/\ ~sc_panicked /\ Names!Event \in DOMAIN sc_map
                     /\ \A i \in DOMAIN sc_map : i < sc_next_id
                     /\ \A e \in sc_Daemons : DaemonOK(e)
                     /\ \A c \in sc_Clients : ClientOK(c)
                     /\ NamesOK)'
  BY <1>5, Zenon DEF SchemesInv
<1>6. ~sc_wrapped /\ a >= sc_next_id /\ sc_next_id \in Nat
  <2>1. ~sc_wrapped /\ ~(sc_next_id >= sc_SCHEME_MAX_SCHEMES)
    BY <1>2, Zenon
  <2> QED
    BY <1>1, <2>1 DEF Names!SchemesAssumption, SchemesInv, SchemesTypes
<1>7. ~sc_panicked' /\ Names!Event \in DOMAIN sc_map' /\ \A i \in DOMAIN sc_map' : i < sc_next_id'
  BY <1>1, <1>2, <1>6 DEF SchemesInv, SchemesTypes
<1>8. ASSUME NEW e \in sc_Daemons PROVE DaemonOK(e)'
  <2>1. \A t \in sc_Daemons \cup sc_Clients : t \in Names!Tasks
    BY Zenon DEF Names!Tasks
  <2>2. \A c \in sc_Clients : c # d /\ (UsesNumber(c) => sc_task[c].id < sc_next_id)
    BY <1>6, Zenon DEF Names!SchemesAssumption, SchemesInv, ClientOK
  <2>3. \A x \in sc_Daemons : NameReserved(x) \/ OwnsNumber(x) => sc_task[x].id < sc_next_id /\ sc_task[x].id \in Nat
    BY <1>6, <2>1 DEF SchemesInv, SchemesTypes, DaemonOK
  <2>4. DaemonOK(e)
    BY <1>6, Zenon DEF SchemesInv
  <2>5. \A x \in Names!Tasks : sc_task[x].id \in Nat
    BY Zenon DEF SchemesInv, SchemesTypes
  <2> QED
    BY <1>1, <1>2, <1>3, <1>4, <1>6, <1>7, <2>1, <2>2, <2>3, <2>4 DEF DaemonOK
<1>9. ASSUME NEW c \in sc_Clients PROVE ClientOK(c)'
  <2>1. c \in Names!Tasks /\ c # d /\ ClientOK(c) /\ sc_task[c].id \in Nat
    BY <1>6, Zenon DEF Names!SchemesAssumption, Names!Tasks, SchemesInv, SchemesTypes
  <2> QED
    BY <1>1, <1>2, <1>4, <1>6, <2>1 DEF ClientOK
<1>10. NamesOK'
  <2>1. a \in NumbersInUse' /\ \A i \in NumbersInUse : i \in NumbersInUse'
    <3>1. \A i \in DOMAIN sc_map : i \in NumbersInUse'
      BY <1>2, Zenon DEF NumbersInUse
    <3>2. \A e \in sc_Daemons : sc_pc'[e] = "reserved" => sc_task'[e].id \in NumbersInUse'
      BY Zenon DEF NumbersInUse
    <3>3. \A e \in sc_Daemons : sc_pc[e] = "reserved" => sc_pc'[e] = "reserved" /\ sc_task'[e].id = sc_task[e].id
      BY <1>3, <1>4, Zenon DEF NameReserved, Names!Tasks
    <3>4. a \in NumbersInUse'
      BY <1>3, <3>2, Zenon DEF NameReserved
    <3> QED
      BY <3>1, <3>3, <3>4, Zenon DEF NumbersInUse
  <2>2. ASSUME NEW x \in DOMAIN sc_names', NEW m \in DOMAIN sc_names'[x]
        PROVE  sc_names'[x][m] \in NumbersInUse'
    <3>1. x \in DOMAIN sc_names
      BY <1>2
    <3>2. CASE x # ns
      <4>1. sc_names'[x] = sc_names[x]
        BY <1>2, <3>2
      <4> QED
        BY <1>6, <2>1, <3>1, <4>1, Zenon DEF SchemesInv, NamesOK
    <3>3. CASE x = ns
      <4>1. sc_names'[x] = Names!Insert(sc_names[x], n, a)
        BY <1>2, <3>3
      <4>2. CASE m = n
        BY <2>1, <4>1, <4>2 DEF Names!Insert
      <4>3. CASE m # n
        <5>1. m \in DOMAIN sc_names[x] /\ sc_names'[x][m] = sc_names[x][m]
          BY <4>1, <4>3 DEF Names!Insert
        <5> QED
          BY <1>6, <2>1, <3>1, <5>1, Zenon DEF SchemesInv, NamesOK
      <4> QED
        BY <4>2, <4>3
    <3> QED
      BY <3>2, <3>3
  <2> QED
    BY <2>2, Zenon DEF NamesOK
<1> QED
  BY <1>7, <1>8, <1>9, <1>10, Zenon

\* What the client steps leave alone keeps its type.
LEMMA SchemeTypesKept ==
    ASSUME SchemesTypes, NEW t \in Names!Tasks, NEW place, NEW x, x.id \in Nat, sc_next_id' \in Nat,
           DOMAIN sc_map' \subseteq Nat, IsFiniteSet(DOMAIN sc_map'), DOMAIN sc_names' = DOMAIN sc_names,
           sc_pc' = [sc_pc EXCEPT ![t] = place], sc_task' = [sc_task EXCEPT ![t] = x],
           UNCHANGED <<sc_next_ns, sc_wrapped>>
    PROVE  SchemesTypes'
<1>1. sc_pc' = [u \in Names!Tasks |-> sc_pc'[u]] /\ sc_task' = [u \in Names!Tasks |-> sc_task'[u]]
  BY DEF SchemesTypes
<1>2. \A u \in Names!Tasks : sc_task'[u].id \in Nat
  BY DEF SchemesTypes
<1> QED
  BY Zenon DEF SchemesTypes

\* complete_registration, after the name was reserved, preserves SchemesInv.
LEMMA SchemeCompleteKeeps ==
    ASSUME Names!SchemesAssumption, SchemesInv, NEW d \in sc_Daemons, Names!Complete(d)
    PROVE  SchemesInv'
<1> DEFINE id == sc_task[d].id
<1>1. /\ sc_pc[d] = "reserved" /\ sc_pc' = [sc_pc EXCEPT ![d] = "handle"]
      /\ sc_panicked' = (sc_panicked \/ id \in DOMAIN sc_map)
      /\ sc_map' = Names!Insert(sc_map, id, sc_task[d].scheme)
      /\ UNCHANGED <<sc_names, sc_next_ns, sc_next_id, sc_task, sc_wrapped>>
  BY Zenon DEF Names!Complete
<1>2. d \in Names!Tasks /\ id \in Nat /\ sc_task[d].id = id
  BY Zenon DEF Names!Tasks, SchemesInv, SchemesTypes
<1> HIDE DEF id
<1>3. DOMAIN sc_map' = DOMAIN sc_map \cup {id} /\ \A i \in DOMAIN sc_map : i # id => sc_map'[i] = sc_map[i]
  BY <1>1 DEF Names!Insert
<1>4. SchemesTypes'
  <2>1. IsFiniteSet(DOMAIN sc_map') /\ DOMAIN sc_map' \subseteq Nat
    <3>1. IsFiniteSet(DOMAIN sc_map \cup {id})
      BY FS_AddElement, Zenon DEF SchemesInv, SchemesTypes
    <3> QED
      BY <1>2, <1>3, <3>1 DEF SchemesInv, SchemesTypes
  <2>2. sc_pc' = [u \in Names!Tasks |-> sc_pc'[u]]
    BY <1>1 DEF SchemesInv, SchemesTypes
  <2> QED
    BY <1>1, <2>1, Zenon DEF SchemesInv, SchemesTypes
<1> SUFFICES ASSUME ~sc_wrapped'
             PROVE  (/\ ~sc_panicked /\ Names!Event \in DOMAIN sc_map
                     /\ \A i \in DOMAIN sc_map : i < sc_next_id
                     /\ \A e \in sc_Daemons : DaemonOK(e)
                     /\ \A c \in sc_Clients : ClientOK(c)
                     /\ NamesOK)'
  BY <1>4, Zenon DEF SchemesInv
<1>5. /\ ~sc_wrapped /\ ~sc_panicked /\ Names!Event \in DOMAIN sc_map /\ id \notin DOMAIN sc_map /\ id < sc_next_id
      /\ (\A i \in DOMAIN sc_map : i < sc_next_id) /\ (\A e \in sc_Daemons : DaemonOK(e))
      /\ (\A c \in sc_Clients : ClientOK(c)) /\ NamesOK
  BY <1>1, <1>2, Zenon DEF SchemesInv, DaemonOK, NameReserved
<1>6. ~sc_panicked' /\ Names!Event \in DOMAIN sc_map' /\ \A i \in DOMAIN sc_map' : i < sc_next_id'
  BY <1>1, <1>3, <1>5, Zenon
<1>7. ASSUME NEW e \in sc_Daemons PROVE DaemonOK(e)'
  <2>1. /\ OwnsNumber(d)' /\ ~NameReserved(d)' /\ NameReserved(d)
        /\ \A t \in Names!Tasks \ {d} : NameReserved(t)' = NameReserved(t) /\ OwnsNumber(t)' = OwnsNumber(t) /\ UsesNumber(t)' = UsesNumber(t)
    BY <1>1, <1>2 DEF SchemesInv, SchemesTypes, NameReserved, OwnsNumber, UsesNumber
  <2>2. \A t \in sc_Daemons \cup sc_Clients : t \in Names!Tasks
    BY Zenon DEF Names!Tasks
  <2>3. \A c \in sc_Clients : c # d
    BY Zenon DEF Names!SchemesAssumption
  <2>4. DaemonOK(e) /\ DaemonOK(d)
    BY <1>5, Zenon
  <2> QED
    BY <1>1, <1>2, <1>3, <2>1, <2>2, <2>4 DEF DaemonOK
<1>8. ASSUME NEW c \in sc_Clients PROVE ClientOK(c)'
  <2>1. c \in Names!Tasks /\ c # d
    BY Zenon DEF Names!SchemesAssumption, Names!Tasks
  <2>2. UsesNumber(c)' => UsesNumber(c) /\ sc_task[c].id # id
    BY <1>1, <1>2, <1>5 DEF UsesNumber, DaemonOK, NameReserved
  <2>3. ClientOK(c)
    BY <1>5, Zenon
  <2> QED
    BY <1>1, <1>3, <2>2, <2>3 DEF ClientOK
<1>9. NamesOK'
  <2>1. \A e \in sc_Daemons : sc_pc[e] = "reserved" => sc_pc'[e] = "reserved" \/ sc_task[e].id = id
    BY <1>1, <1>2
  <2>2. \A i \in NumbersInUse : i \in NumbersInUse'
    BY <1>1, <1>3, <2>1, Zenon DEF NumbersInUse
  <2> QED
    BY <1>1, <1>5, <2>2, Zenon DEF NamesOK
<1> QED
  BY <1>6, <1>7, <1>8, <1>9, Zenon

\* The begin of the service of a daemon preserves SchemesInv.
LEMMA SchemeServeKeeps ==
    ASSUME Names!SchemesAssumption, SchemesInv, NEW d \in sc_Daemons,
           Names!InsertHandle(d) \/ Names!Close(d)
    PROVE  SchemesInv'
<1>1. /\ sc_pc' = [sc_pc EXCEPT ![d] = sc_pc'[d]] /\ OwnsNumber(d) /\ OwnsNumber(d)'
      /\ UNCHANGED <<sc_map, sc_names, sc_next_ns, sc_next_id, sc_task, sc_wrapped, sc_panicked>>
  BY DEF Names!InsertHandle, Names!Close, OwnsNumber, SchemesInv, SchemesTypes
<1>2. /\ \A t \in Names!Tasks : NameReserved(t)' = NameReserved(t) /\ OwnsNumber(t)' = OwnsNumber(t)
      /\ \A t \in Names!Tasks \ {d} : UsesNumber(t)' = UsesNumber(t)
  BY <1>1 DEF NameReserved, OwnsNumber, UsesNumber, SchemesInv, SchemesTypes
<1>3. SchemesTypes'
  <2>1. sc_pc' = [u \in Names!Tasks |-> sc_pc'[u]]
    BY <1>1 DEF SchemesInv, SchemesTypes
  <2> QED
    BY <1>1, Zenon DEF SchemesInv, SchemesTypes
<1>4. \A e \in sc_Daemons : DaemonOK(e) => DaemonOK(e)'
  BY <1>1, <1>2, Zenon DEF DaemonOK, Names!Tasks
<1>5. \A c \in sc_Clients : ClientOK(c) => ClientOK(c)'
  BY <1>1, <1>2, Zenon DEF ClientOK, Names!Tasks, Names!SchemesAssumption
<1>6. \A e \in sc_Daemons : sc_pc[e] = "reserved" => sc_pc'[e] = "reserved"
  BY <1>2, Zenon DEF NameReserved, Names!Tasks
<1>7. NamesOK => NamesOK'
  <2>1. \A i \in NumbersInUse : i \in NumbersInUse'
    BY <1>1, <1>6, Zenon DEF NumbersInUse
  <2> QED
    BY <1>1, <2>1, Zenon DEF NamesOK
<1> QED
  BY <1>1, <1>3, <1>4, <1>5, <1>7, Zenon DEF SchemesInv

\* The removal of a scheme and of its names preserves SchemesInv.
LEMMA SchemeRemoveKeeps ==
    ASSUME Names!SchemesAssumption, SchemesInv, NEW d \in sc_Daemons, Names!remove(d)
    PROVE  SchemesInv'
<1> DEFINE id == sc_task[d].id
<1>1. /\ sc_pc[d] = "close" /\ sc_pc' = [sc_pc EXCEPT ![d] = "idle"] /\ sc_task' = [sc_task EXCEPT ![d] = Names!NoTask]
      /\ sc_panicked' = (sc_panicked \/ id \notin DOMAIN sc_map)
      /\ sc_map' = [i \in DOMAIN sc_map \ {id} |-> sc_map[i]]
      /\ sc_names' = [ns \in DOMAIN sc_names |-> [n \in {m \in DOMAIN sc_names[ns] : sc_names[ns][m] # id} |-> sc_names[ns][n]]]
      /\ UNCHANGED <<sc_next_ns, sc_next_id, sc_wrapped>>
  BY Zenon DEF Names!remove, Names!Restrict
<1>2. d \in Names!Tasks /\ id \in Nat /\ sc_task[d].id = id
  BY Zenon DEF Names!Tasks, SchemesInv, SchemesTypes
<1> HIDE DEF id
<1>3. DOMAIN sc_map' = DOMAIN sc_map \ {id} /\ \A i \in DOMAIN sc_map' : sc_map'[i] = sc_map[i]
  BY <1>1
<1>4. SchemesTypes'
  <2>1. IsFiniteSet(DOMAIN sc_map') /\ DOMAIN sc_map' \subseteq Nat
    BY <1>3, FS_Subset, Zenon DEF SchemesInv, SchemesTypes
  <2>2. Names!NoTask.id \in Nat
    BY DEF Names!NoTask
  <2>3. SchemesTypes /\ sc_next_id' \in Nat /\ DOMAIN sc_names' = DOMAIN sc_names
    BY <1>1 DEF SchemesInv, SchemesTypes
  <2> QED
    BY <1>1, <1>2, <2>1, <2>2, <2>3, SchemeTypesKept, Zenon
<1> SUFFICES ASSUME ~sc_wrapped'
             PROVE  (/\ ~sc_panicked /\ Names!Event \in DOMAIN sc_map
                     /\ \A i \in DOMAIN sc_map : i < sc_next_id
                     /\ \A e \in sc_Daemons : DaemonOK(e)
                     /\ \A c \in sc_Clients : ClientOK(c)
                     /\ NamesOK)'
  BY <1>4, Zenon DEF SchemesInv
<1>5. /\ ~sc_wrapped /\ ~sc_panicked /\ id \in DOMAIN sc_map /\ Names!Event \in DOMAIN sc_map /\ Names!Event # id
      /\ (\A i \in DOMAIN sc_map : i < sc_next_id) /\ (\A e \in sc_Daemons : DaemonOK(e))
      /\ (\A c \in sc_Clients : ClientOK(c)) /\ NamesOK
  BY <1>1, <1>2, Zenon DEF SchemesInv, DaemonOK, OwnsNumber
<1>6. ~sc_panicked' /\ Names!Event \in DOMAIN sc_map' /\ \A i \in DOMAIN sc_map' : i < sc_next_id'
  BY <1>1, <1>5, Zenon
<1>7. /\ OwnsNumber(d) /\ ~OwnsNumber(d)' /\ ~NameReserved(d)'
      /\ \A t \in Names!Tasks \ {d} : /\ NameReserved(t)' = NameReserved(t) /\ OwnsNumber(t)' = OwnsNumber(t) /\ UsesNumber(t)' = UsesNumber(t)
                                      /\ sc_task'[t] = sc_task[t]
  BY <1>1, <1>2 DEF SchemesInv, SchemesTypes, NameReserved, OwnsNumber, UsesNumber
<1>8. ASSUME NEW e \in sc_Daemons PROVE DaemonOK(e)'
  <2>1. \A t \in sc_Daemons \cup sc_Clients : t \in Names!Tasks
    BY Zenon DEF Names!Tasks
  <2>2. \A c \in sc_Clients : c # d
    BY Zenon DEF Names!SchemesAssumption
  <2>3. DaemonOK(e) /\ DaemonOK(d)
    BY <1>5, Zenon
  <2> QED
    BY <1>1, <1>2, <1>7, <2>1, <2>2, <2>3 DEF DaemonOK
<1>9. ASSUME NEW c \in sc_Clients PROVE ClientOK(c)'
  <2>1. c \in Names!Tasks /\ c # d /\ ClientOK(c)
    BY <1>5, Zenon DEF Names!SchemesAssumption, Names!Tasks
  <2> QED
    BY <1>1, <1>7, <2>1 DEF ClientOK
<1>10. NamesOK'
  <2>1. \A e \in sc_Daemons : sc_pc[e] = "reserved" => e # d /\ sc_pc'[e] = "reserved" /\ sc_task'[e].id = sc_task[e].id
    BY <1>1
  <2>2. \A i \in NumbersInUse : i # id => i \in NumbersInUse'
    BY <1>3, <2>1, Zenon DEF NumbersInUse
  <2>3. ASSUME NEW ns \in DOMAIN sc_names', NEW n \in DOMAIN sc_names'[ns]
        PROVE  sc_names'[ns][n] \in NumbersInUse'
    <3>1. ns \in DOMAIN sc_names /\ n \in DOMAIN sc_names[ns] /\ sc_names'[ns][n] = sc_names[ns][n] /\ sc_names[ns][n] # id
      BY <1>1
    <3> QED
      BY <1>5, <2>2, <3>1, Zenon DEF NamesOK
  <2> QED
    BY <2>3, Zenon DEF NamesOK
<1> QED
  BY <1>6, <1>8, <1>9, <1>10, Zenon

\* make_ns preserves SchemesInv.
LEMMA SchemeMakeNsKeeps ==
    ASSUME Names!SchemesAssumption, SchemesInv, NEW from \in 0 .. sc_next_ns - 1, NEW wanted,
           Names!make_ns(from, wanted)
    PROVE  SchemesInv'
<1> DEFINE a == Names!Allocated
           copied == {n \in wanted \ {"", "event"} : Names!get_name(from, n) # {}}
           given == [n \in copied |-> sc_names[from][n]]
<1>1. /\ a \in Nat /\ a \notin DOMAIN sc_map
      /\ sc_next_id < sc_SCHEME_MAX_SCHEMES => a >= sc_next_id
  BY AllocatedIsFree, Zenon
<1>2. /\ sc_map' = Names!Insert(sc_map, a, Names!Root(sc_next_ns)) /\ sc_next_ns' = sc_next_ns + 1
      /\ sc_names' = Names!Insert(sc_names, sc_next_ns, Names!Common(given, a))
      /\ sc_next_id' = a + 1 /\ sc_wrapped' = (sc_wrapped \/ sc_next_id >= sc_SCHEME_MAX_SCHEMES)
      /\ UNCHANGED <<sc_pc, sc_task, sc_panicked>>
  BY Zenon DEF Names!make_ns, Names!Wraps
<1>3. \A n \in DOMAIN given : given[n] \in DOMAIN sc_map
  BY DEF Names!get_name
<1> HIDE DEF a, copied, given
<1>4. DOMAIN sc_map' = DOMAIN sc_map \cup {a} /\ \A i \in DOMAIN sc_map : sc_map'[i] = sc_map[i]
  BY <1>1, <1>2 DEF Names!Insert
<1>5. SchemesTypes'
  <2>1. IsFiniteSet(DOMAIN sc_map') /\ DOMAIN sc_map' \subseteq Nat
    <3>1. IsFiniteSet(DOMAIN sc_map \cup {a})
      BY FS_AddElement, Zenon DEF SchemesInv, SchemesTypes
    <3> QED
      BY <1>1, <1>4, <3>1 DEF SchemesInv, SchemesTypes
  <2>2. sc_wrapped' \in BOOLEAN
    BY <1>2, Zenon
  <2>3. sc_next_ns' \in Nat \ {0} /\ DOMAIN sc_names' = 0 .. sc_next_ns' - 1
    BY <1>2 DEF SchemesInv, SchemesTypes, Names!Insert
  <2>4. sc_next_id' \in Nat
    BY <1>1, <1>2
  <2> QED
    BY <1>2, <2>1, <2>3, <2>4, Zenon DEF SchemesInv, SchemesTypes
<1> SUFFICES ASSUME ~sc_wrapped'
             PROVE  (/\ ~sc_panicked /\ Names!Event \in DOMAIN sc_map
                     /\ \A i \in DOMAIN sc_map : i < sc_next_id
                     /\ \A e \in sc_Daemons : DaemonOK(e)
                     /\ \A c \in sc_Clients : ClientOK(c)
                     /\ NamesOK)'
  BY <1>5, Zenon DEF SchemesInv
<1>6. ~sc_wrapped /\ a >= sc_next_id /\ sc_next_id \in Nat
  <2>1. ~sc_wrapped /\ ~(sc_next_id >= sc_SCHEME_MAX_SCHEMES)
    BY <1>2, Zenon
  <2> QED
    BY <1>1, <2>1 DEF Names!SchemesAssumption, SchemesInv, SchemesTypes
<1>7. ~sc_panicked' /\ Names!Event \in DOMAIN sc_map' /\ \A i \in DOMAIN sc_map' : i < sc_next_id'
  BY <1>1, <1>2, <1>4, <1>6 DEF SchemesInv, SchemesTypes
<1>8. ASSUME NEW e \in sc_Daemons PROVE DaemonOK(e)'
  <2>1. DaemonOK(e) /\ sc_task[e].id \in Nat
    BY <1>6, Zenon DEF SchemesInv, SchemesTypes, Names!Tasks
  <2> QED
    BY <1>1, <1>2, <1>4, <1>6, <2>1 DEF DaemonOK, NameReserved, OwnsNumber, UsesNumber
<1>9. ASSUME NEW c \in sc_Clients PROVE ClientOK(c)'
  <2>1. ClientOK(c) /\ sc_task[c].id \in Nat
    BY <1>6, Zenon DEF SchemesInv, SchemesTypes, Names!Tasks
  <2> QED
    BY <1>1, <1>2, <1>4, <1>6, <2>1 DEF ClientOK, UsesNumber
<1>10. NamesOK'
  <2>1. a \in NumbersInUse' /\ \A i \in NumbersInUse : i \in NumbersInUse'
    BY <1>2, <1>4, Zenon DEF NumbersInUse
  <2>2. Names!Event \in NumbersInUse'
    BY <1>7, Zenon DEF NumbersInUse
  <2>3. ASSUME NEW ns \in DOMAIN sc_names', NEW n \in DOMAIN sc_names'[ns]
        PROVE  sc_names'[ns][n] \in NumbersInUse'
    <3>1. CASE ns # sc_next_ns
      <4>1. ns \in DOMAIN sc_names /\ sc_names'[ns] = sc_names[ns]
        BY <1>2, <3>1 DEF Names!Insert
      <4> QED
        BY <1>6, <2>1, <4>1, Zenon DEF SchemesInv, NamesOK
    <3>2. CASE ns = sc_next_ns
      <4>1. sc_names'[ns] = Names!Common(given, a)
        BY <1>2, <3>2 DEF Names!Insert
      <4>2. sc_names'[ns][n] \in {a, Names!Event} \/ (n \in DOMAIN given /\ sc_names'[ns][n] = given[n])
        BY <4>1 DEF Names!Common, Names!Insert
      <4> QED
        BY <1>3, <2>1, <2>2, <4>2, Zenon DEF NumbersInUse
    <3> QED
      BY <3>1, <3>2
  <2> QED
    BY <2>3, Zenon DEF NamesOK
<1> QED
  BY <1>7, <1>8, <1>9, <1>10, Zenon

\* Steps of a client that only move that client preserve SchemesInv.
LEMMA SchemeClientKept ==
    ASSUME Names!SchemesAssumption, SchemesInv, NEW c \in sc_Clients, NEW place \in {"idle", "open",
           "file"}, NEW x,
           x.id \in Nat,
           place # "idle" => \/ x.id \in DOMAIN sc_map /\ sc_map[x.id] = x.scheme
                             \/ UsesNumber(c) /\ x = sc_task[c],
           sc_pc' = [sc_pc EXCEPT ![c] = place], sc_task' = [sc_task EXCEPT ![c] = x],
           UNCHANGED <<sc_map, sc_names, sc_next_ns, sc_next_id, sc_wrapped, sc_panicked>>
    PROVE  SchemesInv'
<1>1. c \in Names!Tasks /\ \A d \in sc_Daemons : d \in Names!Tasks /\ d # c
  BY Zenon DEF Names!Tasks, Names!SchemesAssumption
<1>2. SchemesTypes'
  BY Zenon DEF SchemesInv, SchemesTypes
<1>3. /\ sc_pc'[c] = place /\ sc_task'[c] = x
      /\ \A t \in Names!Tasks \ {c} : /\ NameReserved(t)' = NameReserved(t) /\ OwnsNumber(t)' = OwnsNumber(t) /\ UsesNumber(t)' = UsesNumber(t)
                                      /\ sc_task'[t] = sc_task[t]
  BY <1>1 DEF SchemesInv, SchemesTypes, NameReserved, OwnsNumber, UsesNumber
<1> SUFFICES ASSUME ~sc_wrapped
             PROVE  /\ \A e \in sc_Daemons : DaemonOK(e)'
                    /\ \A e \in sc_Clients : ClientOK(e)'
                    /\ NamesOK'
  BY <1>2, Zenon DEF SchemesInv
<1>4. ASSUME NEW e \in sc_Daemons PROVE DaemonOK(e)'
  <2>1. \A t \in sc_Clients : t \in Names!Tasks
    BY Zenon DEF Names!Tasks
  <2>2. NameReserved(e) /\ UsesNumber(c)' => x.id # sc_task[e].id
    BY <1>3, Zenon DEF SchemesInv, DaemonOK, UsesNumber
  <2>3. DaemonOK(e)
    BY Zenon DEF SchemesInv
  <2> QED
    BY <1>1, <1>3, <2>1, <2>2, <2>3, Zenon DEF DaemonOK
<1>5. ASSUME NEW e \in sc_Clients PROVE ClientOK(e)'
  <2>1. ClientOK(e) /\ ClientOK(c) /\ e \in Names!Tasks /\ \A i \in DOMAIN sc_map : i < sc_next_id
    BY Zenon DEF SchemesInv, Names!Tasks
  <2>2. CASE e = c
    BY <1>3, <2>1, Zenon DEF ClientOK, UsesNumber
  <2>3. CASE e # c
    BY <1>3, <2>1, <2>3, Zenon DEF ClientOK
  <2> QED
    BY <2>2, <2>3
<1>6. NamesOK'
  <2>1. \A e \in sc_Daemons : sc_pc[e] = "reserved" => sc_pc'[e] = "reserved" /\ sc_task'[e].id = sc_task[e].id
    BY <1>1, <1>3, Zenon DEF NameReserved
  <2>2. \A i \in NumbersInUse : i \in NumbersInUse'
    BY <2>1, Zenon DEF NumbersInUse
  <2> QED
    BY <2>2, Zenon DEF NamesOK, SchemesInv
<1> QED
  BY <1>4, <1>5, <1>6, Zenon

\* The lookup of a name in open() preserves SchemesInv.
LEMMA SchemeLookupKeeps ==
    ASSUME Names!SchemesAssumption, SchemesInv, NEW c \in sc_Clients, NEW ns, NEW n, Names!Lookup(c, ns, n)
    PROVE  SchemesInv'
<1>1. PICK id \in Names!get_name(ns, n) :
        sc_task' = [sc_task EXCEPT ![c] = [ns |-> ns, name |-> n, id |-> id, scheme |-> sc_map[id]]]
  BY Zenon DEF Names!Lookup
<1>2. id \in DOMAIN sc_map /\ id \in Nat
  BY DEF Names!get_name, SchemesInv, SchemesTypes
<1> DEFINE x == [ns |-> ns, name |-> n, id |-> id, scheme |-> sc_map[id]]
<1>3. x.id = id /\ x.scheme = sc_map[id] /\ sc_task' = [sc_task EXCEPT ![c] = x]
  BY <1>1
<1> HIDE DEF x
<1> QED
  BY <1>2, <1>3, SchemeClientKept, Zenon DEF Names!Lookup

\* The second half of open(), with the number looked up before, preserves SchemesInv.
LEMMA SchemeOpenedKeeps ==
    ASSUME Names!SchemesAssumption, SchemesInv, NEW c \in sc_Clients, Names!Opened(c) \/ Names!CloseFile(c)
    PROVE  SchemesInv'
<1>1. c \in Names!Tasks /\ sc_task[c].id \in Nat /\ Names!NoTask.id \in Nat /\ sc_task = [sc_task EXCEPT ![c] = sc_task[c]]
  BY DEF Names!Tasks, SchemesInv, SchemesTypes, Names!NoTask
<1>2. CASE Names!Opened(c) /\ Names!Alive(sc_task[c].scheme)
  BY <1>1, <1>2, SchemeClientKept, Zenon DEF Names!Opened, UsesNumber
<1>3. CASE Names!Opened(c) /\ ~Names!Alive(sc_task[c].scheme)
  BY <1>1, <1>3, SchemeClientKept, Zenon DEF Names!Opened
<1>4. CASE Names!CloseFile(c)
  BY <1>1, <1>4, SchemeClientKept, Zenon DEF Names!CloseFile
<1> QED
  BY <1>2, <1>3, <1>4, Zenon

\* The kernel starts with its own schemes under fixed numbers.
LEMMA SchemesInitially == ASSUME Names!SchemesAssumption, Names!Init PROVE SchemesInv
<1>1. DOMAIN sc_map = {Names!Event, Names!Irq, sc_MAX_GLOBAL_SCHEMES}
  BY DEF Names!Init, Names!Insert
<1>2. IsFiniteSet(DOMAIN sc_map)
  <2>1. IsFiniteSet({Names!Event} \cup {Names!Irq})
    BY FS_AddElement, FS_Singleton, Zenon
  <2>2. IsFiniteSet(({Names!Event} \cup {Names!Irq}) \cup {sc_MAX_GLOBAL_SCHEMES})
    BY <2>1, FS_AddElement, Zenon
  <2>3. DOMAIN sc_map = ({Names!Event} \cup {Names!Irq}) \cup {sc_MAX_GLOBAL_SCHEMES}
    BY <1>1
  <2> QED
    BY <2>2, <2>3, Zenon
<1>3. SchemesTypes
  <2>1. /\ sc_next_id \in Nat /\ sc_next_ns = 2 /\ DOMAIN sc_map \subseteq Nat
        /\ DOMAIN sc_names = {0, 1}
    BY <1>1 DEF Names!SchemesAssumption, Names!Init, Names!Event, Names!Irq
  <2>2. 0 .. sc_next_ns - 1 = {0, 1}
    BY <2>1
  <2>3. sc_pc = [t \in Names!Tasks |-> sc_pc[t]] /\ sc_task = [t \in Names!Tasks |-> sc_task[t]] /\ \A t \in Names!Tasks : sc_task[t].id \in Nat
    BY DEF Names!Init, Names!NoTask
  <2>4. sc_wrapped \in BOOLEAN
    BY Zenon DEF Names!Init
  <2> QED
    BY <1>2, <2>1, <2>3, <2>4 DEF SchemesTypes
<1>4. ~sc_panicked /\ Names!Event \in DOMAIN sc_map /\ \A i \in DOMAIN sc_map : i < sc_next_id
  BY <1>1 DEF Names!SchemesAssumption, Names!Init, Names!Event, Names!Irq
<1>5. \A t \in Names!Tasks : ~NameReserved(t) /\ ~OwnsNumber(t) /\ ~UsesNumber(t)
  BY DEF Names!Init, NameReserved, OwnsNumber, UsesNumber
<1>6. (\A d \in sc_Daemons : DaemonOK(d)) /\ (\A c \in sc_Clients : ClientOK(c))
  BY <1>5, Zenon DEF DaemonOK, ClientOK, Names!Tasks
<1>7. ASSUME NEW ns \in DOMAIN sc_names, NEW n \in DOMAIN sc_names[ns]
      PROVE  sc_names[ns][n] \in DOMAIN sc_map
  BY <1>1 DEF Names!Init, Names!Common, Names!Insert
<1> QED
  BY <1>3, <1>4, <1>6, <1>7, Zenon DEF SchemesInv, NamesOK, NumbersInUse

\* Every step of daemons and clients preserves SchemesInv.
LEMMA SchemesNext == ASSUME Names!SchemesAssumption, SchemesInv, [Names!Next]_Names!vars PROVE SchemesInv'
<1>1. ASSUME NEW d \in sc_Daemons,
             \/ \E ns \in 1 .. sc_next_ns - 1, n \in sc_Names : Names!Reserve(d, ns, n)
             \/ Names!Complete(d) \/ Names!InsertHandle(d) \/ Names!Close(d) \/ Names!remove(d)
      PROVE  SchemesInv'
  BY <1>1, SchemeReserveKeeps, SchemeCompleteKeeps, SchemeServeKeeps, SchemeRemoveKeeps, Zenon
<1>2. ASSUME NEW from \in 0 .. sc_next_ns - 1, NEW wanted, Names!make_ns(from, wanted) PROVE SchemesInv'
  BY <1>2, SchemeMakeNsKeeps, Zenon
<1>3. ASSUME NEW c \in sc_Clients,
             \/ \E ns \in 1 .. sc_next_ns - 1, n \in sc_Names : Names!Lookup(c, ns, n)
             \/ Names!Opened(c) \/ Names!CloseFile(c)
      PROVE  SchemesInv'
  BY <1>3, SchemeLookupKeeps, SchemeOpenedKeeps, Zenon
<1>4. CASE UNCHANGED Names!vars
  <2>1. SchemesTypes'
    BY <1>4, Zenon DEF Names!vars, SchemesInv, SchemesTypes
  <2>4. NamesOK => NamesOK'
    <3>1. NumbersInUse' = NumbersInUse
      BY <1>4, SMT DEF Names!vars, NumbersInUse
    <3> QED
      BY <1>4, <3>1, Zenon DEF Names!vars, NamesOK
  <2>2. \A d \in sc_Daemons : DaemonOK(d) => DaemonOK(d)'
    BY <1>4, Zenon DEF Names!vars, DaemonOK, NameReserved, OwnsNumber, UsesNumber
  <2>3. \A c \in sc_Clients : ClientOK(c) => ClientOK(c)'
    BY <1>4, Zenon DEF Names!vars, ClientOK, UsesNumber
  <2> QED
    BY <1>4, <2>1, <2>2, <2>3, <2>4, Zenon DEF Names!vars, SchemesInv
<1> QED
  BY <1>1, <1>2, <1>3, <1>4, Zenon DEF Names!Next

\* SchemesInv holds for any daemons, clients and size of the table.
THEOREM SchemesInvariant == ASSUME Names!SchemesAssumption PROVE Names!Spec => []SchemesInv
  BY SchemesInitially, SchemesNext, PTL DEF Names!Spec

\* FilesReachOwner of Schemes: as long as numbers are not used again, an open file stands
\* for the scheme it was opened at, or for one that is gone.
THEOREM FilesReachOwnerAlways == ASSUME Names!SchemesAssumption PROVE Names!Spec => []Names!FilesReachOwner
<1>1. SchemesInv => Names!FilesReachOwner
  BY Zenon DEF SchemesInv, ClientOK, UsesNumber, Names!FilesReachOwner
<1> QED
  BY <1>1, SchemesInvariant, PTL

\* NamesResolve of Schemes, as long as the numbers have not wrapped around: a name leads to
\* a scheme in the table, or to the one that is being registered under it.
THEOREM NamesResolveAlways ==
    ASSUME Names!SchemesAssumption
    PROVE  Names!Spec => [](~sc_wrapped => Names!NamesResolve)
<1>1. SchemesInv => (~sc_wrapped => Names!NamesResolve)
  BY Zenon DEF SchemesInv, NamesOK, NumbersInUse, Names!NamesResolve
<1> QED
  BY <1>1, SchemesInvariant, PTL
=============================================================================
