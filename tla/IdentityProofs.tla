--------------------------- MODULE IdentityProofs ---------------------------
(***************************************************************************)
(* For any readers, fingerprints and configurable embedders: what a query    *)
(* was not refused it ranks in full, whoever writes meanwhile; and with one  *)
(* writing process the store holds one identity, however its configuration  *)
(* is edited between restarts.                                              *)
(***************************************************************************)
EXTENDS StoreIdentity, FiniteSetTheorems, TLAPS

(* One process ingests: the worker, while nobody runs the curator's command  *)
(* line.  With two the statement is false: a batch of one may begin before  *)
(* the other has stored the first row.                                      *)
OneWriter == \A v, w \in Writers : v = w

(* What the check found is still there at the query, as it was: rows are     *)
(* inserted or ignored, never replaced.                                     *)
QueryInv ==
  \A p \in Processes :
    /\ phase[p] = "batch" => p \in Writers
    /\ phase[p] = "query" =>
         \A f \in checked[p] : f \in Stored /\ SameSpace(row[f], embedder[p])

(* In a batch, every row is of the writer's own identity. *)
BatchInv ==
  \A p \in Processes : phase[p] = "batch" => \A f \in Stored : row[f] = embedder[p]

(* One identity, said of the rows. *)
SameRows == \A f, g \in Stored : row[f] = row[g]

QueriesInv == TypeOK /\ QueryInv /\ NothingSkipped

-----------------------------------------------------------------------------

LEMMA InitQueriesInv == Init => QueriesInv
  BY DEF Init, QueriesInv, TypeOK, QueryInv, NothingSkipped, Processes

LEMMA IdentitiesType ==
  ASSUME TypeOK
  PROVE  /\ Identities \subseteq Embedders \cup {Unknown}
         /\ Stored # {} => (CHOOSE j \in Identities : TRUE) \in Identities
  BY DEF TypeOK, Identities, Stored

LEMMA NextQueriesInv == QueriesInv /\ [Next]_vars => QueriesInv'
  <1>. SUFFICES ASSUME QueriesInv, [Next]_vars
                PROVE  QueriesInv'
    OBVIOUS
  <1>. USE DEF QueriesInv, TypeOK, QueryInv, NothingSkipped, Processes, Stored, SameSpace
  <1>1. ASSUME NEW p \in Processes, NEW i \in Embedders, Open(p, i)
        PROVE  QueriesInv'
    <2>1. cached' \in [Processes -> Embedders \cup {Unknown, NoIdentity}]
      BY <1>1, IdentitiesType DEF Open
    <2>. QED
      BY <1>1, <2>1 DEF Open
  <1>2. ASSUME NEW p \in Processes, Close(p)
        PROVE  QueriesInv'
    BY <1>2 DEF Close
  <1>3. ASSUME NEW p \in Processes, Check(p)
        PROVE  QueriesInv'
    BY <1>3 DEF Check, Compatible
  <1>4. ASSUME NEW p \in Processes, NEW f \in Fingerprints, Add(p, f)
        PROVE  QueriesInv'
    BY <1>4, IdentityAssumption DEF Add
  <1>5. ASSUME NEW p \in Processes, EndBatch(p)
        PROVE  QueriesInv'
    BY <1>5 DEF EndBatch
  <1>6. ASSUME NEW p \in Processes, Query(p)
        PROVE  QueriesInv'
    BY <1>6 DEF Query
  <1>7. CASE UNCHANGED vars
    BY <1>7 DEF vars
  <1>. QED
    BY <1>1, <1>2, <1>3, <1>4, <1>5, <1>6, <1>7 DEF Next

-----------------------------------------------------------------------------
(* One writer *)

LEMMA InitSameRows == Init => BatchInv /\ SameRows
  BY DEF Init, BatchInv, SameRows, Processes, Stored

(* Only a batch adds rows, only one process has batches, and it has compared *)
(* every row with its own configuration before the batch.                   *)
LEMMA NextSameRows ==
  ASSUME OneWriter, QueriesInv, BatchInv, SameRows, [Next]_vars
  PROVE  BatchInv' /\ SameRows'
  <1>. USE DEF QueriesInv, TypeOK, QueryInv, BatchInv, SameRows, Processes, Stored
  <1>1. ASSUME NEW p \in Processes, NEW f \in Fingerprints, Add(p, f)
        PROVE  BatchInv' /\ SameRows'
    <2>1. p \in Writers /\ \A q \in Processes : phase[q] = "batch" => q = p
      BY <1>1 DEF Add, OneWriter
    <2>2. /\ row' = [row EXCEPT ![f] = embedder[p]]
          /\ UNCHANGED <<phase, embedder>>
      BY <1>1 DEF Add
    <2>3. \A g \in Fingerprints : row'[g] # NoIdentity => row'[g] = embedder[p]
      BY <1>1, <2>2 DEF Add
    <2>. QED
      BY <2>1, <2>2, <2>3
  <1>2. ASSUME NEW p \in Processes, Check(p)
        PROVE  BatchInv' /\ SameRows'
    BY <1>2 DEF Check, Compatible, SameSpace
  <1>3. ASSUME NEW p \in Processes,
               (\E i \in Embedders : Open(p, i)) \/ Close(p) \/ EndBatch(p) \/ Query(p)
        PROVE  BatchInv' /\ SameRows'
    BY <1>3 DEF Open, Close, EndBatch, Query
  <1>4. CASE UNCHANGED vars
    BY <1>4 DEF vars
  <1>. QED
    BY <1>1, <1>2, <1>3, <1>4 DEF Next

LEMMA SameRowsOneIdentity == SameRows => OneIdentity
  <1>. SUFFICES ASSUME SameRows PROVE OneIdentity
    OBVIOUS
  <1>1. CASE Identities = {}
    BY <1>1, FS_EmptySet DEF OneIdentity
  <1>2. CASE Identities # {}
    <2>1. PICK i : i \in Identities
      BY <1>2
    <2>2. Identities = {i}
      BY <2>1 DEF Identities, SameRows
    <2>. QED
      BY <2>2, FS_Singleton DEF OneIdentity
  <1>. QED
    BY <1>1, <1>2

-----------------------------------------------------------------------------
(* Theorems *)

(* VectorStore: what check_compatibility() found is there, unchanged, until   *)
(* query() has ranked it, for any processes and embedders.                   *)
THEOREM QueriesSafety == Spec => []QueriesInv
  BY InitQueriesInv, NextQueriesInv, PTL DEF Spec

(* Every variable stays in its type. *)
THEOREM TypeCorrect == Spec => []TypeOK
  <1>1. QueriesInv => TypeOK
    BY DEF QueriesInv
  <1>. QED
    BY <1>1, QueriesSafety, PTL

(* check_compatibility() before query(): whatever any number of processes    *)
(* write between the two, an answer ranks every row that was checked.       *)
THEOREM NothingSkippedAlways == Spec => []NothingSkipped
  <1>1. QueriesInv => NothingSkipped
    BY DEF QueriesInv
  <1>. QED
    BY <1>1, QueriesSafety, PTL

(* VectorStore.add() and the check before a batch: one writing process never *)
(* mixes two identities in the store.                                       *)
THEOREM OneIdentityAlways ==
  ASSUME OneWriter
  PROVE  Spec => []OneIdentity
  <1>1. QueriesInv /\ BatchInv /\ SameRows /\ [Next]_vars => BatchInv' /\ SameRows'
    BY NextSameRows
  <1>2. Spec => [](BatchInv /\ SameRows)
    BY <1>1, InitSameRows, QueriesSafety, PTL DEF Spec
  <1>. QED
    BY <1>2, SameRowsOneIdentity, PTL
=============================================================================
