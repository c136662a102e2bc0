--------------------------- MODULE StoreIdentity ---------------------------
(***************************************************************************)
(* The embedding identity of the vector store.  Every row carries the       *)
(* identity of the embedder that made its vector; vectors of two identities *)
(* cannot be compared.  The identity of a process comes from its            *)
(* configuration and changes when it is restarted after an edit of          *)
(* cortex_rules.json.  Three checks stand against a mixed store: the scan    *)
(* at open, the comparison with every row before a batch or a query, and    *)
(* the comparison in add() with the identity remembered since open.          *)
(***************************************************************************)
EXTENDS Integers, FiniteSets

CONSTANTS
  Writers,     \* processes that ingest: the worker, the curator's command line
  Readers,     \* processes that answer queries: the API and the MCP servers
  Fingerprints,  \* the UNIQUE fingerprints of the rows
  Embedders,   \* identities <<backend, model, dim>> that can be configured
  NoIdentity,  \* of an empty store or an absent row
  Unknown      \* of a row from before embed_meta

ASSUME IdentityAssumption ==
  /\ NoIdentity \notin Embedders \cup {Unknown}
  /\ Unknown \notin Embedders

VARIABLES
  row,        \* fingerprint -> the identity in its embed_meta, or NoIdentity
  phase,      \* process -> closed, open, in a batch, between check and query, or after it
  embedder,   \* process -> the identity it is configured with
  cached,     \* process -> _store_identity
  checked,    \* history: process -> the rows there were at its last check
  hits        \* process -> what its last query ranked

vars == <<row, phase, embedder, cached, checked, hits>>

Processes == Writers \cup Readers
Stored == {f \in Fingerprints : row[f] # NoIdentity}
Identities == {row[f] : f \in Stored}

TypeOK ==
  /\ row \in [Fingerprints -> Embedders \cup {Unknown, NoIdentity}]
  /\ phase \in [Processes -> {"closed", "open", "batch", "query", "answered"}]
  /\ embedder \in [Processes -> Embedders]
  /\ cached \in [Processes -> Embedders \cup {Unknown, NoIdentity}]
  /\ checked \in [Processes -> SUBSET Fingerprints]
  /\ hits \in [Processes -> SUBSET Fingerprints]

(* The store may be an old one, whose rows have no embed_meta. *)
Init ==
  /\ row \in [Fingerprints -> {Unknown, NoIdentity}]
  /\ phase = [p \in Processes |-> "closed"]
  /\ embedder \in [Processes -> Embedders]
  /\ cached = [p \in Processes |-> NoIdentity]
  /\ checked = [p \in Processes |-> {}]
  /\ hits = [p \in Processes |-> {}]

-----------------------------------------------------------------------------

(* Mutant: only the dimension is compared, as before v0.3. *)
SameSpace_DimOnly(i, j) ==
  IF i \in Embedders /\ j \in Embedders THEN i[3] = j[3] ELSE i = j

(* Backend, model and dimension have to be equal; an unknown identity       *)
(* equals only itself.                                                      *)
SameSpace(i, j) == i = j

Mixed == \E i, j \in Identities : ~SameSpace(i, j)

(* VectorStore(): _scan_identity() raises on a mixed store and the          *)
(* connection is closed again; else the identity found is remembered.       *)
Open(p, i) ==
  /\ phase[p] = "closed"
  /\ ~Mixed
  /\ phase' = [phase EXCEPT ![p] = "open"]
  /\ embedder' = [embedder EXCEPT ![p] = i]
  /\ cached' = [cached EXCEPT ![p] =
       IF Stored = {} THEN NoIdentity ELSE CHOOSE j \in Identities : TRUE]
  /\ UNCHANGED <<row, checked, hits>>

(* A process ends, at any point, and comes back with the configuration of   *)
(* that time.                                                               *)
Close(p) ==
  /\ phase[p] # "closed"
  /\ phase' = [phase EXCEPT ![p] = "closed"]
  /\ cached' = [cached EXCEPT ![p] = NoIdentity]
  /\ checked' = [checked EXCEPT ![p] = {}]
  /\ hits' = [hits EXCEPT ![p] = {}]
  /\ UNCHANGED <<row, embedder>>

(* Mutant: the remembered identity is trusted instead of the rows. *)
Compatible_Cached(p) == cached[p] = NoIdentity \/ SameSpace(cached[p], embedder[p])

(* check_compatibility(raise_on_mismatch=True) reads every row. *)
Compatible(p) == \A f \in Stored : SameSpace(row[f], embedder[p])

Check(p) ==
  /\ phase[p] \in {"open", "answered"}
  /\ Compatible(p)
  /\ phase' = [phase EXCEPT ![p] = IF p \in Writers THEN "batch" ELSE "query"]
  /\ checked' = [checked EXCEPT ![p] = Stored]
  /\ UNCHANGED <<row, embedder, cached, hits>>

(* add(): refuses what differs from the remembered identity, ignores a      *)
(* fingerprint that is there, and remembers the identity of what it wrote.  *)
Add(p, f) ==
  /\ phase[p] = "batch"
  /\ cached[p] = NoIdentity \/ SameSpace(cached[p], embedder[p])
  /\ row[f] = NoIdentity
  /\ row' = [row EXCEPT ![f] = embedder[p]]
  /\ cached' = [cached EXCEPT ![p] = embedder[p]]
  /\ UNCHANGED <<phase, embedder, checked, hits>>

EndBatch(p) ==
  /\ phase[p] = "batch"
  /\ phase' = [phase EXCEPT ![p] = "open"]
  /\ UNCHANGED <<row, embedder, cached, checked, hits>>

(* Mutant: the identities are returned, not the rows. *)
Query_Identities(p) ==
  /\ phase[p] = "query"
  /\ hits' = [hits EXCEPT ![p] = Identities]
  /\ phase' = [phase EXCEPT ![p] = "answered"]
  /\ UNCHANGED <<row, embedder, cached, checked>>

(* query() skips the rows of another identity. *)
Query(p) ==
  /\ phase[p] = "query"
  /\ hits' = [hits EXCEPT ![p] = {f \in Stored : SameSpace(row[f], embedder[p])}]
  /\ phase' = [phase EXCEPT ![p] = "answered"]
  /\ UNCHANGED <<row, embedder, cached, checked>>

Next ==
  \E p \in Processes :
    \/ \E i \in Embedders : Open(p, i)
    \/ Close(p) \/ Check(p) \/ EndBatch(p) \/ Query(p)
    \/ \E f \in Fingerprints : Add(p, f)

Spec == Init /\ [][Next]_vars

-----------------------------------------------------------------------------
(* Properties *)

(* The store never holds two identities, whatever the configuration does    *)
(* between restarts (ARCHITECTURE section 4: add() refuses any row whose     *)
(* identity differs from the store's established identity).  A legacy store   *)
(* thus stays as it is.                                                     *)
OneIdentity == Cardinality(Identities) <= 1

(* A retrieval that was not refused with 409 has ranked everything that was *)
(* stored when it began: nothing is silently skipped.                       *)
NothingSkipped ==
  \A p \in Readers : phase[p] = "answered" => checked[p] \subseteq hits[p]
=============================================================================
