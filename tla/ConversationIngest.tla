-------------------------- MODULE ConversationIngest --------------------------
(***************************************************************************)
(* Curator.ingest(): a conversation log is read at once, cut into segments, *)
(* and each is stored: knowledge as a row, experience as edges, or as a     *)
(* concept node when no relation is found in it.  The curator is a command  *)
(* of its own; it shares the stores with the worker, may read the export    *)
(* while it is being written, and when it dies half way its next run starts *)
(* from the first segment and relies on what the stores refuse.             *)
(*                                                                          *)
(* Every log here is the Hermes export, so the source, which the fingerprint *)
(* starts with, is always its basename.                                     *)
(***************************************************************************)
EXTENDS GraphStore, HermesExport

CONSTANTS
  Curators,      \* the writers of GraphStore that are curators
  SkipRoles,     \* curator.skip_roles
  Sentences,     \* text -> its sentences and code blocks
  Length,        \* of a sentence
  MinChars, MaxChars,
  Experience, Knowledge,  \* scores of a segment
  Margin,        \* curator.classification_margin
  Relations,     \* segment -> the triples found in it, as jobs of GraphStore
  Topic          \* segment -> the label of its concept node

ASSUME CuratorAssumption ==
  /\ Curators \subseteq Writers
  /\ MinChars \in Nat /\ MaxChars \in Nat \ {0}
  /\ \A t \in Texts : Sentences[t] \in Seq(DOMAIN Length)
  /\ \A s \in DOMAIN Length : Length[s] \in Nat \ {0}

VARIABLES
  input,      \* curator -> the messages that it read
  whole,      \* curator -> the snapshot of the export that it read whole, or {}
  place,      \* curator -> the next write of its input, or 0
  rows,       \* the segments that have a row in the knowledge table
  concepts,   \* the labels that have a concept node
  curated,    \* history: the messages read by runs that returned a report
  promised    \* history: the snapshots of complete files that those runs read

curatorVars == <<input, whole, place, rows, concepts, curated, promised>>
ciVars == <<vars, hermesVars, curatorVars>>

-----------------------------------------------------------------------------
(* From a message to its writes *)

(* How many segments are cut from a sentence: chunks of MaxChars, and what  *)
(* remains of it if that is not too short.                                  *)
Pieces(length) ==
  LET chunks == (length - 1) \div MaxChars
  IN CASE length < MinChars -> 0
       [] length >= MinChars /\ length - chunks * MaxChars >= MinChars -> chunks + 1
       [] length >= MinChars /\ length - chunks * MaxChars < MinChars -> chunks

(* The segments that there can be; in each, relations are looked for. *)
Segments == UNION {{s} \X (1..Pieces(Length[s])) : s \in DOMAIN Length}

ASSUME RelationsAssumption == Relations \in [Segments -> Seq(Jobs)]

(* segment_message() *)
SegmentsOf(text) ==
  Concat([k \in 1..Len(Sentences[text]) |->
            [n \in 1..Pieces(Length[Sentences[text][k]]) |-> <<Sentences[text][k], n>>]])

IsExperience(segment) == Experience[segment] > Knowledge[segment] + Margin

Row(segment) == [to |-> "rows", what |-> segment]
Concept(segment) == [to |-> "concepts", what |-> Topic[segment]]
Edge(j) == [to |-> "edges", what |-> j]

(* What the loop of ingest() writes for one segment. *)
WritesOfSegment(segment) ==
  CASE ~IsExperience(segment) -> <<Row(segment)>>
    [] IsExperience(segment) /\ Relations[segment] = << >> -> <<Concept(segment)>>
    [] IsExperience(segment) /\ Relations[segment] # << >> ->
         [k \in 1..Len(Relations[segment]) |-> Edge(Relations[segment][k])]

(* process_message() *)
WritesOf == [m \in {x \in Messages : CleanContent(x) # NoText} |->
  IF Role[m] \in SkipRoles THEN << >>
  ELSE LET segments == SegmentsOf(CleanContent(m))
       IN Concat([k \in 1..Len(segments) |-> WritesOfSegment(segments[k])])]

Writes(messages) == Concat([k \in 1..Len(messages) |-> WritesOf[messages[k]]])

CITypeOK ==
  /\ TypeOK /\ HermesTypeOK
  /\ input \in [Curators -> Seq(Messages)]
  /\ whole \in [Curators -> SUBSET Messages]
  /\ \A c \in Curators : place[c] \in 0..Len(Writes(input[c])) + 1
  /\ \A c \in Curators : pc[c] # "idle" => place[c] > 0
  /\ curated \subseteq Messages /\ promised \subseteq Messages

CIInit ==
  /\ Init /\ HermesInit
  /\ input = [c \in Curators |-> << >>]
  /\ whole = [c \in Curators |-> {}]
  /\ place = [c \in Curators |-> 0]
  /\ rows = {}
  /\ concepts = {}
  /\ curated = {}
  /\ promised = {}

-----------------------------------------------------------------------------
(* The curator *)

(* read_log(): whole lines are messages, a torn one is counted as malformed. *)
ReadLog(c) ==
  /\ place[c] = 0
  /\ exporting # "never"
  /\ input' = [input EXCEPT ![c] = SubSeq(Written[snapshot], 1, flushed)]
  /\ whole' = [whole EXCEPT ![c] = IF Complete THEN snapshot ELSE {}]
  /\ place' = [place EXCEPT ![c] = 1]
  /\ UNCHANGED <<vars, hermesVars, rows, concepts, curated, promised>>

AtWrite(c, table) ==
  /\ place[c] \in 1..Len(Writes(input[c]))
  /\ Writes(input[c])[place[c]].to = table

Current(c) == Writes(input[c])[place[c]].what

(* Mutant: a known segment means that the log was ingested before. *)
StoreRow_StopsAtDuplicate(c) ==
  /\ AtWrite(c, "rows")
  /\ rows' = rows \cup {Current(c)}
  /\ place' = [place EXCEPT ![c] = IF Current(c) \in rows THEN Len(Writes(input[c])) + 1 ELSE @ + 1]
  /\ UNCHANGED <<vars, hermesVars, input, whole, concepts, curated, promised>>

(* VectorStore.add(); a duplicate is ignored and not counted. *)
StoreRow(c) ==
  /\ AtWrite(c, "rows")
  /\ rows' = rows \cup {Current(c)}
  /\ place' = [place EXCEPT ![c] = @ + 1]
  /\ UNCHANGED <<vars, hermesVars, input, whole, concepts, curated, promised>>

(* add_node(label, kind="concept") *)
StoreConcept(c) ==
  /\ AtWrite(c, "concepts")
  /\ concepts' = concepts \cup {Current(c)}
  /\ place' = [place EXCEPT ![c] = @ + 1]
  /\ UNCHANGED <<vars, hermesVars, input, whole, rows, curated, promised>>

(* add_edge(), whose commits are the steps of GraphStore. *)
BeginRelation(c) ==
  /\ AtWrite(c, "edges")
  /\ \E j \in Jobs : j = Current(c) /\ Begin(c, j)
  /\ UNCHANGED <<hermesVars, curatorVars>>

EndRelation(c) ==
  /\ SelectEdge(c)
  /\ place' = [place EXCEPT ![c] = @ + 1]
  /\ UNCHANGED <<hermesVars, input, whole, rows, concepts, curated, promised>>

(* Mutant: the last write is not waited for. *)
FinishLog_Early(c) ==
  /\ place[c] > 0 /\ place[c] >= Len(Writes(input[c]))
  /\ curated' = curated \cup {input[c][k] : k \in 1..Len(input[c])}
  /\ promised' = promised \cup whole[c]
  /\ place' = [place EXCEPT ![c] = 0]
  /\ input' = [input EXCEPT ![c] = << >>]
  /\ whole' = [whole EXCEPT ![c] = {}]
  /\ UNCHANGED <<vars, hermesVars, rows, concepts>>

(* The report is printed and the command ends. *)
FinishLog(c) ==
  /\ place[c] > Len(Writes(input[c]))
  /\ curated' = curated \cup {input[c][k] : k \in 1..Len(input[c])}
  /\ promised' = promised \cup whole[c]
  /\ place' = [place EXCEPT ![c] = 0]
  /\ input' = [input EXCEPT ![c] = << >>]
  /\ whole' = [whole EXCEPT ![c] = {}]
  /\ UNCHANGED <<vars, hermesVars, rows, concepts>>

(* The process dies or a store raises: nothing remembers how far it was. *)
AbandonLog(c) ==
  /\ place[c] > 0
  /\ IF pc[c] = "idle" THEN UNCHANGED vars ELSE Abandon(c)
  /\ place' = [place EXCEPT ![c] = 0]
  /\ input' = [input EXCEPT ![c] = << >>]
  /\ whole' = [whole EXCEPT ![c] = {}]
  /\ UNCHANGED <<hermesVars, rows, concepts, curated, promised>>

-----------------------------------------------------------------------------
(* Composition *)

(* The artefacts that events bring; the other jobs are the curators'. *)
Artefacts == {j \in Jobs : \A s \in DOMAIN Relations : \A k \in 1..Len(Relations[s]) : Relations[s][k] # j}

(* The worker stores its artefacts. *)
WorkerStep(w) ==
  /\ \/ \E j \in Artefacts : Begin(w, j)
     \/ SelectEdge(w) \/ Abandon(w)
  /\ UNCHANGED <<hermesVars, curatorVars>>

(* The commits of anyone's add_edge(). *)
CommitStep(w) ==
  /\ AddSource(w) \/ AddTarget(w) \/ InsertEdge(w)
  /\ UNCHANGED <<hermesVars, curatorVars>>

Export == HermesNext /\ UNCHANGED <<vars, curatorVars>>

CINext ==
  \/ Export
  \/ \E w \in Writers : CommitStep(w)
  \/ \E w \in Writers \ Curators : WorkerStep(w)
  \/ \E c \in Curators :
       \/ ReadLog(c) \/ StoreRow(c) \/ StoreConcept(c)
       \/ BeginRelation(c) \/ EndRelation(c)
       \/ FinishLog(c) \/ AbandonLog(c)

CISpec == CIInit /\ [][CINext]_ciVars

-----------------------------------------------------------------------------
(* Properties *)

IsStored(write) ==
  CASE write.to = "rows" -> write.what \in rows
    [] write.to = "concepts" -> write.what \in concepts
    [] write.to = "edges" -> edges[Triple(write.what)] # NoJob

Remembered(m) == \A k \in 1..Len(WritesOf[m]) : IsStored(WritesOf[m][k])

(* A run that returns its report has every segment of every message it read *)
(* in the stores, whatever earlier runs died half way, other curators store *)
(* at the same time, and equal segments or relations were there before.     *)
CompletedIsStored == \A m \in curated : Remembered(m)

(* What a person or an agent said, with no machine part and no blank one. *)
IsSpeech(m) ==
  /\ Where(m)
  /\ Role[m] # "tool" /\ Role[m] \notin SkipRoles
  /\ CleanContent(m) = NoText => m \in Structured
  /\ m \in Structured => \A k \in 1..Len(Parts[m]) : Parts[m][k] \notin {"envelope", "blank"}

(* From the database to memory: once a run has read a complete export and   *)
(* ended, every message of speech that the database held at that export has *)
(* been read and stored, however many exports and runs died before, and     *)
(* whatever is in the file now.                                             *)
ExportedIsRemembered ==
  ScanLimit = 0 => \A m \in promised : IsSpeech(m) => m \in curated /\ Remembered(m)

(* memory_curator.py, ingest(): a fact without a triple is kept as a concept *)
(* node so that it is not silently lost.  No read returns a node that has no *)
(* edge.                                                                    *)
ConceptIsFound ==
  \A l \in concepts : \E p \in Projects : \E t \in QueryEdges(p) : l \in {t[1], t[2]}

(* ingest_hermes.py, _text_from_structured(): returns the joined text parts. *)
EveryPartIsKept ==
  \A m \in promised \cap Structured : \A k \in 1..Len(Parts[m]) :
    Parts[m][k] \in Texts => CleanContent(m) = Parts[m][k]
=============================================================================
