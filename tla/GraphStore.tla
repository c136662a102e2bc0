----------------------------- MODULE GraphStore -----------------------------
(***************************************************************************)
(* The experience graph under several writers: the worker, a drainer and    *)
(* the curator's command line have a connection each.  add_edge() is three  *)
(* commits, one per endpoint node and one for the edge, each an INSERT OR    *)
(* IGNORE; between them other writers commit, and the writer may die.  The   *)
(* foreign keys of the schema are not enforced (no PRAGMA foreign_keys).     *)
(*                                                                          *)
(* A job is an edge that somebody stores: an artefact of an event ("agent    *)
(* produced ref" in the event's project), again when the event is retried;   *)
(* or a relation found in a conversation, which belongs to no project.       *)
(***************************************************************************)
EXTENDS Integers, FiniteSets

CONSTANTS
  Writers,
  Labels,      \* of nodes
  Jobs,        \* the edges that there are to store
  Project, Source, Target,  \* of a job: its project or NoProject, agent and reference
  Projects, NoProject,
  NoJob

Triples == Labels \X Labels

ASSUME GraphAssumption ==
  /\ \A j \in Jobs : Source[j] \in Labels /\ Target[j] \in Labels
  /\ \A j \in Jobs : Project[j] \in Projects \cup {NoProject}
  /\ NoProject \notin Projects /\ NoJob \notin Jobs

VARIABLES
  nodes,    \* the labels that have a row
  edges,    \* triple -> the job whose row it holds, or NoJob
  job,      \* writer -> the artefact it stores, or NoJob
  pc,       \* writer -> what it does next
  recorded  \* history: the jobs whose edge was committed, ignored or not

vars == <<nodes, edges, job, pc, recorded>>

TypeOK ==
  /\ nodes \subseteq Labels
  /\ edges \in [Triples -> Jobs \cup {NoJob}]
  /\ job \in [Writers -> Jobs \cup {NoJob}]
  /\ pc \in [Writers -> {"idle", "source", "target", "edge", "select"}]
  /\ recorded \subseteq Jobs

Init ==
  /\ nodes = {}
  /\ edges = [t \in Triples |-> NoJob]
  /\ job = [w \in Writers |-> NoJob]
  /\ pc = [w \in Writers |-> "idle"]
  /\ recorded = {}

Triple(j) == <<Source[j], Target[j]>>

-----------------------------------------------------------------------------

(* A job that was abandoned, or whose event is retried, comes again. *)
Begin(w, j) ==
  /\ pc[w] = "idle"
  /\ job' = [job EXCEPT ![w] = j]
  /\ pc' = [pc EXCEPT ![w] = "source"]
  /\ UNCHANGED <<nodes, edges, recorded>>

(* INSERT OR IGNORE under UNIQUE(label, kind).  The row also names the        *)
(* project of the job that inserted it, which no query asks for.             *)
AddNode(l) == nodes' = nodes \cup {l}

AddSource(w) ==
  /\ pc[w] = "source"
  /\ AddNode(Source[job[w]])
  /\ pc' = [pc EXCEPT ![w] = "target"]
  /\ UNCHANGED <<edges, job, recorded>>

(* Mutant: the edge is committed before the second node. *)
AddTarget_Late(w) ==
  /\ pc[w] = "target"
  /\ edges' = IF edges[Triple(job[w])] = NoJob THEN [edges EXCEPT ![Triple(job[w])] = job[w]] ELSE edges
  /\ pc' = [pc EXCEPT ![w] = "edge"]
  /\ UNCHANGED <<nodes, job, recorded>>

AddTarget(w) ==
  /\ pc[w] = "target"
  /\ AddNode(Target[job[w]])
  /\ pc' = [pc EXCEPT ![w] = "edge"]
  /\ UNCHANGED <<edges, job, recorded>>

(* INSERT OR IGNORE under UNIQUE(src, dst, rel). *)
InsertEdge(w) ==
  /\ pc[w] = "edge"
  /\ edges' = IF edges[Triple(job[w])] = NoJob THEN [edges EXCEPT ![Triple(job[w])] = job[w]] ELSE edges
  /\ recorded' = recorded \cup {job[w]}
  /\ pc' = [pc EXCEPT ![w] = "select"]
  /\ UNCHANGED <<nodes, job>>

(* The SELECT finds the row of the triple, whoever inserted it; its id is    *)
(* returned, and ingest_event() counts an artefact for it.                  *)
SelectEdge(w) ==
  /\ pc[w] = "select"
  /\ pc' = [pc EXCEPT ![w] = "idle"]
  /\ job' = [job EXCEPT ![w] = NoJob]
  /\ UNCHANGED <<nodes, edges, recorded>>

(* A statement raises ("locked") or the process dies: what is committed stays. *)
Abandon(w) ==
  /\ pc[w] # "idle"
  /\ pc' = [pc EXCEPT ![w] = "idle"]
  /\ job' = [job EXCEPT ![w] = NoJob]
  /\ UNCHANGED <<nodes, edges, recorded>>

Next ==
  \E w \in Writers :
    \/ \E j \in Jobs : Begin(w, j)
    \/ AddSource(w) \/ AddTarget(w) \/ InsertEdge(w) \/ SelectEdge(w) \/ Abandon(w)

Spec == Init /\ [][Next]_vars

-----------------------------------------------------------------------------
(* Reads *)

(* Mutant: no project is asked. *)
QueryEdges_AnyProject(project) ==
  {t \in Triples : edges[t] # NoJob /\ t[1] \in nodes /\ t[2] \in nodes}

(* query(): the project's edges and those of none; the join needs both ends. *)
QueryEdges(project) ==
  {t \in Triples :
    /\ edges[t] # NoJob /\ t[1] \in nodes /\ t[2] \in nodes
    /\ Project[edges[t]] \in {project, NoProject}}

(* related(): the project's own edges at a label, and not those of none; a  *)
(* substring of a label finds it too, and top_k cuts the list.               *)
Related(label, project) ==
  {t \in Triples :
    /\ edges[t] # NoJob /\ {t[1], t[2]} \subseteq nodes
    /\ label \in {t[1], t[2]}
    /\ Project[edges[t]] = project}

-----------------------------------------------------------------------------
(* Properties *)

(* No edge dangles, whoever dies between which commits: a stored edge is one *)
(* that the join of query() can see.                                        *)
EdgesHaveEnds == \A t \in Triples : edges[t] # NoJob => {t[1], t[2]} \subseteq nodes

(* The triples that were recorded for one of the projects. *)
RecordedFor(projects) == {Triple(j) : j \in {i \in recorded : Project[i] \in projects}}

(* What a project is shown of the graph was recorded for it or for no        *)
(* project, and what related() adds to its state was recorded for it; and    *)
(* what was recorded is shown, whoever died between which commits, unless    *)
(* another project recorded the same triple: the one table of all projects   *)
(* keeps one row of it.                                                     *)
ShownIsOwn ==
  \A p \in Projects :
    LET own == RecordedFor({p, NoProject})
    IN  /\ QueryEdges(p) \subseteq own
        /\ own \ QueryEdges(p) \subseteq RecordedFor(Projects \ {p})
        /\ \A l \in Labels : Related(l, p) \subseteq QueryEdges(p) \cap RecordedFor({p})

(* memory_curator.py, _provenance(): memory loss reported as success is what *)
(* this codebase must never do.  An artefact that is about to be counted is  *)
(* one that its project finds.                                              *)
CountedIsVisible ==
  \A w \in Writers : pc[w] = "select" /\ Project[job[w]] # NoProject =>
    Triple(job[w]) \in QueryEdges(Project[job[w]])
=============================================================================
