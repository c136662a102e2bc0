----------------------------- MODULE Preflight -----------------------------
(***************************************************************************)
(* What ContextBuilder.build_context() puts into an agent's prompt.  It is  *)
(* not one read: each axis that the prompt routes to asks both stores, then *)
(* the global recall floor does, then two structured lookups follow, and    *)
(* between any two of them the worker stores rows and the admin route        *)
(* promotes a decision.  (A preflight of the HTTP server holds the dispatch  *)
(* lock against the admin route; one of the MCP process does not.)  A lookup *)
(* whose search raises leaves its list empty and says so in the warnings; a  *)
(* retrieval that raises ends the request, and so does a ValueError of any.  *)
(*                                                                          *)
(* A memory is a row of the knowledge table or an edge of the graph; its     *)
(* index in memories is its integer id, and orders the rows of one store.    *)
(***************************************************************************)
EXTENDS AxisRouting

CONSTANTS
  Kinds,       \* what a memory can be, apart from its status:
  Side,        \* its store, "knowledge" or "experience"
  Type,        \* "decision", "task", "knowledge" or "experience"
  Project,     \* its project, or NoProject
  Hits,        \* the keywords of each axis in its text
  Score,       \* its similarity with the prompt, in 0..MaxScore; 0 is below min_score
  Status,      \* the status it is stored with
  Projects, NoProject,  \* the projects that are asked about
  AnyAxis,     \* of a query that no axis narrows
  Prompts, Asked,  \* prompts, and the keywords of each axis in them
  MaxScore,
  TopK,        \* vector_top_k, graph_top_k and expert_top_k
  MaxItems,    \* merged_max_items
  Limit,       \* of a structured lookup
  MaxMemories  \* bounds the state space

VALID_STATUSES == {"proposed", "approved", "rejected", "completed", "superseded"}

ASSUME PreflightAssumption ==
  /\ \A k \in Kinds : /\ Side[k] \in {"knowledge", "experience"} /\ Score[k] \in 0..MaxScore
                       /\ Status[k] \in VALID_STATUSES
  /\ Hits \in [Kinds -> [Axes -> Nat]] /\ Asked \in [Prompts -> [Axes -> Nat]]
  /\ NoProject \notin Projects /\ AnyAxis \notin Axes
  /\ TopK \in Nat /\ MaxItems \in Nat /\ Limit \in Nat
  /\ MaxScore \in Nat /\ MaxMemories \in Nat

VARIABLES
  memories,   \* the rows of both stores, <<kind, status>>
  request,    \* the request that is answered, or was last
  stage,      \* where its handler is
  todo,       \* the retrieval queries <<side, axis>> still to make
  best,       \* candidate -> its best blended score
  shown,      \* relevant_knowledge and relevant_experiences
  decisions, tasks,  \* relevant_decisions and open_tasks
  warnings,   \* the types whose lookup failed
  provenance, \* the pairs <<memory, status>> reported
  since       \* history: the memories when the request came in

handlerVars == <<request, stage, todo, best, shown, decisions, tasks, warnings, provenance, since>>
vars == <<memories, handlerVars>>

(* The resolved project and the prompt. *)
Requests == (Projects \cup {NoProject}) \X Prompts

Ids == 1..MaxMemories
Stored == 1..Len(memories)
Kind(m) == memories[m][1]
StatusOf(m) == memories[m][2]

(* Decisions and what was experienced; lessons and tasks are knowledge. *)
ExperienceClassTypes == {"experience", "decision"}

(* expert_tags() when the memory is stored. *)
Tags == [k \in Kinds |->
  LET active == ActiveAxes(ScoreAxes(Hits[k],
                  IF Type[k] \in ExperienceClassTypes THEN "experience" ELSE "knowledge"))
  IN  {active[j] : j \in DOMAIN active}]

(* route_experts(): no gate, strongest axis first. *)
Routing == [p \in Prompts |-> ActiveAxes(ScoreAxes(Asked[p], "none"))]

(* The statuses that query() leaves out. *)
ExcludedByDefault == {"superseded", "rejected"}

MaxBlended == MaxScore * 2 * Unit

TypeOK ==
  /\ memories \in Seq(Kinds \X VALID_STATUSES) /\ Len(memories) <= MaxMemories
  /\ request \in Requests
  /\ stage \in {"idle", "retrieve", "decisions", "tasks", "answered"}
  /\ todo \in Seq({"knowledge", "experience"} \X (Axes \cup {AnyAxis}))
  /\ best \in [Ids -> 0..MaxBlended]
  /\ shown \cup decisions \cup tasks \subseteq Ids
  /\ warnings \subseteq {"decision", "task"}
  /\ provenance \subseteq Ids \X VALID_STATUSES
  /\ since \in Seq(Kinds \X VALID_STATUSES) /\ Len(since) <= MaxMemories

Init ==
  /\ memories = <<>>
  /\ request \in Requests
  /\ stage = "idle"
  /\ todo = <<>>
  /\ best = [m \in Ids |-> 0]
  /\ shown = {} /\ decisions = {} /\ tasks = {} /\ warnings = {} /\ provenance = {}
  /\ since = <<>>

-----------------------------------------------------------------------------
(* The stores *)

(* Mutant: no project scope. *)
InScope_Global(m, project) == TRUE

(* A resolved project sees its own rows and those of none. *)
InScope(m, project) == project = NoProject \/ Project[Kind(m)] \in {project, NoProject}

(* The first k of S by descending score, ties by id. *)
Top(S, score, k) ==
  LET before(m, n) == score[m] > score[n] \/ (score[m] = score[n] /\ m < n)
  IN  {m \in S : Cardinality({n \in S : before(n, m)}) < k}

RawScore == [m \in Stored |-> Score[Kind(m)]]

(* What VectorStore.query() and GraphStore.query() rank.  An untagged row    *)
(* matches no axis.                                                         *)
Matches(side, axis, project) ==
  {m \in Stored :
    /\ Side[Kind(m)] = side
    /\ StatusOf(m) \notin ExcludedByDefault
    /\ InScope(m, project)
    /\ axis = AnyAxis \/ axis \in Tags[Kind(m)]
    /\ Score[Kind(m)] > 0}

QueryStore(side, axis, project) == Top(Matches(side, axis, project), RawScore, TopK)

(* VectorStore.search() by type and status, in exactly the project when one  *)
(* is resolved.                                                             *)
Found(type, status, project) ==
  LET rows == {m \in Stored :
        /\ Type[Kind(m)] = type
        /\ StatusOf(m) = status
        /\ project \in {NoProject, Project[Kind(m)]}}
  IN  Top(rows, RawScore, Limit)

(* Mutant: a search that raises is not reported. *)
Structured_Silent(type, status, project) ==
  {[rows |-> Found(type, status, project), warned |-> {}], [rows |-> {}, warned |-> {}]}

(* _structured(): what was found, or nothing and a warning when the search   *)
(* raises.                                                                  *)
Structured(type, status, project) ==
  {[rows |-> Found(type, status, project), warned |-> {}], [rows |-> {}, warned |-> {type}]}

-----------------------------------------------------------------------------
(* Others, between two reads *)

(* The worker, or the curator's command line. *)
Store(k) ==
  /\ Len(memories) < MaxMemories
  /\ memories' = Append(memories, <<k, Status[k]>>)
  /\ UNCHANGED handlerVars

(* approve_decision(): DecisionAuthority has its steps. *)
Approve(m) ==
  /\ Type[Kind(m)] = "decision"
  /\ StatusOf(m) = "proposed"
  /\ memories' = [memories EXCEPT ![m][2] = "approved"]
  /\ UNCHANGED handlerVars

-----------------------------------------------------------------------------
(* The handler *)

(* Mutant: a routed request goes without the global floor. *)
Queries_NoFloor(routing) ==
  LET axes == IF routing = <<>> THEN <<AnyAxis>> ELSE routing
  IN  [j \in 1..2 * Len(axes) |-> <<IF j % 2 = 1 THEN "knowledge" ELSE "experience", axes[(j + 1) \div 2]>>]

(* Both stores for each axis, then both for the floor.  A prompt that routes *)
(* nowhere asks the floor's two queries only.                               *)
Queries(routing) ==
  LET axes == Append(routing, AnyAxis)
  IN  [j \in 1..2 * Len(axes) |-> <<IF j % 2 = 1 THEN "knowledge" ELSE "experience", axes[(j + 1) \div 2]>>]

BeginRequest(r) ==
  /\ stage \in {"idle", "answered"}
  /\ request' = r
  /\ stage' = "retrieve"
  /\ todo' = Queries(Routing[r[2]])
  /\ best' = [m \in Ids |-> 0]
  /\ shown' = {} /\ decisions' = {} /\ tasks' = {} /\ warnings' = {} /\ provenance' = {}
  /\ since' = memories
  /\ UNCHANGED memories

(* Mutant: the boost is not scaled to the weight 1.0. *)
Blended_Unbounded(m, axis) ==
  Score[Kind(m)] * (IF axis = AnyAxis THEN Unit ELSE Unit + Unit * Confidence(axis, Asked[request[2]][axis]))

(* A routed hit's score times 1 + boost * confidence, with expert_boost 1.0. *)
Blended(m, axis) ==
  Score[Kind(m)] * (IF axis = AnyAxis THEN Unit ELSE Unit + Confidence(axis, Asked[request[2]][axis]))

(* One query; _blend() keeps the highest score that a memory reached. *)
RetrieveNext ==
  /\ stage = "retrieve"
  /\ todo # <<>>
  /\ LET axis == Head(todo)[2]
         hits == QueryStore(Head(todo)[1], axis, request[1])
     IN  best' = [m \in Ids |->
           IF m \in hits /\ Blended(m, axis) > best[m] THEN Blended(m, axis) ELSE best[m]]
  /\ todo' = Tail(todo)
  /\ UNCHANGED <<memories, request, stage, shown, decisions, tasks, warnings, provenance, since>>

(* What is left of the candidates of one store. *)
Pool(side) == Top({m \in Stored : best[m] > 0 /\ Side[Kind(m)] = side}, best, TopK)

(* merge(): one list; experience scores weigh 0.9, and at equal scores       *)
(* knowledge comes first.                                                   *)
Merged ==
  LET all == Pool("knowledge") \cup Pool("experience")
      weighed(m) == best[m] * (IF Side[Kind(m)] = "knowledge" THEN 10 ELSE 9)
      before(m, n) ==
        \/ weighed(m) > weighed(n)
        \/ weighed(m) = weighed(n) /\ Side[Kind(m)] = "knowledge" /\ Side[Kind(n)] = "experience"
        \/ weighed(m) = weighed(n) /\ Side[Kind(m)] = Side[Kind(n)] /\ m < n
  IN  {m \in all : Cardinality({n \in all : before(n, m)}) < MaxItems}

(* The budget may leave any of them out: MemoryBudget says which. *)
Merge ==
  /\ stage = "retrieve"
  /\ todo = <<>>
  /\ shown' \in SUBSET Merged
  /\ stage' = "decisions"
  /\ UNCHANGED <<memories, request, todo, best, decisions, tasks, warnings, provenance, since>>

LookUpDecisions ==
  /\ stage = "decisions"
  /\ \E answer \in Structured("decision", "approved", request[1]) :
       decisions' = answer.rows /\ warnings' = warnings \cup answer.warned
  /\ stage' = "tasks"
  /\ UNCHANGED <<memories, request, todo, best, shown, tasks, provenance, since>>

(* merge() copies neither id nor status, so _provenance_of() falls back to   *)
(* "approved" for whatever was retrieved.                                   *)
LookUpTasks ==
  /\ stage = "tasks"
  /\ \E answer \in Structured("task", "proposed", request[1]) :
       tasks' = answer.rows /\ warnings' = warnings \cup answer.warned
  /\ provenance' = (shown \cup decisions) \X {"approved"} \cup tasks' \X {"proposed"}
  /\ stage' = "answered"
  /\ UNCHANGED <<memories, request, todo, best, shown, decisions, since>>

(* The 409 of another embedder, the 503 of a store that raised while it was   *)
(* queried: no digest, never part of one.                                   *)
FailRequest ==
  /\ stage \in {"retrieve", "decisions", "tasks"}
  /\ stage' = "idle"
  /\ todo' = <<>>
  /\ best' = [m \in Ids |-> 0]
  /\ shown' = {} /\ decisions' = {} /\ tasks' = {} /\ warnings' = {}
  /\ since' = <<>>
  /\ UNCHANGED <<memories, request, provenance>>

Next ==
  \/ \E k \in Kinds : Store(k)
  \/ \E m \in Stored : Approve(m)
  \/ \E r \in Requests : BeginRequest(r)
  \/ RetrieveNext \/ Merge \/ LookUpDecisions \/ LookUpTasks \/ FailRequest

Spec == Init /\ [][Next]_vars

-----------------------------------------------------------------------------
(* Properties *)

Retrieved == stage \in {"decisions", "tasks", "answered"}

Smaller(a, b) == IF a < b THEN a ELSE b

(* The recall floor: whatever the prompt routes to, and whatever is stored   *)
(* meanwhile, retrieval returns at least as many memories of each store as  *)
(* the plain global query would have returned when the request came in.     *)
RecallFloor ==
  Retrieved => \A side \in {"knowledge", "experience"} :
    Cardinality(Pool(side))
      >= Smaller(TopK, Cardinality(Matches(side, AnyAxis, request[1]) \cap 1..Len(since)))

(* Routing tilts the ranking and does not dictate it: a memory that was      *)
(* there and is left out of its store's pool is outranked by no memory less  *)
(* than half as similar, however many axes boosted that one.                *)
BoundedTilt ==
  Retrieved => \A side \in {"knowledge", "experience"} :
    \A m \in (Matches(side, AnyAxis, request[1]) \cap 1..Len(since)) \ Pool(side) :
      \A n \in Pool(side) : 2 * Score[Kind(n)] >= Score[Kind(m)]

(* Another project's memory never reaches a prompt whose project is known,  *)
(* through no store, axis, floor or structured lookup.                      *)
NoForeignProject ==
  request[1] # NoProject =>
    \A m \in shown \cup decisions \cup tasks : Project[Kind(m)] \in {request[1], NoProject}

(* _structured()'s promise that an empty list cannot be mistaken for "no     *)
(* decisions exist": a decision of the project that was approved when the    *)
(* request came in, stored so or promoted, is in the digest, unless Limit    *)
(* others rank at least as high, or the answer warns that the lookup failed; *)
(* and what the digest lists as approved is approved.                       *)
ApprovedAreListed ==
  stage \in {"tasks", "answered"} =>
    /\ \A m \in decisions : StatusOf(m) = "approved"
    /\ \A m \in 1..Len(since) :
         /\ Type[Kind(m)] = "decision" /\ since[m][2] = "approved"
         /\ Project[Kind(m)] = request[1]
         /\ m \notin decisions
         => \/ "decision" \in warnings
            \/ /\ Cardinality(decisions) = Limit
               /\ \A n \in decisions : Score[Kind(n)] >= Score[Kind(m)]

(* MEMORY_SCHEMA section 1: a proposal is never presented as an approved     *)
(* decision, here in the status that the answer's provenance gives.         *)
ProposalIsNotPresentedAsApproved ==
  \A m \in Stored : <<m, "approved">> \in provenance => StatusOf(m) # "proposed"
=============================================================================
