# A TLA+ model of tuah-cortex

tuah-cortex is a local memory service for agents. Agents post what they did
(a *postflight* event) and, before the next task, ask for what is known (a
*preflight*). An event goes through a durable SQLite queue to a worker process,
which writes its parts into a vector store and a graph store; a preflight reads
both stores, merges, budgets and renders. Decisions become authoritative only
through an authenticated admin route.

This directory holds TLA+ modules translated from the Python source, TLC
configurations that check them on small instances, and proofs checked by TLAPS.
`PROJECT.json` is the index: components, runs, the source lines behind every
definition, one mutation of the code per property, hazards, findings, theorems.

    tlasany M.tla                          parse a module
    tlc -workers 2 -config X.cfg M         model-check the module M of a run
    tlapm IngestProofs.tla                 check proofs

Contents: [1 Inventory](#1-inventory) · [2 Modules](#2-modules) ·
[3 Runs](#3-runs) · [4 Bounds](#4-bounds-and-why-they-are-enough) ·
[5 Fairness](#5-fairness) · [6 Proofs](#6-proofs) · [7 Findings](#7-where-code-and-documentation-disagree) ·
[8 Not modelled](#8-what-is-not-modelled) · [9 Plan](#9-plan)

## 1 Inventory

### Processes and how they meet

Several OS processes share four SQLite files and nothing else:

| process | started by | writes | reads |
|---|---|---|---|
| HTTP service (`src/api/app.py`) | launchd, Docker, by hand | queue (enqueue), vectors and graph (admin approval) | all |
| ingest worker (`src/workers/ingest_worker.py`), follow mode | launchd (`RunAtLoad`, `KeepAlive/SuccessfulExit=false`) | queue, vectors, graph | queue |
| `worker --once` | a hand | same | same |
| MCP server (`src/mcp/server.py`) | an agent, over stdio | queue (enqueue) | vectors, graph |
| curator (`src/core/memory_curator.py`) | a hand | vectors, graph | the export |
| Hermes export (`src/core/ingest_hermes.py`) | a hand | the export, a JSONL file | the agent runtime's database |
| other commands (`src/cli/`, `src/core/`) | a hand | | vectors, graph |

No process sends another a message, and only the export and the curator share
a file that is not a database. The others interact through rows: a queued row
is the message of a front end to the worker; a vector row with status
`proposed` is the message of the worker to the administrator; the identity of
the rows in the vector store decides what other processes may add and read.
Every statement commits on its own, except the `BEGIN IMMEDIATE` transaction
of `claim()`; so every gap between two statements is a place where another
process may act and where this one may die.

### Components

**Event queue** (`src/workers/queue.py`). *State*: one row per `request_id`:
payload, status (queued, processing, done, dead), attempts, next due time,
creation time. *Operations*: `enqueue` (SELECT, then INSERT, a lost race
answered as a duplicate), `claim`, `ack`, `fail` (a read, then a retry with
backoff or the dead-letter), `reset_stale_processing` (two statements: bury the
exhausted rows, requeue the rest), reads. *Hard*: concurrent consumers, crash
between statements, a clock that is read before a statement that waits for the lock,
retry budget, order. *Correct when*: an accepted event is tried before what came into the
table with a later time, at most `max_attempts` times, ends done or dead and stays
so; done means its items are stored; a re-sent request changes nothing.

**Ingest worker** (`src/workers/ingest_worker.py`). *State*: the row it holds,
how far it is in it, a stop flag. *Operations*: boot recovery (in `main()` and
again in `run_forever()`), claim, ingest, ack or fail, signal handler,
`--once`. *Hard*: any crash; a signal during any step; a statement that raises;
two workers. *Correct when*: no event is stranded, none is processed twice at a
time, none is acknowledged without being stored, all are settled eventually.

**Postflight intake** (`src/api/events.py`, `service.postflight`,
`src/api/models.py`). *State*: none but the queue. *Operations*: parse,
look up the duplicate, insert, answer 202/duplicate/mismatch/503. *Hard*: the
same request_id in two front ends at once; a lost answer and a re-send; a
degraded service. *Correct when*: `queued` is a promise, mismatch is told truthfully.

**Decision approval** (`src/api/models.py`, `src/api/admin.py`,
`service.approve_decision`, `Curator.ingest_event`, `VectorStore.set_status`).
*State*: the status of stored decisions, the `approved_decision` edges. *Operations*:
coercion of submitted statuses, ingest in the order decisions, lessons, tasks,
summary, artefacts; approve. *Hard*: an approval is a read, an update, and an
edge; re-ingestion; equal texts collide on the fingerprint. *Correct when*: only
the admin route makes a decision approved, for good, and with an attribution.

**Vector store** (`src/core/vector_store.py`). *State*: rows with fingerprint,
text, type, status, project, tags, and embedder identity (backend, model,
dimension); per process, the identity remembered at open. *Operations*: open (recover
the identity, legacy stores with several or none), `add`,
`check_compatibility`, `query`, `search`, `get_by_id`, `set_status`. *Hard*: processes with
different configurations; the identity is cached. *Correct when*: the
rows of a store have one identity, and a query never silently skips rows.

**Graph store** (`src/core/graph_store.py`). *State*: nodes, edges UNIQUE(src,
dst, rel). *Operations*: `add_node`, `add_edge` (two nodes, then the edge: three
commits), queries scoped by project. *Hard*: two writers between the commits; two projects with
the same triple. *Correct when*: no edge dangles, a project sees its own edges.

**Context builder** (`src/core/context_builder.py`). *State*: none; a preflight
is a sequence of reads. *Operations*: route axes, retrieve a pool per axis and
one without, blend, merge, look up decisions and tasks, render, provenance.
*Hard*: rows change between the reads; boosted pools compete with the floor for
places. *Correct when*: recall never below global retrieval, bounded tilt,
project scope, approved and proposed told apart.

**Memory budget** (`apply_budget`, `build_digest`, `truncate`). *State*: a loop
over items with a remaining budget. *Hard*: thresholds, a word boundary, an item
that fits after one that did not, a budget smaller than a marker. *Correct
when*: the answer fits, no room is wasted, the best memory is shown, a cut is told.

**HTTP application** (`src/api/app.py`, `src/api/service.py`). *State*: a dispatch
lock, a daemon thread per connection, two store handles that may be missing
(degraded mode). *Operations*: boot, serve, dispatch under the lock, interrupt,
close. *Hard*: threads against the closing main thread, half-open services.
*Correct when*: handlers are serial, every request is answered, no connection
leaks or is shared.

**Project state and MCP server** (`service.project_state`, `src/mcp/server.py`).
*State*: a JSON-RPC loop over stdio with a service built on the first tool call;
one that comes up degraded stays so. *Operations*: `record_outcome` is
`postflight`; `get_project_state` reads approved decisions, proposed
decisions, tasks, experiences, artefacts, one list after the other. *Hard*: an
approval between two of the reads, which the dispatch lock keeps from the HTTP
server and not from an MCP server; a service without a store. *Correct when*:
no decision is in two lists or missing, and no error looks like an empty list.

**Conversation ingest** (`Curator.ingest`, `read_log`, `segment_message`).
*State*: none that lasts; a run holds its messages and how far it is. *Operations*:
read the whole file, cut messages into segments, classify, write a row, or edges, or a
concept node. *Hard*: dies between two of many commits and starts over; the
file is being written; the worker stores the same triples. *Correct when*: a run that
reports has stored all it read, once.

**Hermes export** (`src/core/ingest_hermes.py`). *State*: the output file, which
is emptied and filled. *Operations*: select the messages, drop machine chatter,
unpack structured content, write lines. *Hard*: dies in the middle of the file or of
a line; the shapes of structured content. *Correct when*: what people and
agents said gets into the memory, and the database is only read.

**Rules** (`src/core/rules.py`). *State*: the configuration, cached for the life
of a process. *Operations*: `score_axes`, `active_axes`, `experts_clause`,
`truncate`, embedders. *Hard*: one scorer tags memories and routes prompts; saturation,
gate and threshold. *Correct when*: an axis tilts a ranking and never
decides what is found (see the context builder).

**Redaction, command line, container files**: see section 8.

## 2 Modules

| module | models | composed of |
|---|---|---|
| `EventQueue` | the table of `queue.py` and each of its writing statements as an operator | |
| `IngestPipeline` | worker processes over the table: boot, claim, items, ack, fail, crash, signals, launchd | extends `EventQueue` |
| `QueueContract` | the promise of the queue: accepted, then tried, then settled with a verdict | abstract |
| `IngestRefinement` | the refinement mapping of the pipeline onto the contract | `IngestPipeline`, `QueueContract` |
| `PostflightIntake` | the intake handler statement by statement in several front ends, before an abstract consumer | extends `EventQueue` |
| `WritePath` | the front ends and the real workers on one table; implements `PostflightIntake` | `IngestPipeline`, `PostflightIntake` |
| `DecisionAuthority` | bodies, coercion, ingest order, its report, approval with its gaps | |
| `ProjectState` | `project_state()` list by list in the HTTP server and in MCP servers with a lazily built service | extends `DecisionAuthority` |
| `StoreIdentity` | the embedder identity of the vector store across processes and restarts | |
| `AxisRouting` | the axis scorer that tags memories and routes prompts (pure) | |
| `Preflight` | `build_context()` read by read against a changing memory | extends `AxisRouting` |
| `MemoryBudget` | `apply_budget()` and the cap of the digest, over lengths | |
| `GraphStore` | the three commits of `add_edge()` and the scoped reads | |
| `HermesExport` | what the export selects, skips and keeps, and the file as it is filled, torn or closed | |
| `ConversationIngest` | `Curator.ingest()` write by write, over the export's file and the graph it shares with the worker | extends `GraphStore`, `HermesExport` |
| `HttpService` | boot, threads, dispatch lock, shutdown | |
| `IngestProofs` | theorems about `IngestPipeline` and its refinement | extends `IngestRefinement` |
| `WritePathProofs` | theorems about `WritePath` and its refinement | extends `WritePath`, `IngestProofs` |
| `AuthorityProofs` | theorems about `DecisionAuthority` and `ProjectState` | extends `ProjectState` |
| `IdentityProofs`, `PreflightProofs`, `BudgetProofs`, `HttpProofs` | theorems about `StoreIdentity`, `Preflight` with `AxisRouting`, `MemoryBudget`, `HttpService` | extend those |
| `GraphProofs` | theorems about `GraphStore`, `HermesExport` and `ConversationIngest` | extends `ConversationIngest` |
| `MC*` | constants that a .cfg cannot write | |

**EventQueue, IngestPipeline.** Variables of the table are the columns
(`status`, `payload`, `attempts`, `nextAttempt`, `createdAt`), indexed by
request, and the clock `now` in seconds, to which the timestamps are cut.
Rows that do not exist have status `absent`. Each statement is an operator
(`Insert`, `Claim`, `SetDone`, `SetFailed`, `BuryExhausted`,
`RequeueProcessing`). A statement that writes a time takes it as an argument, because the code
reads the clock in Python, before a statement that may wait up to 30 s for the write lock:
`clock[w]` is the earliest time that the next statement of `w` can carry, and `fail()` writes any
time from there to `now`. `reset_stale_processing()` reads the clock once, before
both of its statements, at some time after the process got there: `Bury` picks that time
and `Requeue` writes it. `Submit` inserts with any time up to `now`. A worker has a place `pc`: `bury, requeue, bury2,
requeue2` are the two recoveries at boot, `poll` the loop, `ingest, ack,
failRead, failWrite` are `process_one()`, `down` is crashed and awaiting launchd,
`exited` is left alone by launchd. `StoreItem` stores one item of a payload; what makes it
idempotent is the key: a fingerprint with the event id for rows, the bare
triple for edges. `Crash` may happen at every place. `Signal` sets the flag once the
handlers are installed, and before that it is a crash. `StatementsMayFail`
lets `claim`, `ack`, `fail` raise, which a follower survives and `--once` does
not.

**QueueContract** knows neither queue nor workers, attempts or time: an event is absent,
pending, done or dead, its content is kept, its items enter memory while it is pending,
`done` needs all of them there, and settling is final. `IngestRefinement` maps `queued` and
`processing` to pending. It is the abstract specification of one consumer; `ingest_single`
checks that the pipeline implements it, and `IngestProofs` proves it.

**PostflightIntake.** A front end is a process with a queue connection of its
own (the HTTP server, every MCP server); its call stands before the SELECT,
before the INSERT or before the answer. `LoseInsert` is the `IntegrityError`
path. `Degraded` front ends have no queue and answer 503; a statement may raise
and become a 503; `LoseCall` is a process that dies or an answer that is lost,
after which the caller may send the same again. The consumer is abstract: rows are
claimed, settled by their own attempts, or swept by a boot recovery (`Consume`).
`asked` is when a front end found nothing, so the row that it inserts has any
`created_at` from then to now: it may come into the table older than rows that a worker has
claimed in the meantime.
`answers` is a history variable.

**WritePath** puts the processes of `IngestPipeline` in the place of that
consumer: one table, one clock, the steps of both sides interleaved. The pipeline's
`Submit` is replaced by the front ends. `ImplementsIntake` is the refinement: what the
workers really do, their crashes, boots and failing statements included, is what
the abstract consumer may do. The identity is its refinement mapping, since both
sides name the same columns.

**DecisionAuthority.** A body has decisions with statuses, lessons, tasks and an
optional summary; `ItemsOf` is the order and the statuses in which
`ingest_event()` stores them, with `StoredStatus` the coercion of
`PostflightEvent.parse()`; `skipped` and `reported` are what its report says was not
stored. A row is named by its fingerprint (event and text),
so of two items with one text the first stays, whatever their types. The
approval is `Receive`, `Lookup`, `Update` (or `UpdateRaises`), `Audit` (or
`AuditSkipped`), and the server may `Restart` anywhere, with both stores or with neither (`Openings`).
`asked` is a history variable.

**ProjectState.** A reader is the HTTP server, which begins no read while its
approval handler runs and the reverse, or an MCP server, which has a service of its own:
`none`, built `whole` or built `degraded`, until the process ends. `Read` takes the
approved, then the proposed decisions of the project, each cut at the limit;
the three lists that follow have nothing to do with these two and belong to the
step of the answer. `before` is a history variable.

**StoreIdentity.** Processes open the store under an embedder chosen anew at
each start; `Open` is `_scan_identity()`, legacy stores without `embed_meta`
included; `Check` is `check_compatibility()`, which reads the rows; `Add`
compares with the identity remembered since open; `Query` ranks the rows of its
own identity and skips the others. `checked` is a history variable.

**AxisRouting.** A text is the number of keywords of each axis in it. `Confidence`
is weight * hits / (hits + saturation) in integers of 1/`Unit`, `ScoreAxes` applies
the experience-only gate, `ActiveAxes` the threshold and the order.

**Preflight.** Memory grows from *kinds* (side, type, project, keywords, score);
a request is a project or none, and a prompt. `Tags` of a kind and `Routing` of a
prompt both come from the scorer, with a gate for the first only. One action per
query (`RetrieveNext`), then `Merge`, `LookUpDecisions`, `LookUpTasks`; the worker's
`Store` and the admin's `Approve` come between any two. Scores, weights and limits
are small integers with the code's arithmetic. A lookup finds what `VectorStore.search` finds
(`Found`), or raises, and then its list is empty and `warnings` has it (`Structured`).
Any other exception, and a `ValueError` of a lookup, ends the request with no
answer to look at (`FailRequest`). `since` is a history variable.

**MemoryBudget.** Texts are their lengths; `CutLengths` has every length that
`truncate()` may return. The loop of `apply_budget()` looks at one item per step: it
is admitted whole, cut (which ends the loop) or skipped. `Render` puts the
digest together, caps it and sets the warning.

**GraphStore.** A writer is about to insert the source node, the target node or
the edge, or to read the row back; each action is one statement and one
commit, and a writer may die or raise between two (`Abandon`). `QueryEdges` and
`Related` are the reads; the project of a node is left out, because no query reads it. A job is
an artefact of an event, or a relation of a conversation,
which belongs to no project. `recorded` is a history variable: the jobs whose INSERT has been
committed, whether it added a row or was ignored as a duplicate.

**HermesExport, ConversationIngest.** Messages enter the runtime's database
(`Send`); an export takes a snapshot and empties the file (`OpenOut`), fills it,
perhaps to the middle of a line (`Flush`), and closes it or dies. `CleanContent` is the
walk over structured content: its first text, a drop when there is only machine chatter,
the raw text for an unknown shape. A curator reads whatever is in the file
(`ReadLog`); `Writes` is the sequence of writes that its messages come to, through
segments (`Pieces` counts the chunks of a sentence), classification and relations; each is one
action, an edge the three commits of `GraphStore`. `AbandonLog` is a death or a
raise, at any point; nothing but the stores remembers it. `curated` and `promised` are
history variables.

**HttpService.** The main thread boots (every outcome of opening the three
stores), serves, is interrupted, closes handle by handle, exits. A connection
thread gets a request, waits for the lock, is rejected, refused or uses the stores of its
route one by one, any of which may raise, and gives the lock back with its
answer. `Errors` has the answers of each handler to an exception (400, 409, 503);
`LookUpRaises` is the failed lookup that a preflight survives; `RejectBody` answers 400 or 413
without the lock. There is no 500: `dispatch()` has it for exceptions that no
handler caught, and each handler catches those of its stores. A `close()` that raises is passed
over and leaves its handle `stuck`. `Terminate` is SIGTERM, at any point.

## 3 Runs

Runs that must pass:

| run | instance | properties and what they show |
|---|---|---|
| `ingest_single` | one follower under launchd, 2 requests whose payload has a row and an artefact, 2 attempts, fair scheduling | the deployed configuration, with crashes at every place, signals and failing ingests. `ImplementsContract`: it implements `QueueContract`. `NoOvertaking`: no claim takes an event while an older one that was never tried is in the table; neither retries nor recoveries get ahead of the backlog. `RetryBudget`: the ceiling holds, crashes included. `NothingStranded`: a processing row has a worker or a follower that will recover it. `TerminalIsFinal`: done and dead stay. `EventuallySettled`: every accepted event is done or dead in the end, unless the worker was told to stop |
| `ingest_pair` | a follower, a `--once` and a `drain_queue()`, 1 request with one of 2 payloads, statements that raise | what survives workers that take each other's rows: `PipelineInv` (the inductive invariant of the proofs), `DoneImpliesStored`, `DeadOnlyAfterMaxAttempts` |
| `intake` | `WritePath`: 3 front ends (one degraded), 1 request, 2 payloads, one follower with crashes, signals and statements that raise | `AnswersAreTrue`: an answer `queued` is a promise that no race and no worker breaks, and nobody is told of a mismatch that there was not. `QueuedIsRemembered`: from the answer to the memory, a caller who was told `queued` finds its own content stored when the event is done. `ImplementsIntake`: the path implements `PostflightIntake`, so a duplicate never revives or changes a row |
| `authority` | `ProjectState` over `DecisionAuthority`: 1 event, 2 texts, 4 bodies, 2 approvers, the HTTP server and one MCP server as readers | `AuthorityIsGranted`: no body, collision or retry makes a decision approved. `VerdictIsFinal`: neither a re-ingest nor an approval overturns a verdict. `AuditIsTrue`: edges name approved decisions and one approver each. `SkippedIsReported`: the ingest's report lists exactly what a collision kept out. `NeverBothListed`, `StateIsComplete`: an approval between two reads puts no decision into both lists; none that was there is missing, save the MCP case of section 7, and no missing store or failed read is shown as an empty list |
| `identity` | 1 writer, 2 readers, 3 embedders of which two share a dimension, 2 rows, legacy stores | `OneIdentity`, `NothingSkipped` (an accepted query ranks every row there was at its check) |
| `preflight` | 3 memories of 8 kinds, a project or none, 3 prompts, 2 axes | `RecallFloor`, `BoundedTilt`, `NoForeignProject`, `ApprovedAreListed`, with rows tagged and stored and decisions approved between any two reads, lookups that raise and requests that fail. `ApprovedAreListed`: what is listed as approved is approved, and an approved decision is missing only from a full list of others that rank as high, or when the answer warns that the lookup failed |
| `memory_budget` | up to 3 memories of every length 1..19, 5 budgets, 3 section lengths | `BudgetInv` (the loop invariant of the proofs), `WithinBudget`, `WellFilled`, `BestIsShown` |
| `graph` | `ConversationIngest`: a curator and the worker, 3 messages (one arrives later), 4 edges, 2 of them one triple in 2 projects, 1 of one project alone | `EdgesHaveEnds`: nobody's death between two commits leaves a dangling edge. `ShownIsOwn`: neither `query()` nor `related()` shows a project what was recorded for another alone, and what was recorded for it is missing only if another project recorded the same triple. `CompletedIsStored`: a run that reports has all it read in the stores. `ExportedIsRemembered`: what people and agents said, once read from a whole export, is in memory, whatever died before |
| `http` | 2 connections of 2 requests, every outcome of a boot | `AttachedIsOpen`: while it serves, exactly the attached stores are open; after an orderly end none is (a handle whose own `close()` raised is not counted). Under fair scheduling, `Answered` |

Each state module also has its type invariant, in a run or as a conjunct of `PipelineInv`
and `BudgetInv`; `WPTypeOK`, `PSTypeOK` and `CITypeOK` contain those of the parts. Every one of these properties is paired in
`PROJECT.json` with a mutation of a definition, written before it in its module as
`<definition>_<what is wrong>`, under which the same run refutes it: a
dropped recovery, an `INSERT OR REPLACE`, a ceiling off by one, a lock that is not
given back.

Three runs must find a counterexample; section 7 has what they show:
`ingest_two_workers`, `authority_audit`, `preflight_provenance`.

Deadlock is checked except in `memory_budget` (a computation that ends)
and `http` (a process that ends).

## 4 Bounds and why they are enough

- **`MaxAttempts` = 2** distinguishes the first attempt, a retry and the dead-letter.
  `ClaimBound` = 3 lets an event be claimed once more than that, so that an overrun
  of the budget is a state and not cut off. The backoff is `backoff_seconds()` with its
  cap at 2.
- **`IdleTime`** is how far the clock runs while no row is in backoff; beyond, it
  moves only as long as a row waits. 2 lets two events be created in different seconds;
  1 is enough for one event. Timestamps are compared, never added up, so longer
  idling gives no new order.
- **Requests and payloads.** Two requests share an artefact and order; with
  several workers one request is enough, because the races are for one row. In
  `ingest_pair` and `intake` two payloads differ, so that a replaced payload shows.
- **Workers.** Two suffice for every race of `queue.py` (each has two
  parties); the third is there so that a kind of each takes part.
- **`intake`**: two front ends and a worker are the parties of every race of the intake; the
  degraded one refuses. `MaxAnswers` = 1 answer is kept in the history: every property speaks of
  one answer at a time, and the calls of the others still run up to their answers.
  `IdleTime` = 1, `ClaimBound` = 3 as above. The two healthy front ends are
  symmetric, `FrontEndSymmetry`: they are only compared with each other, and the
  run has no fairness and no liveness property.
- **`authority`**: one event, because fingerprints of different events are
  disjoint; its bodies contain each submitted status that matters (approved,
  rejected, none, invalid), equal texts in two lists, and no decisions. `MaxAsked` = 2 approvals
  are asked for, so two approvers race for one decision or two decisions are approved;
  `MaxReading` = 1 reader at a time, as readers change nothing; `Limit` = 2 rows per
  list (10 in the code) is as many as there are texts, and smaller limits only
  weaken `StateIsComplete`. `ApproverSymmetry`: approvers are only compared.
- **`identity`**: two models with one dimension (the case a dimension check misses) and
  one of another; two rows, since a mixed store needs two.
- **`preflight`**: `TopK` = 2 and `Limit` = 1 with three memories, so that pools and
  lookups overflow; two axes of different weight, one of them for experience only, and a memory
  with both tags. `Unit` = 12, `Saturation` = 1 and `MinConfidence` = 4 put one keyword of the light
  axis below the threshold and two above it; the prompts route to no axis, to the light one, and to
  both. `merged_max_items` (30 in the code) is 3. Scores 0..3, 0 being below `min_score`.
- **`graph`**: one curator and the worker make two writers of each commit; the messages are one
  in three parts (text, machine, text), one of a tool and one of an unknown shape that repeats
  a sentence of the first, so that a row is a duplicate within one run; the first message arrives
  after the archive. Sentences of length 1, 2, 3, 4 and 6 with `MinChars` = 2 and
  `MaxChars` = 4 give no, one and two segments. `ScanLimit` = 0 is the default of the command.
- **`memory_budget`**: the thresholds 80, 40, 7 and the marker of 14 characters are scaled to 8,
  4, 2 and 3, keeping `MinRemaining >= Overhead + MinText`; lengths run past the
  limits in steps of one, so every boundary is hit. The proofs do without the scale.
- **`http`**: two connections contend for one lock; the second request of a connection
  finds what the first left behind.

## 5 Fairness

`IngestPipeline!Fairness`. Weak fairness of a worker's next step inside an
event (a running process is scheduled), of launchd's restart of a crashed follower
(`KeepAlive`), of the end of a drain, and of the clock. Strong fairness of
each boot step, of the claim and of the exit on a stop flag: a crash may disable them
again and again, and the assumption is that a worker does not crash every single time
it boots or polls. Inside an event no such assumption is made: a crash there
uses up an attempt, and that is what bounds them. No fairness of clients,
signals, crashes, failures of an ingest or anybody who starts a worker by hand.
`EventuallySettled` allows for a worker that has exited, because a signal ends it
with code 0 and launchd then leaves it down.

`HttpService!FairSpec`. Weak fairness of each connection thread's step and of the
main thread once it closes. Weak fairness suffices for the lock because every
other connection runs out of requests; with an endless supply the code
promises nothing, as `threading.Lock` is not fair.

## 6 Proofs

TLAPS checks, for every value of the constants that satisfies the named
assumptions (`OneConsumer`, `OneFollower` and `OneWriter` are further hypotheses of the theorem):

| theorem | statement | under |
|---|---|---|
| `IngestProofs!Safety` | `Spec => []PipelineInv` | |
| `IngestProofs!TypeCorrect` | `Spec => []TypeOK` | |
| `IngestProofs!DoneIsStored` | `Spec => []DoneImpliesStored` | |
| `IngestProofs!DeadIsExhausted` | `Spec => []DeadOnlyAfterMaxAttempts` | |
| `IngestProofs!OlderUntriedFirst` | `Spec => NoOvertaking` | `OneConsumer` |
| `IngestProofs!OneConsumerSafety` | `Spec => [](PipelineInv /\ OneConsumerInv)` | `OneConsumer` |
| `IngestProofs!RetryBudgetHolds` | `Spec => []RetryBudget` | `OneConsumer` |
| `IngestProofs!TerminalStaysFinal` | `Spec => TerminalIsFinal` | `OneConsumer` |
| `IngestProofs!NoEventIsStranded` | `Spec => []NothingStranded` | `OneFollower`, `~StatementsMayFail` |
| `IngestProofs!PipelineImplementsContract` | `Spec => ImplementsContract` | `OneConsumer` |
| `WritePathProofs!WritePathSafety` | `WPSpec => []WPInv` | |
| `WritePathProofs!WritePathTypeCorrect` | `WPSpec => []WPTypeOK` | |
| `WritePathProofs!AnswersStayTrue` | `WPSpec => []AnswersAreTrue` | |
| `WritePathProofs!QueuedStaysRemembered` | `WPSpec => []QueuedIsRemembered` | |
| `WritePathProofs!WritePathImplementsIntake` | `WPSpec => ImplementsIntake` | `OneConsumer` |
| `AuthorityProofs!AuthoritySafety` | `PSSpec => []PSInv` | |
| `AuthorityProofs!PSTypeCorrect` | `PSSpec => []PSTypeOK` | |
| `AuthorityProofs!AuthorityIsGrantedAlways` | `PSSpec => []AuthorityIsGranted` | |
| `AuthorityProofs!VerdictIsFinalAlways` | `PSSpec => VerdictIsFinal` | |
| `AuthorityProofs!AuditIsTrueAlways` | `PSSpec => []AuditIsTrue` | |
| `AuthorityProofs!SkippedIsReportedAlways` | `PSSpec => []SkippedIsReported` | |
| `AuthorityProofs!NeverBothListedAlways` | `PSSpec => []NeverBothListed` | |
| `AuthorityProofs!StateIsCompleteAlways` | `PSSpec => []StateIsComplete` | |
| `IdentityProofs!QueriesSafety` | `Spec => []QueriesInv` | |
| `IdentityProofs!TypeCorrect` | `Spec => []TypeOK` | |
| `IdentityProofs!NothingSkippedAlways` | `Spec => []NothingSkipped` | |
| `IdentityProofs!OneIdentityAlways` | `Spec => []OneIdentity` | `OneWriter` |
| `PreflightProofs!PreflightSafety` | `Spec => []PreflightInv` | |
| `PreflightProofs!TypeCorrect` | `Spec => []TypeOK` | |
| `PreflightProofs!RecallFloorAlways` | `Spec => []RecallFloor` | |
| `PreflightProofs!BoundedTiltAlways` | `Spec => []BoundedTilt` | |
| `PreflightProofs!NoForeignProjectAlways` | `Spec => []NoForeignProject` | |
| `PreflightProofs!ApprovedAreListedAlways` | `Spec => []ApprovedAreListed` | |
| `GraphProofs!GraphSafety` | `CISpec => []GraphInv` | |
| `GraphProofs!NoEdgeDangles` | `CISpec => []EdgesHaveEnds` | |
| `GraphProofs!ProjectsSeeTheirOwn` | `CISpec => []ShownIsOwn` | |
| `GraphProofs!ConversationSafety` | `CISpec => []ConversationInv` | |
| `GraphProofs!CITypeCorrect` | `CISpec => []CITypeOK` | |
| `GraphProofs!CompletedIsStoredAlways` | `CISpec => []CompletedIsStored` | |
| `GraphProofs!ExportedIsRememberedAlways` | `CISpec => []ExportedIsRemembered` | |
| `BudgetProofs!BudgetSafety` | `Spec => []BudgetInv` | |
| `BudgetProofs!AnswersFit` | `Spec => []WithinBudget` | |
| `BudgetProofs!NoRoomIsWasted` | `Spec => []WellFilled` | |
| `BudgetProofs!BestIsShownAlways` | `Spec => []BestIsShown` | |
| `HttpProofs!HttpSafety` | `Spec => []HttpInv` | |
| `HttpProofs!TypeCorrect` | `Spec => []TypeOK` | |
| `HttpProofs!AttachedIsOpenAlways` | `Spec => []AttachedIsOpen` | |
| `HttpProofs!SerialisedAlways` | `Spec => []Serialised` | |

Every proof has the same shape: an inductive invariant, a lemma per action (or per group
of actions that change the same things), a lemma that combines them over `Next`, and a theorem
that adds time.

**The pipeline.** Any sets of requests, payloads and workers of the three
kinds, any payload lengths, any `MaxAttempts > 0`, any positive backoff, with or
without statements that raise. Assumptions: `MaxAttemptsAssumption`,
`BackoffAssumption`, `NoPayloadAssumption`, `NoRequestAssumption`,
`ItemsAssumption`, `KindsAssumption`, `BoundsAssumption`. `DoneImpliesStored` is not
inductive: it says nothing of the worker that is about to acknowledge.
`HoldersInv` adds how far a worker has come (every item it walked past is stored; in
`ack`, all are) and that a row in a worker's hands was claimed. The ceiling needs
that the count which `fail()` read earlier is a lower bound of the present
one, because another worker may have claimed the row since: that is
`seen[w] \in 1..attempts[cur[w]]`, and it is why a stale read buries too late rather
than too early. `UntriedInv` (a row that was never claimed still has the due time it was
created with) and `ClockInv` (no time that a worker holds is in the future) are there for
the order below. There is one lemma per action; `NextInv` combines them.

**One consumer.** What the deployment has (one follower under launchd, nobody at a terminal) and what
`ingest_single` checks; but a single `--once` or drain is included, and statements may raise.
`RetryBudget`, `TerminalIsFinal` and the contract are false of two: `IngestOnce.cfg` and
`ingest_two_workers` show how. `OneConsumerInv` is what two break: a worker inside
`process_one()` finds its row processing, the count that `fail()` read is still the row's, and
between the burying and the requeueing statement of the recovery no exhausted row comes up.
`RetryBudget` alone is not inductive because of that third part.
`OlderUntriedFirst` needs `OrderInv`: no queued row is due before it was created, so `claim()`'s
order by due time puts the oldest untried row before every younger one. To keep it, a time
that `fail()` or a recovery will write must not be older than the rows it will be written
to; with one consumer nobody claims between the reading of the clock and the statement, and with
two the recovery of one may give a row that the other has just claimed a time before its creation.
`PipelineImplementsContract` is a step simulation: with the invariant, a claim
or a retry is a stutter, an item a `Remember`, an acknowledgement a `Complete`, a burial a `GiveUp`
of all the rows it buries. `NoEventIsStranded` needs statements that do not raise in addition
(`IngestStranded.cfg` has the counterexample) and that the one process is one launchd restarts.

**The write path.** Any front ends, degraded or not, in front of any workers; the
assumptions of the pipeline and `FrontEndsAssumption`. All that a front end does to
the table is one `Submit`, so `IngestProofs!NextInv` holds of the composition
(`FrontEndIsClient`). No step of anyone removes a row or changes its content
(`RowsStay`, one step of the proof per action), so an answer that is true once
stays true (`TruthLasts`); and each of the five ways to answer chooses one that is
true (`RespondInv`, `FrontEndInv`). A mismatch needs the presence of the row in its
invariant, since the content of an absent row may still change.
`QueuedIsRemembered` follows from that and from `RowsInv`.
`WritePathImplementsIntake` maps every step of a worker to `Consume`: a claim, a settlement by
the row's own count, or the sweep of a recovery. The second is where one consumer is needed: a stale
`fail()` settles by a count that is no longer the row's.

**Decisions and project state.** Any events, bodies, texts, approvers and MCP servers, any
limit; `BodiesAssumption`, `NoRowAssumption`, `ReadersAssumption`. `AuthorityIsGranted` needs nothing
but that every row which `ingest_event()` builds is *harmless* (`ItemIsHarmless`: the coercion
leaves no approved decision) and that the call in the handler was asked for. `AuditIsTrue` and
`VerdictIsFinal` need `HandlerInv`: `set_status()` asks nothing of the status it overwrites, so that
the verdict is final rests on nobody changing the row between look-up and update, which
`NextKeeps` proves of every step. `SkippedIsReported` needs `ReportInv`: what an ingest is past
is stored or listed, and `AccountedLasts`, since an approval may change a stored row meanwhile.
The readers rest on monotony: what was approved when a list was read stays so (`Sealed`);
what was proposed stays or is approved (`BeforeInv`); `NewestIsFull` says when a cut list
may miss one. The dispatch lock is the third conjunct of `BeforeInv`: for the HTTP server nothing
moves between the two lists, and for an MCP server `StateIsComplete` says what may.

**The identity of the vector store.** Any writers, readers, embedders, rows and legacy stores;
`IdentityAssumption`. `NothingSkipped` holds beside any number of writers: rows are inserted
or ignored, so what the check found comparable stays so until the query (`QueryInv`).
`OneIdentity` is proved for one writer, the worker; `IdentityTwoWriters.cfg` refutes it for two.
`BatchInv` says that inside a batch every row has the writer's own identity; it is inductive
because `check_compatibility()` reads the rows and nobody else adds any.

**The preflight.** Any kinds of memory, axes, weights, prompts, projects, scores and limits under
`RoutingAssumption` and `PreflightAssumption`. Top-k lists are the difficulty: the lemmas
`RankIsBijection`, `FirstOfRank` and `TopProperties` establish, for any strict total
order on a finite set, that the list cut at k has the first k of it and that what is
left out stands behind all of it; `PoolRanks`, `QueryRanks` and `FoundRanks` say that the
orders of the code (score, then the place in the store) are strict and total. `ConfidenceSaturates` bounds the
scorer by an axis's weight, hence `BlendedBounds`: a boost no more than doubles a score.
`FloorInv` is why recall has a floor although pools are cut: once the global query has run, a
memory is a candidate at no less than its own score, or `TopK` others are; and
`QueriesEndWithFloor` is why it always runs. `SinceInv` (rows stay, a status only goes from
proposed to approved) carries this across the steps of worker and administrator.
`StructuredAnswers` splits a lookup into its two outcomes: the ranked list, or nothing and a warning
that stays in the answer.

**The graph.** Any writers, of which any are curators, any labels, jobs and
projects; `GraphAssumption`. `EdgesHaveEnds` needs `WriterInv`: a writer past a commit finds
its node, whoever inserted it. `ShownIsOwn` needs `RowInv`: under a unique triple is
the row of a recorded job with that triple, and every recorded job has a row under its triple, its
own or an earlier one's. With `EdgesHaveEnds` the join of `query()` then loses nothing.

**The conversation.** Any messages, parts, sentences of any length, cut at any `MinChars` and
`MaxChars`, any relations; `HermesAssumption` (content that is a JSON list is not blank),
`CuratorAssumption` (sentences are not empty), `RelationsAssumption`. `RunInv`
says that a run has stored all the writes before its place, and that one inside `add_edge()` is in
it for the write at its place; this survives everybody else because stores only grow
(`NextGrows`). `PromiseInv` ties a complete file to the run that read it and to what was curated
when that run ended. `SpeechIsKept` is the walk over structured content: a message of speech, in which no part is
blank or machine chatter, is exported.
The sequences of writes are recursion over messages, segments and relations. The
library's induction theorems take an operator and cannot be instantiated, so the proof does its own
induction, over a set: `UpTo` follows from the well-foundedness of `<` on the
naturals, `Accumulator` shows that the recursive function of `Concat` exists, and
`ConcatHolds` that its value has exactly the elements of the parts. `Those` is a use of `Concat`
for that reason; `SelectSeq` is opaque to the prover.

**The budget.** Any limits, thresholds, lengths and budgets under
`BudgetAssumption` and `ThresholdAssumption` (`MinRemaining >= Overhead + MinText`,
80 >= 7 + 40 in the code). `BudgetInv` is the loop invariant: what was
dropped so far did not fit beside what was admitted and was dropped when the
rest was not worth a cut. `StaysTooLarge` is the arithmetic that keeps this true as
the rest shrinks. `BestIsShown` needs `FirstInv`: until the first memory has been looked at
nothing is used, so with room for a cut the loop cannot skip it.

**The HTTP process.** Any connections and number of requests; `HttpAssumption`. `Serialised`
is the lock: the threads inside a handler are exactly its holder. `AttachedIsOpen` needs
`HandlesInv`, which speaks of every place of the main thread: what is attached is open from boot
to shutdown, and whatever is open is among the handles that `close()` walks.

**Only model-checked.** `EventuallySettled` and `Answered`: liveness under fairness, and with it
`ENABLED`, is out of the prover's reach. The properties of sections 3 and 7 that the code refutes have
counterexamples instead. Everything else that a passing run checks is the statement of
a theorem above; those with a hypothesis in the last column are checked by TLC for one worker as well,
since they are false without it.

## 7 Where code and documentation disagree

Kept as runs that must find a counterexample:

- `ingest_two_workers`: `ExclusiveProcessing`. `reset_stale_processing()`
  (`src/workers/queue.py:349`) requeues rows that a live worker holds, and a second
  worker claims them. The docs call two workers "safe, thanks to `BEGIN
  IMMEDIATE`". The memory survives it (`ingest_pair`); exclusiveness does not.
- `authority_audit`: `ApprovalIsAttributed`. The approval commits
  (`src/api/service.py:543`) before its audit edge (line 553); a crash in between or an `add_edge()`
  that raises leaves an approval without attribution, and a repeated call does not add it.
- `preflight_provenance`: `ProposalIsNotPresentedAsApproved`. `merge()` drops the
  status of what was retrieved, and the provenance then says approved
  (`src/core/context_builder.py:289`).

The properties below are stated in the modules and refuted by the configuration
named; they are documentation beside the regular runs, and each is a place where
the code and a sentence of its docs part:

| configuration | module, property | what the code does |
|---|---|---|
| `IngestOnce.cfg` | MCIngest, `RetryBudget` | `--once` beside a follower: a claim between the two statements of the recovery (`src/workers/ingest_worker.py:193`) is requeued with its budget used up |
| `IngestStranded.cfg` | MCIngest, `EventuallySettled` | `ack()` or `fail()` raises and the follower polls on (`src/workers/ingest_worker.py:171`); the row stays processing until the next boot |
| `IngestKill.cfg` | MCIngest, `KillIsARestart` | SIGTERM ends the worker with code 0 (`src/workers/ingest_worker.py:206`), and launchd does not restart it; `src/docs/SERVICE_OPERATIONS.md:156` says it does |
| `IntakeRace.cfg` | MCIntake, `LossIsReported` | the loser of an INSERT race is told duplicate without a comparison (`src/workers/queue.py:231`) |
| `AuthorityStatus.cfg` | MCAuthority, `SubmittedIsProposed` | only `approved` is coerced (`src/api/models.py:202`); rejected, completed and superseded are stored as sent, where `src/docs/SECURITY_MODEL.md:48` says every decision is treated as proposed |
| `IdentityTwoWriters.cfg` | MCIdentity, `OneIdentity` | two writers that opened an empty store under different embedders both write (`src/core/vector_store.py:219`) |
| `BudgetAuthority.cfg` | MCBudget, `TinyBudgetKeepsAuthority` | a budget smaller than Tier 0 cuts the authority lines (`src/core/context_builder.py:534`); `src/docs/RUNTIME_NOTES.md:87` says it keeps them |
| `GraphArtefacts.cfg` | MCConversation, `CountedIsVisible` | a second project's equal triple is ignored and counted as stored (`src/core/graph_store.py:231`) |
| `ProjectStateTorn.cfg` | MCProjectState, `NothingFallsBetween` | an MCP server reads the approved list, a decision is approved over HTTP, and the proposed list (`src/api/service.py:441`) no longer has it: it is in neither |
| `ConversationParts.cfg` | MCConversation, `EveryPartIsKept` | `walk()` returns at the first text part (`src/core/ingest_hermes.py:297`); the docstring at line 277 says that the text parts are joined |
| `ConversationConcepts.cfg` | MCConversation, `ConceptIsFound` | a segment without a triple becomes a concept node "so it is not silently lost" (`src/core/memory_curator.py:324`); no read of the graph returns a node without an edge |
| `HttpTerminate.cfg` | HttpService, `ExitClosesStores` | SIGTERM ends the HTTP process with its stores open (`src/api/app.py:445`) |
| `HttpShutdown.cfg` | HttpService, `NoConnectionIsShared` | the main thread closes connections without the dispatch lock (`src/api/app.py:450`) |

**Order of arrival is not promised.** `enqueue()` reads the clock at
`src/workers/queue.py:214` and inserts at line 216, where it may wait for another process's
lock. So a row can come into the table older than one that has been claimed,
and of two events the one accepted first may be tried second. The model has this (`asked`, `Submit`);
`NoOvertaking` therefore speaks only of rows that are in the table when `claim()` chooses, and
no property says more about order.

**An empty list of a preflight is not always "none".** A lookup that raises gives an empty list
(`src/core/context_builder.py:586`) and a warning, and the answer is still 200. `ApprovedAreListed`
has the warning as its exception, so a caller who ignores `warnings` has no such guarantee.

Seen while reading and not in any model: `handle()` of the MCP server returns an answer to
`initialize`, `ping` and `tools/list` without an id, where its docstring
(`src/mcp/server.py:243`) says None for notifications; and `related()`
(`src/core/graph_store.py:291`), which project state takes its latest artefacts from, orders by id
ascending, so that the limit keeps the oldest.

## 8 What is not modelled

- **Text and numbers in front of the stores**: the regular expressions that split sentences, find
  relations and count keywords, the keyword scores of `classify()`, hashing and cosine.
  Their results are constants of `ConversationIngest`, `AxisRouting` and `Preflight`; what the code
  does with them is modelled. Vector scores are not computed; which rows are compared is.
- **JSON-RPC framing** of the MCP server and the **HTTP protocol** (routing tables with their 404 and
  405, headers, how the rest of a large body is drained): parsing without state. That a body is refused
  with 400 or 413 before it reaches a handler is `RejectBody`.
- **Reads without consequence**: `event_state`, `queue_stats`, health, reindex,
  `decision_history`, `neighbors`, the ripgrep fallback, `all_entries`, other filters of `search()`.
- **Redaction**: string rewriting. **Command line**: argument parsing. **Containers.**
- **Several logs**: every log of `ConversationIngest` is the Hermes export; a log of another
  name has other fingerprints.
- **An edited rules file**: a process keeps the configuration it loaded. A changed embedder is
  `StoreIdentity`; tags of an older vocabulary are left out.
- **The wall clock** never goes back in the model; nothing in the code guarantees that.
- In `DecisionAuthority` the three commits of the audit edge are one step;
  `GraphStore` has them.

## 9 Plan

Done: all modules of section 2, in the order pipeline, intake, authority, identity,
preflight, budget, graph, HTTP, project state, conversation ingest and export, write path, axis
routing; the proofs of section 6.

What is left for proofs:

1. What the refinements carry over: that a property of `QueueContract`, such as settled-for-good, follows
   for the pipeline from the refinement rather than from the invariant.
2. The two liveness properties, as safety lemmas that a proof by hand would rest on: that an
   attempt in progress ends in at most a bounded number of steps of its worker, and that no
   handler keeps the dispatch lock.
3. The two-worker case of the write path: the weaker abstract consumer that any number
   of workers implements (settling by a count at most the row's).
