------------------------- MODULE DecisionAuthority -------------------------
(***************************************************************************)
(* How a decision gets into memory and becomes an approved one.  Any caller *)
(* may submit decisions with any status; PostflightEvent.parse() takes the  *)
(* authority out of them before they are queued; the worker stores them,    *)
(* as often as the queue makes it try; and the admin route of the one HTTP  *)
(* server promotes a stored row in three steps, between which the worker    *)
(* runs and the server may die.                                             *)
(*                                                                          *)
(* A row of the knowledge table is named by its fingerprint, "agent_event:  *)
(* <event>::<text>", which the table keeps UNIQUE; its integer id is        *)
(* one-to-one with it and rows are never deleted.                           *)
(***************************************************************************)
EXTENDS Integers, Sequences, FiniteSets

CONSTANTS
  Events,      \* the queued events
  Texts,       \* the texts that a body uses
  Bodies,      \* the bodies that callers post
  DecisionsIn, LessonsIn, TasksIn, SummaryIn,  \* body -> what its lists hold
  Failed,      \* the bodies with the status "failed"
  Approvers,   \* the values of approved_by
  NoBody, NoRow, NoCall

VALID_STATUSES == {"proposed", "approved", "rejected", "completed", "superseded"}

(* What callers write: a valid status, no status, or something else. *)
Submitted == VALID_STATUSES \cup {"none", "other"}

ASSUME BodiesAssumption ==
  /\ DecisionsIn \in [Bodies -> Seq(Texts \X Submitted)]
  /\ LessonsIn \in [Bodies -> Seq(Texts)]
  /\ TasksIn \in [Bodies -> Seq(Texts \X {"open", "completed"})]
  /\ SummaryIn \in [Bodies -> Seq(Texts)]
  /\ Failed \subseteq Bodies
  /\ NoBody \notin Bodies

VARIABLES
  body,       \* event -> its payload in the queue, or NoBody
  at,         \* event -> the next item to store, or 0 when no worker is on it
  settled,    \* the events that are done or dead
  skipped,    \* event -> the items that its last attempt reported as duplicates
  reported,   \* the events of which ingest_event() returned its report
  knowledge,  \* fingerprint -> its row, or NoRow
  edges,      \* the approved_decision edges <<approver, fingerprint>>
  stores,     \* which stores the server process has open
  stage,      \* where the server's approval handler is
  call,       \* the approval it handles, or NoCall
  asked       \* history: approvals that a local caller with the token asked for

queueVars  == <<body, at, settled, skipped, reported>>
serverVars == <<stores, stage, call>>
vars == <<queueVars, knowledge, edges, serverVars, asked>>

Memories == Events \X Texts

Rows == [type : {"decision", "knowledge", "task", "experience"},
         status : VALID_STATUSES]

ASSUME NoRowAssumption == NoRow \notin Rows

Stores == {"vector", "graph"}

(* What a CortexService comes up with: when either store does not open it    *)
(* closes the one that did and has neither.                                  *)
Openings == {Stores, {}}

Calls == [who : Approvers, memory : Memories, loopback : BOOLEAN, token : BOOLEAN]

-----------------------------------------------------------------------------
(* The body of a postflight, and what ingest_event() makes of it *)

(* Mutant: any status goes. *)
Parses_Anything(b) == TRUE

(* parse() answers 400 to a status outside VALID_STATUSES; none means proposed. *)
Parses(b) == \A k \in 1..Len(DecisionsIn[b]) : DecisionsIn[b][k][2] # "other"

(* Mutant: the submitted status is stored as it is. *)
StoredStatus_AsSubmitted(submitted) == IF submitted = "none" THEN "proposed" ELSE submitted

(* A privileged status is coerced, and so is a missing one. *)
StoredStatus(submitted) == IF submitted \in {"none", "approved"} THEN "proposed" ELSE submitted

Item(text, type, status) == [text |-> text, row |-> [type |-> type, status |-> status]]

DecisionItems(b) == [k \in 1..Len(DecisionsIn[b]) |->
  Item(DecisionsIn[b][k][1], "decision", StoredStatus(DecisionsIn[b][k][2]))]

LessonItems(b) == [k \in 1..Len(LessonsIn[b]) |-> Item(LessonsIn[b][k], "knowledge", "approved")]

TaskItems(b) == [k \in 1..Len(TasksIn[b]) |->
  Item(TasksIn[b][k][1], "task", IF TasksIn[b][k][2] = "completed" THEN "completed" ELSE "proposed")]

SummaryItems(b) == [k \in 1..Len(SummaryIn[b]) |->
  Item(SummaryIn[b][k], "experience", IF b \in Failed THEN "rejected" ELSE "approved")]

(* The rows of ingest_event() in the order it stores them. *)
ItemsOf(b) == DecisionItems(b) \o LessonItems(b) \o TaskItems(b) \o SummaryItems(b)

TypeOK ==
  /\ body \in [Events -> Bodies \cup {NoBody}]
  /\ at \in [Events -> Nat]
  /\ settled \subseteq Events
  /\ skipped \in [Events -> SUBSET Nat]
  /\ reported \subseteq Events
  /\ knowledge \in [Memories -> Rows \cup {NoRow}]
  /\ edges \subseteq Approvers \X Memories
  /\ stores \in Openings
  /\ stage \in {"idle", "lookup", "update", "audit"}
  /\ call \in Calls \cup {NoCall}
  /\ asked \subseteq Approvers \X Memories

Init ==
  /\ body = [e \in Events |-> NoBody]
  /\ at = [e \in Events |-> 0]
  /\ settled = {}
  /\ skipped = [e \in Events |-> {}]
  /\ reported = {}
  /\ knowledge = [m \in Memories |-> NoRow]
  /\ edges = {}
  /\ stores \in Openings
  /\ stage = "idle"
  /\ call = NoCall
  /\ asked = {}

-----------------------------------------------------------------------------
(* Submission and ingestion *)

(* A duplicate changes nothing: PostflightIntake. *)
Postflight(e, b) ==
  /\ Parses(b)
  /\ body[e] = NoBody
  /\ body' = [body EXCEPT ![e] = b]
  /\ UNCHANGED <<at, settled, skipped, reported, knowledge, edges, serverVars, asked>>

(* The worker claims the event and starts from its first item, again, and    *)
(* with a fresh report.                                                      *)
BeginEvent(e) ==
  /\ body[e] # NoBody
  /\ e \notin settled
  /\ at[e] = 0
  /\ at' = [at EXCEPT ![e] = 1]
  /\ skipped' = [skipped EXCEPT ![e] = {}]
  /\ reported' = reported \ {e}
  /\ UNCHANGED <<body, settled, knowledge, edges, serverVars, asked>>

(* Mutant: INSERT OR REPLACE. *)
Add_Replaces(m, row) == knowledge' = [knowledge EXCEPT ![m] = row]

(* VectorStore.add(): INSERT OR IGNORE, so the first row of a fingerprint stays. *)
Add(m, row) == knowledge' = IF knowledge[m] = NoRow THEN [knowledge EXCEPT ![m] = row] ELSE knowledge

(* Mutant: what add() returns is not looked at. *)
Refused_Never(m) == FALSE

(* add() returns None: the row was there. *)
Refused(m) == knowledge[m] # NoRow

(* _store(): an item that the store refuses is not counted but listed. *)
StoreNext(e) ==
  /\ at[e] > 0
  /\ at[e] <= Len(ItemsOf(body[e]))
  /\ LET item == ItemsOf(body[e])[at[e]] IN
       /\ Add(<<e, item.text>>, item.row)
       /\ skipped' = IF Refused(<<e, item.text>>) THEN [skipped EXCEPT ![e] = @ \cup {at[e]}] ELSE skipped
  /\ at' = [at EXCEPT ![e] = @ + 1]
  /\ UNCHANGED <<body, settled, reported, edges, serverVars, asked>>

(* The worker dies or ingest_event() raises; the event is retried or dead. *)
AbandonEvent(e) ==
  /\ at[e] > 0
  /\ at' = [at EXCEPT ![e] = 0]
  /\ settled' \in {settled, settled \cup {e}}
  /\ UNCHANGED <<body, skipped, reported, knowledge, edges, serverVars, asked>>

(* ingest_event() returns its report; the worker may die before the ack. *)
FinishEvent(e) ==
  /\ at[e] > 0
  /\ at[e] > Len(ItemsOf(body[e]))
  /\ at' = [at EXCEPT ![e] = 0]
  /\ reported' = reported \cup {e}
  /\ settled' \in {settled, settled \cup {e}}
  /\ UNCHANGED <<body, skipped, knowledge, edges, serverVars, asked>>

-----------------------------------------------------------------------------
(* POST /v1/admin/decision/{id}/approve.  The dispatch lock lets the one     *)
(* server handle one call at a time.                                         *)

Goto(place) == stage' = place /\ UNCHANGED <<stores, call>>
Answer == stage' = "idle" /\ call' = NoCall /\ UNCHANGED stores

(* require_localhost() and authorise_admin(): anything else is 401 or 403. *)
Admits(c) == c.loopback /\ c.token

Receive(c) ==
  /\ stage = "idle"
  /\ stage' = IF Admits(c) THEN "lookup" ELSE "idle"
  /\ call' = IF Admits(c) THEN c ELSE NoCall
  /\ asked' = IF Admits(c) THEN asked \cup {<<c.who, c.memory>>} ELSE asked
  /\ UNCHANGED <<queueVars, knowledge, edges, stores>>

(* get_by_id(id, expected_type="decision") *)
IsDecision(m) == knowledge[m] # NoRow /\ knowledge[m].type = "decision"

(* Mutant: an approved decision can be approved again. *)
Lookup_IgnoresStatus ==
  /\ stage = "lookup"
  /\ IF "vector" \in stores /\ IsDecision(call.memory) THEN Goto("update") ELSE Answer
  /\ UNCHANGED <<queueVars, knowledge, edges, asked>>

(* 503, 404, 200 "already approved" or 409 end the call here. *)
Lookup ==
  /\ stage = "lookup"
  /\ IF "vector" \in stores /\ IsDecision(call.memory) /\ knowledge[call.memory].status = "proposed"
       THEN Goto("update")
       ELSE Answer
  /\ UNCHANGED <<queueVars, knowledge, edges, asked>>

(* set_status(): an UPDATE by id that asks nothing about the status. *)
Update ==
  /\ stage = "update"
  /\ knowledge' = [knowledge EXCEPT ![call.memory].status = "approved"]
  /\ Goto("audit")
  /\ UNCHANGED <<queueVars, edges, asked>>

(* The UPDATE raises ("locked"): 500. *)
UpdateRaises ==
  /\ stage = "update"
  /\ Answer
  /\ UNCHANGED <<queueVars, knowledge, edges, asked>>

Audit ==
  /\ stage = "audit"
  /\ "graph" \in stores
  /\ edges' = edges \cup {<<call.who, call.memory>>}
  /\ Answer
  /\ UNCHANGED <<queueVars, knowledge, asked>>

(* add_edge() raises ("locked"): a warning in the log, and 200 all the same. *)
AuditSkipped ==
  /\ stage = "audit"
  /\ Answer
  /\ UNCHANGED <<queueVars, knowledge, edges, asked>>

(* The server dies, at any place, and comes back; this time its stores may   *)
(* open or not.                                                              *)
Restart ==
  /\ stage' = "idle"
  /\ call' = NoCall
  /\ stores' \in Openings
  /\ UNCHANGED <<queueVars, knowledge, edges, asked>>

-----------------------------------------------------------------------------

Next ==
  \/ \E e \in Events :
       \/ \E b \in Bodies : Postflight(e, b)
       \/ BeginEvent(e) \/ StoreNext(e) \/ AbandonEvent(e) \/ FinishEvent(e)
  \/ \E c \in Calls : Receive(c)
  \/ Lookup \/ Update \/ UpdateRaises \/ Audit \/ AuditSkipped \/ Restart

Spec == Init /\ [][Next]_vars

-----------------------------------------------------------------------------
(* Properties *)

Approved(m) == IsDecision(m) /\ knowledge[m].status = "approved"

(* Only the admin transition mints authority: whatever statuses, lessons and *)
(* equal texts callers put into their bodies, and however often the worker  *)
(* ingests them, a decision that reads as approved is one that a local      *)
(* caller with the token asked to approve.                                  *)
AuthorityIsGranted ==
  \A m \in Memories : Approved(m) => \E who \in Approvers : <<who, m>> \in asked

(* A verdict is final: a worker that ingests the event again, after a crash  *)
(* or a failure, does not undo an approval, and no approval makes a closed   *)
(* decision current truth again, whatever was stored between its steps.     *)
VerdictIsFinal ==
  [][\A m \in Memories :
       IsDecision(m) /\ knowledge[m].status # "proposed" => knowledge'[m] = knowledge[m]]_vars

(* The audit edges never disagree with the table or with each other: an     *)
(* edge names an approved decision and someone who asked for it, and no     *)
(* decision is attributed to two approvers, however calls are repeated      *)
(* after a crash in the middle of one.                                      *)
AuditIsTrue ==
  /\ \A edge \in edges : edge \in asked /\ Approved(edge[2])
  /\ \A a, b \in edges : a[2] = b[2] => a = b

(* A report tells what was lost from what was stored: an item that is not    *)
(* listed as skipped is the row of its fingerprint, of its own type and with *)
(* its own status unless it was approved since, and a listed one met a row.  *)
SkippedIsReported ==
  \A e \in reported : \A k \in 1..Len(ItemsOf(body[e])) :
    LET item == ItemsOf(body[e])[k] IN
    LET found == knowledge[<<e, item.text>>] IN
      IF k \in skipped[e] THEN found # NoRow
      ELSE found # NoRow /\ (found = item.row \/ found = [item.row EXCEPT !.status = "approved"])

(* service.py, approve_decision(): an approval with no attribution is       *)
(* exactly the gap this endpoint exists to close.                           *)
ApprovalIsAttributed ==
  stage = "idle" => \A m \in Memories : Approved(m) => \E who \in Approvers : <<who, m>> \in edges

(* SECURITY_MODEL section 4: every submitted decision is treated as proposed, *)
(* so until an admin approves it that is what its row says.                  *)
SubmittedIsProposed ==
  \A m \in Memories : IsDecision(m) => knowledge[m].status \in {"proposed", "approved"}
=============================================================================
