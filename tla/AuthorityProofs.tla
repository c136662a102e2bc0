-------------------------- MODULE AuthorityProofs --------------------------
(***************************************************************************)
(* For any events, bodies, texts, approvers and MCP servers: authority comes *)
(* from the admin route alone and stays, the audit and the report do not    *)
(* lie, and an answer about a project's state neither repeats nor loses a   *)
(* decision.                                                                *)
(***************************************************************************)
EXTENDS ProjectState, SequenceTheorems, FiniteSetTheorems, TLAPS

(* What a body may become: every row but an approved decision. *)
Harmless == {item \in [text : Texts, row : Rows] :
  ~(item.row.type = "decision" /\ item.row.status = "approved")}

(* Only bodies that parse are queued; a worker is on a queued event, within  *)
(* its items, and what it has listed as skipped lies behind it.             *)
QueueInv ==
  \A e \in Events :
    /\ body[e] # NoBody => Parses(body[e])
    /\ at[e] > 0 \/ e \in reported => body[e] # NoBody
    /\ at[e] > 0 => e \notin reported /\ \A k \in skipped[e] : k < at[e]

(* The handler works on an approval that was asked for, of a row that it     *)
(* found proposed; nobody else changes that row or its edges meanwhile.     *)
HandlerInv ==
  stage # "idle" =>
    /\ call \in Calls
    /\ <<call.who, call.memory>> \in asked
    /\ stage = "update" => IsDecision(call.memory) /\ knowledge[call.memory].status = "proposed"
    /\ stage = "audit" =>
         Approved(call.memory) /\ \A edge \in edges : edge[2] # call.memory

(* An item that was stored or skipped: its fingerprint has a row. *)
Accounted(e, k) ==
  LET item == ItemsOf(body[e])[k]
      found == knowledge[<<e, item.text>>]
  IN  /\ found # NoRow
      /\ k \notin skipped[e] => found = item.row \/ found = [item.row EXCEPT !.status = "approved"]

(* Items that the worker has behind it, or that a report speaks of. *)
ReportInv ==
  \A e \in Events : at[e] > 0 \/ e \in reported =>
    \A k \in 1..Len(ItemsOf(body[e])) : k < at[e] \/ e \in reported => Accounted(e, k)

AuthorityInv ==
  /\ TypeOK /\ QueueInv /\ HandlerInv /\ ReportInv
  /\ AuthorityIsGranted /\ AuditIsTrue

-----------------------------------------------------------------------------
(* What is stored *)

(* StoredStatus() never leaves "approved" on a decision: the one thing that  *)
(* the code says of every row that ingest_event() builds.                   *)
LEMMA ItemsType ==
  ASSUME NEW b \in Bodies, Parses(b)
  PROVE  ItemsOf(b) \in Seq(Harmless)
  <1>1. DecisionItems(b) \in Seq(Harmless)
    <2>1. DecisionsIn[b] \in Seq(Texts \X Submitted)
      BY BodiesAssumption
    <2>2. \A k \in 1..Len(DecisionsIn[b]) :
            DecisionsIn[b][k] \in Texts \X Submitted /\ DecisionsIn[b][k][2] # "other"
      BY <2>1, ElementOfSeq DEF Parses
    <2>3. \A k \in 1..Len(DecisionsIn[b]) : DecisionItems(b)[k] \in Harmless
      BY <2>2 DEF DecisionItems, Item, Harmless, Rows, StoredStatus, Submitted, VALID_STATUSES
    <2>4. DecisionItems(b) = [k \in 1..Len(DecisionsIn[b]) |-> DecisionItems(b)[k]]
      BY DEF DecisionItems
    <2>5. Len(DecisionsIn[b]) \in Nat
      BY <2>1, LenProperties
    <2>. QED
      BY <2>3, <2>4, <2>5, IsASeq
  <1>2. LessonItems(b) \in Seq(Harmless)
    <2>1. LessonsIn[b] \in Seq(Texts)
      BY BodiesAssumption
    <2>2. \A k \in 1..Len(LessonsIn[b]) : LessonItems(b)[k] \in Harmless
      BY <2>1, ElementOfSeq DEF LessonItems, Item, Harmless, Rows, VALID_STATUSES
    <2>3. LessonItems(b) = [k \in 1..Len(LessonsIn[b]) |-> LessonItems(b)[k]]
      BY DEF LessonItems
    <2>. QED
      BY <2>1, <2>2, <2>3, LenProperties, IsASeq
  <1>3. TaskItems(b) \in Seq(Harmless)
    <2>1. TasksIn[b] \in Seq(Texts \X {"open", "completed"})
      BY BodiesAssumption
    <2>2. \A k \in 1..Len(TasksIn[b]) : TasksIn[b][k] \in Texts \X {"open", "completed"}
      BY <2>1, ElementOfSeq
    <2>3. \A k \in 1..Len(TasksIn[b]) : TaskItems(b)[k] \in Harmless
      BY <2>2 DEF TaskItems, Item, Harmless, Rows, VALID_STATUSES
    <2>4. TaskItems(b) = [k \in 1..Len(TasksIn[b]) |-> TaskItems(b)[k]]
      BY DEF TaskItems
    <2>5. Len(TasksIn[b]) \in Nat
      BY <2>1, LenProperties
    <2>. QED
      BY <2>3, <2>4, <2>5, IsASeq
  <1>4. SummaryItems(b) \in Seq(Harmless)
    <2>1. SummaryIn[b] \in Seq(Texts)
      BY BodiesAssumption
    <2>2. \A k \in 1..Len(SummaryIn[b]) : SummaryItems(b)[k] \in Harmless
      BY <2>1, ElementOfSeq DEF SummaryItems, Item, Harmless, Rows, VALID_STATUSES
    <2>3. SummaryItems(b) = [k \in 1..Len(SummaryIn[b]) |-> SummaryItems(b)[k]]
      BY DEF SummaryItems
    <2>. QED
      BY <2>1, <2>2, <2>3, LenProperties, IsASeq
  <1>. QED
    BY <1>1, <1>2, <1>3, <1>4, ConcatProperties DEF ItemsOf

(* An item of a queued body, at any place a worker can be at. *)
LEMMA ItemIsHarmless ==
  ASSUME AuthorityInv, NEW e \in Events, body[e] # NoBody, NEW k \in Nat,
         k > 0, k <= Len(ItemsOf(body[e]))
  PROVE  ItemsOf(body[e])[k] \in Harmless
  <1>1. body[e] \in Bodies /\ Parses(body[e])
    BY DEF AuthorityInv, TypeOK, QueueInv
  <1>2. ItemsOf(body[e]) \in Seq(Harmless)
    BY <1>1, ItemsType
  <1>. QED
    BY <1>2, LenProperties, ElementOfSeq

(* What a step may do to a row that is there: approve a proposed decision. *)
Kept ==
  \A m \in Memories : knowledge[m] # NoRow =>
    \/ knowledge'[m] = knowledge[m]
    \/ /\ stage = "update" /\ m = call.memory
       /\ IsDecision(m) /\ knowledge[m].status = "proposed"
       /\ knowledge'[m] = [knowledge[m] EXCEPT !.status = "approved"]

LEMMA StoreKeeps ==
  ASSUME AuthorityInv, NEW e \in Events, StoreNext(e)
  PROVE  \E item \in Harmless :
           /\ item = ItemsOf(body[e])[at[e]]
           /\ <<e, item.text>> \in Memories
           /\ knowledge' = IF knowledge[<<e, item.text>>] = NoRow
                             THEN [knowledge EXCEPT ![<<e, item.text>>] = item.row]
                             ELSE knowledge
           /\ skipped' = IF knowledge[<<e, item.text>>] # NoRow
                           THEN [skipped EXCEPT ![e] = @ \cup {at[e]}]
                           ELSE skipped
  <1>1. at[e] \in Nat /\ body[e] # NoBody
    BY DEF AuthorityInv, TypeOK, QueueInv, StoreNext
  <1>2. ItemsOf(body[e])[at[e]] \in Harmless
    BY <1>1, ItemIsHarmless DEF StoreNext
  <1>3. <<e, ItemsOf(body[e])[at[e]].text>> \in Memories
    BY <1>2 DEF Harmless, Memories
  <1>. QED
    BY <1>2, <1>3 DEF StoreNext, Add, Refused

LEMMA NextKeeps ==
  ASSUME AuthorityInv, [Next]_vars
  PROVE  Kept
  <1>1. ASSUME NEW e \in Events, StoreNext(e)
        PROVE  Kept
    <2>1. PICK item \in Harmless :
            knowledge' = IF knowledge[<<e, item.text>>] = NoRow
                           THEN [knowledge EXCEPT ![<<e, item.text>>] = item.row]
                           ELSE knowledge
      BY <1>1, StoreKeeps
    <2>. QED
      BY <2>1 DEF Kept, AuthorityInv, TypeOK
  <1>2. CASE Update
    BY <1>2 DEF Kept, Update, AuthorityInv, TypeOK, HandlerInv, IsDecision
  <1>3. ASSUME UNCHANGED knowledge
        PROVE  Kept
    BY <1>3 DEF Kept
  <1>. QED
    BY <1>1, <1>2, <1>3 DEF Next, vars, Postflight, BeginEvent, AbandonEvent, FinishEvent, Receive,
                            Lookup, UpdateRaises, Audit, AuditSkipped, Restart

(* A verdict is sealed by it. *)
LEMMA Sealed ==
  ASSUME AuthorityInv, Kept
  PROVE  /\ \A m \in Memories : IsDecision(m) /\ knowledge[m].status # "proposed" =>
              knowledge'[m] = knowledge[m]
         /\ \A m \in Memories : Approved(m) => Approved(m)'
         /\ \A m \in Memories : knowledge[m] # NoRow => knowledge'[m] # NoRow
  <1>1. \A m \in Memories : IsDecision(m) /\ knowledge[m].status # "proposed" =>
          knowledge'[m] = knowledge[m]
    BY DEF Kept, IsDecision
  <1>2. \A m \in Memories : Approved(m) => Approved(m)'
    BY <1>1 DEF Approved, IsDecision
  <1>3. \A m \in Memories : knowledge[m] # NoRow => knowledge'[m] # NoRow
    <2>. SUFFICES ASSUME NEW m \in Memories, knowledge[m] # NoRow, knowledge'[m] # knowledge[m]
                  PROVE  knowledge'[m] # NoRow
      OBVIOUS
    <2>1. knowledge[m] \in Rows
      BY DEF AuthorityInv, TypeOK
    <2>2. knowledge'[m] = [knowledge[m] EXCEPT !.status = "approved"]
      BY DEF Kept
    <2>3. knowledge'[m] \in Rows
      BY <2>1, <2>2 DEF Rows, VALID_STATUSES
    <2>. QED
      BY <2>3, NoRowAssumption
  <1>. QED
    BY <1>1, <1>2, <1>3

(* And so is what a worker has behind it. *)
LEMMA AccountedLasts ==
  ASSUME AuthorityInv, Kept, NEW e \in Events, body[e] # NoBody, body'[e] = body[e],
         NEW k \in Nat, k > 0, k <= Len(ItemsOf(body[e])), k \in skipped'[e] <=> k \in skipped[e],
         Accounted(e, k)
  PROVE  Accounted(e, k)'
  <1>. DEFINE item == ItemsOf(body[e])[k]
              m == <<e, item.text>>
  <1>1. item \in Harmless /\ m \in Memories
    BY ItemIsHarmless DEF Harmless, Memories
  <1>2. knowledge'[m] # NoRow
    BY <1>1, Sealed DEF Accounted
  <1>3. ASSUME k \notin skipped[e]
        PROVE  knowledge'[m] = item.row \/ knowledge'[m] = [item.row EXCEPT !.status = "approved"]
    <2>1. knowledge[m] = item.row \/ knowledge[m] = [item.row EXCEPT !.status = "approved"]
      BY <1>3 DEF Accounted
    <2>2. CASE knowledge'[m] = knowledge[m]
      BY <2>1, <2>2
    <2>3. CASE knowledge'[m] # knowledge[m]
      <3>1. /\ knowledge[m].status = "proposed"
            /\ knowledge'[m] = [knowledge[m] EXCEPT !.status = "approved"]
        BY <1>1, <2>3 DEF Kept, Accounted
      <3>2. knowledge[m] # [item.row EXCEPT !.status = "approved"]
        BY <3>1, <1>1 DEF Harmless, Rows
      <3>. QED
        BY <2>1, <3>1, <3>2
    <2>. QED
      BY <2>2, <2>3
  <1>4. ItemsOf(body[e])' = ItemsOf(body[e])
    BY DEF ItemsOf, DecisionItems, LessonItems, TaskItems, SummaryItems
  <1>. HIDE DEF item, m
  <1>. QED
    BY <1>2, <1>3, <1>4 DEF Accounted, item, m
-----------------------------------------------------------------------------
(* The steps of the queue and the worker *)

(* They do not see the server, and it does not see them, but for the table. *)
LEMMA ServerSame ==
  ASSUME AuthorityInv, UNCHANGED <<knowledge, edges, serverVars, asked>>
  PROVE  HandlerInv' /\ AuthorityIsGranted' /\ AuditIsTrue'
  BY DEF AuthorityInv, HandlerInv, AuthorityIsGranted, AuditIsTrue, Approved, IsDecision, serverVars,
         Memories, Calls

LEMMA QueueSame ==
  ASSUME AuthorityInv, Kept, UNCHANGED queueVars
  PROVE  QueueInv' /\ ReportInv'
  <1>1. QueueInv'
    BY DEF AuthorityInv, QueueInv, queueVars, Parses
  <1>2. ASSUME NEW e \in Events, at[e] > 0 \/ e \in reported, NEW k \in 1..Len(ItemsOf(body[e])),
               k < at[e] \/ e \in reported
        PROVE  Accounted(e, k)'
    <2>1. body[e] # NoBody
      BY <1>2 DEF AuthorityInv, QueueInv
    <2>2. Accounted(e, k)
      BY <1>2 DEF AuthorityInv, ReportInv
    <2>3. k \in Nat /\ k > 0 /\ k <= Len(ItemsOf(body[e]))
      <3>1. body[e] \in Bodies /\ Parses(body[e])
        BY <2>1 DEF AuthorityInv, TypeOK, QueueInv
      <3>. QED
        BY <1>2, <3>1, ItemsType, LenProperties
    <2>. QED
      BY <2>1, <2>2, <2>3, AccountedLasts DEF queueVars
  <1>3. body' = body /\ at' = at /\ reported' = reported
    BY DEF queueVars
  <1>4. \A e \in Events : ItemsOf(body[e])' = ItemsOf(body[e])
    BY <1>3 DEF ItemsOf, DecisionItems, LessonItems, TaskItems, SummaryItems
  <1>5. ReportInv'
    BY <1>2, <1>3, <1>4 DEF ReportInv
  <1>. QED
    BY <1>1, <1>5

LEMMA PostflightInv ==
  ASSUME AuthorityInv, NEW e \in Events, NEW b \in Bodies, Postflight(e, b)
  PROVE  AuthorityInv'
  <1>1. TypeOK'
    BY DEF AuthorityInv, TypeOK, Postflight, serverVars
  <1>2. QueueInv'
    BY BodiesAssumption DEF AuthorityInv, TypeOK, QueueInv, Postflight, Parses
  <1>3. ReportInv'
    <2>1. ASSUME NEW f \in Events, at[f] > 0 \/ f \in reported
          PROVE  f # e /\ ItemsOf(body[f])' = ItemsOf(body[f])
      BY <2>1 DEF AuthorityInv, TypeOK, QueueInv, Postflight, ItemsOf, DecisionItems, LessonItems,
                  TaskItems, SummaryItems
    <2>. QED
      BY <2>1 DEF AuthorityInv, ReportInv, Accounted, Postflight
  <1>. QED
    BY <1>1, <1>2, <1>3, ServerSame DEF AuthorityInv, Postflight

(* A claim forgets the last report, so that it starts with nothing to account for. *)
LEMMA BeginEventInv ==
  ASSUME AuthorityInv, NEW e \in Events, BeginEvent(e)
  PROVE  AuthorityInv'
  <1>1. TypeOK'
    BY DEF AuthorityInv, TypeOK, BeginEvent, serverVars
  <1>2. QueueInv'
    BY DEF AuthorityInv, TypeOK, QueueInv, BeginEvent, Parses
  <1>3. ReportInv'
    <2>1. \A f \in Events : ItemsOf(body[f])' = ItemsOf(body[f])
      BY DEF BeginEvent, ItemsOf, DecisionItems, LessonItems, TaskItems, SummaryItems
    <2>2. ASSUME NEW f \in Events, f # e, NEW k, Accounted(f, k)
          PROVE  Accounted(f, k)'
      BY <2>1, <2>2 DEF AuthorityInv, TypeOK, BeginEvent, Accounted
    <2>3. at'[e] = 1 /\ e \notin reported'
      BY DEF AuthorityInv, TypeOK, BeginEvent
    <2>4. \A f \in Events : f # e => at'[f] = at[f] /\ (f \in reported' <=> f \in reported)
      BY DEF AuthorityInv, TypeOK, BeginEvent
    <2>5. ASSUME NEW f \in Events, at'[f] > 0 \/ f \in reported', NEW k \in 1..Len(ItemsOf(body[f])),
                 k < at'[f] \/ f \in reported'
          PROVE  Accounted(f, k)'
      <3>1. CASE f = e
        <4>1. body[e] \in Bodies /\ Parses(body[e])
          BY DEF AuthorityInv, TypeOK, QueueInv, BeginEvent
        <4>2. Len(ItemsOf(body[e])) \in Nat
          BY <4>1, ItemsType, LenProperties
        <4>. QED
          BY <2>3, <2>5, <3>1, <4>2
      <3>2. CASE f # e
        BY <2>2, <2>4, <2>5, <3>2 DEF AuthorityInv, ReportInv
      <3>. QED
        BY <3>1, <3>2
    <2>. QED
      BY <2>1, <2>5 DEF ReportInv
  <1>. QED
    BY <1>1, <1>2, <1>3, ServerSame DEF AuthorityInv, BeginEvent

(* An attempt ends, with a report only if every item is behind it. *)
LEMMA EndEventInv ==
  ASSUME AuthorityInv, NEW e \in Events, AbandonEvent(e) \/ FinishEvent(e)
  PROVE  AuthorityInv'
  <1>. USE DEF AbandonEvent, FinishEvent
  <1>1. TypeOK'
    <2>1. /\ settled' \subseteq Events /\ reported' \subseteq Events
          /\ at' = [at EXCEPT ![e] = 0]
          /\ UNCHANGED <<body, skipped, knowledge, edges, stores, stage, call, asked>>
      BY DEF AuthorityInv, TypeOK, serverVars
    <2>. QED
      BY <2>1 DEF AuthorityInv, TypeOK
  <1>2. QueueInv'
    BY DEF AuthorityInv, TypeOK, QueueInv, Parses
  <1>3. ReportInv'
    <2>1. \A f \in Events : ItemsOf(body[f])' = ItemsOf(body[f])
      BY DEF ItemsOf, DecisionItems, LessonItems, TaskItems, SummaryItems
    <2>2. \A f \in Events : \A k : Accounted(f, k) => Accounted(f, k)'
      BY <2>1 DEF Accounted
    <2>3. at'[e] = 0 /\ (e \in reported' => e \in reported \/ at[e] > Len(ItemsOf(body[e])))
      BY DEF AuthorityInv, TypeOK
    <2>4. \A f \in Events : f # e => at'[f] = at[f] /\ (f \in reported' <=> f \in reported)
      BY DEF AuthorityInv, TypeOK
    <2>5. at[e] > 0 /\ at[e] \in Nat
      BY DEF AuthorityInv, TypeOK
    <2>6. ASSUME NEW f \in Events, at'[f] > 0 \/ f \in reported', NEW k \in 1..Len(ItemsOf(body[f])),
                 k < at'[f] \/ f \in reported'
          PROVE  Accounted(f, k)'
      <3>1. CASE f = e
        <4>1. body[e] \in Bodies /\ Parses(body[e])
          BY <2>5 DEF AuthorityInv, TypeOK, QueueInv
        <4>2. Len(ItemsOf(body[e])) \in Nat
          BY <4>1, ItemsType, LenProperties
        <4>3. k < at[e] \/ e \in reported
          BY <2>3, <2>5, <2>6, <3>1, <4>2
        <4>. QED
          BY <2>2, <2>5, <2>6, <3>1, <4>3 DEF AuthorityInv, ReportInv
      <3>2. CASE f # e
        BY <2>2, <2>4, <2>6, <3>2 DEF AuthorityInv, ReportInv
      <3>. QED
        BY <3>1, <3>2
    <2>. QED
      BY <2>1, <2>6 DEF ReportInv
  <1>. QED
    BY <1>1, <1>2, <1>3, ServerSame DEF AuthorityInv

(* An item is stored or listed, and then lies behind the worker. *)
LEMMA StoreNextInv ==
  ASSUME AuthorityInv, NEW e \in Events, StoreNext(e)
  PROVE  AuthorityInv'
  <1>0. PICK item \in Harmless :
           /\ item = ItemsOf(body[e])[at[e]]
           /\ <<e, item.text>> \in Memories
           /\ knowledge' = IF knowledge[<<e, item.text>>] = NoRow
                             THEN [knowledge EXCEPT ![<<e, item.text>>] = item.row]
                             ELSE knowledge
           /\ skipped' = IF knowledge[<<e, item.text>>] # NoRow
                           THEN [skipped EXCEPT ![e] = @ \cup {at[e]}]
                           ELSE skipped
    BY StoreKeeps
  <1>. DEFINE m == <<e, item.text>>
  <1>1. /\ item.row \in Rows /\ item.row # NoRow
        /\ ~(item.row.type = "decision" /\ item.row.status = "approved")
    BY NoRowAssumption DEF Harmless
  <1>2. /\ at[e] \in Nat /\ at[e] > 0 /\ at' = [at EXCEPT ![e] = @ + 1]
        /\ UNCHANGED <<body, settled, reported, edges, stores, stage, call, asked>>
    BY DEF AuthorityInv, TypeOK, StoreNext, serverVars
  <1>3. TypeOK'
    BY <1>0, <1>1, <1>2 DEF AuthorityInv, TypeOK
  <1>4. QueueInv'
    <2>1. \A f \in Events : f # e => at'[f] = at[f] /\ skipped'[f] = skipped[f]
      BY <1>0, <1>2 DEF AuthorityInv, TypeOK
    <2>2. at'[e] = at[e] + 1 /\ skipped'[e] \subseteq skipped[e] \cup {at[e]}
      BY <1>0, <1>2 DEF AuthorityInv, TypeOK
    <2>3. \A k \in skipped'[e] : k < at'[e]
      BY <1>2, <2>2 DEF AuthorityInv, TypeOK, QueueInv
    <2>4. ASSUME NEW f \in Events
          PROVE  /\ body[f] # NoBody => Parses(body[f])
                 /\ at'[f] > 0 \/ f \in reported => body[f] # NoBody
                 /\ at'[f] > 0 => f \notin reported /\ \A k \in skipped'[f] : k < at'[f]
      BY <1>2, <2>1, <2>2, <2>3 DEF AuthorityInv, QueueInv
    <2>. QED
      BY <1>2, <2>4 DEF QueueInv, Parses
  <1>5. Kept
    BY NextKeeps DEF Next
  <1>6. ReportInv'
    <2>1. \A f \in Events : ItemsOf(body[f])' = ItemsOf(body[f])
      BY <1>2 DEF ItemsOf, DecisionItems, LessonItems, TaskItems, SummaryItems
    <2>2. ASSUME NEW f \in Events, at'[f] > 0 \/ f \in reported', NEW k \in 1..Len(ItemsOf(body[f])),
                 k < at'[f] \/ f \in reported'
          PROVE  Accounted(f, k)'
      <3>1. body[f] \in Bodies /\ Parses(body[f])
        BY <1>2, <2>2 DEF AuthorityInv, TypeOK, QueueInv
      <3>2. k \in Nat /\ k > 0 /\ k <= Len(ItemsOf(body[f]))
        BY <2>2, <3>1, ItemsType, LenProperties
      <3>3. CASE f = e /\ k = at[e]
        <4>1. CASE knowledge[m] = NoRow
          <5>1. knowledge'[m] = item.row
            BY <1>0, <4>1 DEF AuthorityInv, TypeOK
          <5>. QED
            BY <1>0, <1>1, <2>1, <3>3, <5>1 DEF Accounted
        <4>2. CASE knowledge[m] # NoRow
          <5>1. knowledge'[m] = knowledge[m] /\ k \in skipped'[e]
            BY <1>0, <3>3, <4>2 DEF AuthorityInv, TypeOK
          <5>. QED
            BY <1>0, <2>1, <3>3, <4>2, <5>1 DEF Accounted
        <4>. QED
          BY <4>1, <4>2
      <3>4. CASE ~(f = e /\ k = at[e])
        <4>1. k < at[f] \/ f \in reported
          BY <1>2, <2>2, <3>2, <3>4 DEF AuthorityInv, TypeOK
        <4>2. Accounted(f, k)
          BY <2>2, <3>2, <4>1 DEF AuthorityInv, ReportInv, TypeOK
        <4>3. k \in skipped'[f] <=> k \in skipped[f]
          BY <1>0, <3>4 DEF AuthorityInv, TypeOK
        <4>4. body[f] # NoBody /\ body'[f] = body[f]
          BY <1>2, <3>1, BodiesAssumption
        <4>. QED
          BY <1>5, <3>2, <4>2, <4>3, <4>4, AccountedLasts
      <3>. QED
        BY <3>3, <3>4
    <2>. QED
      BY <2>1, <2>2 DEF ReportInv
  <1>7. \A n \in Memories : Approved(n)' => Approved(n)
    BY <1>0, <1>1 DEF AuthorityInv, TypeOK, Approved, IsDecision
  <1>8. \A n \in Memories : Approved(n) => Approved(n)'
    BY <1>5, Sealed
  <1>9. HandlerInv'
    <2>1. stage # "idle" => call.memory \in Memories
      BY DEF AuthorityInv, HandlerInv, Calls
    <2>2. \A n \in Memories : knowledge[n] # NoRow => knowledge'[n] = knowledge[n]
      BY <1>0 DEF AuthorityInv, TypeOK
    <2>. QED
      BY <1>2, <2>1, <2>2 DEF AuthorityInv, HandlerInv, Approved, IsDecision
  <1>10. AuthorityIsGranted'
    BY <1>2, <1>7 DEF AuthorityInv, AuthorityIsGranted, Memories
  <1>11. AuditIsTrue'
    BY <1>2, <1>8 DEF AuthorityInv, TypeOK, AuditIsTrue
  <1>. QED
    BY <1>3, <1>4, <1>6, <1>9, <1>10, <1>11 DEF AuthorityInv
-----------------------------------------------------------------------------
(* The steps of the approval handler *)

LEMMA ReceiveInv ==
  ASSUME AuthorityInv, NEW c \in Calls, Receive(c)
  PROVE  AuthorityInv'
  <1>1. /\ stage' \in {"idle", "lookup"}
        /\ stage' = "lookup" => call' = c /\ <<c.who, c.memory>> \in asked'
        /\ call' \in {c, NoCall} /\ asked' \in {asked, asked \cup {<<c.who, c.memory>>}}
        /\ UNCHANGED <<queueVars, knowledge, edges, stores>>
    BY DEF Receive
  <1>2. c.who \in Approvers /\ c.memory \in Memories
    BY DEF Calls
  <1>3. TypeOK'
    BY <1>1, <1>2 DEF AuthorityInv, TypeOK, queueVars
  <1>4. Kept
    BY <1>1 DEF Kept
  <1>5. HandlerInv'
    BY <1>1 DEF HandlerInv
  <1>6. AuthorityIsGranted'
    BY <1>1 DEF AuthorityInv, AuthorityIsGranted, Approved, IsDecision, Memories
  <1>7. AuditIsTrue'
    BY <1>1 DEF AuthorityInv, AuditIsTrue, Approved, IsDecision
  <1>. QED
    BY <1>1, <1>3, <1>4, <1>5, <1>6, <1>7, QueueSame DEF AuthorityInv

(* A step that ends the call, or goes on with a row that was found proposed. *)
LEMMA LookupInv ==
  ASSUME AuthorityInv, Lookup
  PROVE  AuthorityInv'
  <1>1. /\ stage = "lookup"
        /\ UNCHANGED <<queueVars, knowledge, edges, asked, stores>>
        /\ \/ stage' = "idle" /\ call' = NoCall
           \/ /\ stage' = "update" /\ call' = call
              /\ IsDecision(call.memory) /\ knowledge[call.memory].status = "proposed"
    BY DEF Lookup, Goto, Answer
  <1>2. TypeOK'
    BY <1>1 DEF AuthorityInv, TypeOK, queueVars
  <1>3. Kept
    BY <1>1 DEF Kept
  <1>4. HandlerInv'
    BY <1>1 DEF AuthorityInv, HandlerInv, IsDecision, Calls
  <1>5. AuthorityIsGranted'
    BY <1>1 DEF AuthorityInv, AuthorityIsGranted, Approved, IsDecision, Memories
  <1>6. AuditIsTrue'
    BY <1>1 DEF AuthorityInv, AuditIsTrue, Approved, IsDecision
  <1>. QED
    BY <1>1, <1>2, <1>3, <1>4, <1>5, <1>6, QueueSame DEF AuthorityInv

(* The one step that mints authority. *)
LEMMA UpdateInv ==
  ASSUME AuthorityInv, Update
  PROVE  AuthorityInv'
  <1>. DEFINE m == call.memory
  <1>1. /\ call \in Calls /\ m \in Memories /\ call.who \in Approvers
        /\ <<call.who, m>> \in asked
        /\ knowledge[m] \in Rows /\ knowledge[m].type = "decision"
        /\ knowledge[m].status = "proposed"
    BY DEF AuthorityInv, TypeOK, HandlerInv, Update, IsDecision, Calls
  <1>2. /\ stage' = "audit" /\ call' = call
        /\ knowledge' = [knowledge EXCEPT ![m] = [knowledge[m] EXCEPT !.status = "approved"]]
        /\ UNCHANGED <<queueVars, edges, asked, stores>>
    BY DEF Update, Goto
  <1>3. [knowledge[m] EXCEPT !.status = "approved"] \in Rows
    BY <1>1 DEF Rows, VALID_STATUSES
  <1>4. TypeOK'
    BY <1>1, <1>2, <1>3 DEF AuthorityInv, TypeOK, queueVars
  <1>5. Kept
    BY NextKeeps DEF Next
  <1>6. Approved(m)'
    BY <1>1, <1>2, <1>3, NoRowAssumption DEF AuthorityInv, TypeOK, Approved, IsDecision, Rows
  <1>7. HandlerInv'
    <2>1. ~Approved(m)
      BY <1>1 DEF Approved
    <2>2. \A edge \in edges : edge[2] # m
      BY <2>1 DEF AuthorityInv, AuditIsTrue
    <2>. QED
      BY <1>1, <1>2, <1>6, <2>2 DEF HandlerInv, Approved, IsDecision
  <1>8. AuthorityIsGranted'
    <2>1. \A n \in Memories : n # m => knowledge'[n] = knowledge[n]
      BY <1>2 DEF AuthorityInv, TypeOK
    <2>. QED
      BY <1>1, <1>2, <2>1 DEF AuthorityInv, AuthorityIsGranted, Approved, IsDecision, Memories
  <1>9. AuditIsTrue'
    BY <1>2, <1>5, Sealed DEF AuthorityInv, TypeOK, AuditIsTrue
  <1>. QED
    BY <1>2, <1>4, <1>5, <1>7, <1>8, <1>9, QueueSame DEF AuthorityInv

LEMMA AuditInv ==
  ASSUME AuthorityInv, Audit
  PROVE  AuthorityInv'
  <1>1. /\ stage' = "idle" /\ call' = NoCall
        /\ edges' = edges \cup {<<call.who, call.memory>>}
        /\ UNCHANGED <<queueVars, knowledge, asked, stores>>
    BY DEF Audit, Answer
  <1>2. /\ call.who \in Approvers /\ call.memory \in Memories
        /\ <<call.who, call.memory>> \in asked
        /\ Approved(call.memory) /\ \A edge \in edges : edge[2] # call.memory
    BY DEF AuthorityInv, HandlerInv, Audit, Calls
  <1>3. TypeOK'
    BY <1>1, <1>2 DEF AuthorityInv, TypeOK, queueVars
  <1>4. Kept /\ HandlerInv'
    BY <1>1 DEF Kept, HandlerInv
  <1>5. AuthorityIsGranted'
    BY <1>1 DEF AuthorityInv, AuthorityIsGranted, Approved, IsDecision, Memories
  <1>6. AuditIsTrue'
    <2>1. \A edge \in edges' : edge \in asked' /\ Approved(edge[2])'
      BY <1>1, <1>2 DEF AuthorityInv, AuditIsTrue, Approved, IsDecision
    <2>2. \A a, b \in edges' : a[2] = b[2] => a = b
      BY <1>1, <1>2 DEF AuthorityInv, AuditIsTrue
    <2>. QED
      BY <2>1, <2>2 DEF AuditIsTrue
  <1>. QED
    BY <1>1, <1>3, <1>4, <1>5, <1>6, QueueSame DEF AuthorityInv

(* The call ends with nothing done, or the whole server does. *)
LEMMA GiveUpInv ==
  ASSUME AuthorityInv, UpdateRaises \/ AuditSkipped \/ Restart
  PROVE  AuthorityInv'
  <1>1. /\ stage' = "idle" /\ call' = NoCall /\ stores' \in Openings
        /\ UNCHANGED <<queueVars, knowledge, edges, asked>>
    BY DEF AuthorityInv, TypeOK, UpdateRaises, AuditSkipped, Restart, Answer
  <1>2. TypeOK'
    BY <1>1 DEF AuthorityInv, TypeOK, queueVars
  <1>3. Kept /\ HandlerInv'
    BY <1>1 DEF Kept, HandlerInv
  <1>4. AuthorityIsGranted'
    BY <1>1 DEF AuthorityInv, AuthorityIsGranted, Approved, IsDecision, Memories
  <1>5. AuditIsTrue'
    BY <1>1 DEF AuthorityInv, AuditIsTrue, Approved, IsDecision
  <1>. QED
    BY <1>1, <1>2, <1>3, <1>4, <1>5, QueueSame DEF AuthorityInv

LEMMA InitAuthorityInv == Init => AuthorityInv
  <1>. SUFFICES ASSUME Init PROVE AuthorityInv
    OBVIOUS
  <1>1. TypeOK
    BY DEF Init, TypeOK
  <1>2. QueueInv
    BY DEF Init, QueueInv
  <1>3. HandlerInv /\ ReportInv
    BY DEF Init, HandlerInv, ReportInv
  <1>4. AuthorityIsGranted /\ AuditIsTrue
    BY DEF Init, AuthorityIsGranted, AuditIsTrue, Approved, IsDecision
  <1>. QED
    BY <1>1, <1>2, <1>3, <1>4 DEF AuthorityInv

LEMMA NextAuthorityInv == AuthorityInv /\ [Next]_vars => AuthorityInv'
  <1>. SUFFICES ASSUME AuthorityInv, [Next]_vars
                PROVE  AuthorityInv'
    OBVIOUS
  <1>1. ASSUME NEW e \in Events, NEW b \in Bodies, Postflight(e, b)
        PROVE  AuthorityInv'
    BY <1>1, PostflightInv
  <1>2. ASSUME NEW e \in Events, BeginEvent(e)
        PROVE  AuthorityInv'
    BY <1>2, BeginEventInv
  <1>3. ASSUME NEW e \in Events, StoreNext(e)
        PROVE  AuthorityInv'
    BY <1>3, StoreNextInv
  <1>4. ASSUME NEW e \in Events, AbandonEvent(e) \/ FinishEvent(e)
        PROVE  AuthorityInv'
    BY <1>4, EndEventInv
  <1>5. ASSUME NEW c \in Calls, Receive(c)
        PROVE  AuthorityInv'
    BY <1>5, ReceiveInv
  <1>6. CASE Lookup
    BY <1>6, LookupInv
  <1>7. CASE Update
    BY <1>7, UpdateInv
  <1>8. CASE Audit
    BY <1>8, AuditInv
  <1>9. CASE UpdateRaises \/ AuditSkipped \/ Restart
    BY <1>9, GiveUpInv
  <1>10. CASE UNCHANGED vars
    <2>1. Kept /\ UNCHANGED queueVars
      BY <1>10 DEF Kept, vars
    <2>2. TypeOK'
      BY <1>10 DEF AuthorityInv, TypeOK, vars, queueVars, serverVars
    <2>. QED
      BY <1>10, <2>1, <2>2, QueueSame, ServerSame DEF AuthorityInv, vars
  <1>. QED
    BY <1>1, <1>2, <1>3, <1>4, <1>5, <1>6, <1>7, <1>8, <1>9, <1>10 DEF Next
-----------------------------------------------------------------------------
(* The readers *)

(* Rows are never removed, so finitely many are there at any time. *)
FiniteTable == IsFiniteSet({m \in Memories : knowledge[m] # NoRow})

(* What a reader knew when it began is still so, up to approvals; and under  *)
(* the dispatch lock there are none.                                        *)
BeforeInv ==
  \A r \in Readers : step[r] > 0 =>
    /\ \A m \in before[r]["approved"] : Approved(m)
    /\ \A m \in before[r]["proposed"] : m \in Matching("proposed") \/ Approved(m)
    /\ r = Http => stage = "idle" /\ before[r]["proposed"] \subseteq Matching("proposed")

(* The first list, once read, has what was approved at the beginning. *)
ApprovedListInv ==
  \A r \in Readers : step[r] > 1 =>
    /\ \A m \in shown[r]["approved"] : Approved(m)
    /\ \A m \in before[r]["approved"] : m \in shown[r]["approved"] \/ Full(r, "approved")

ReadersInv == PSTypeOK /\ FiniteTable /\ BeforeInv /\ ApprovedListInv /\ NeverBothListed /\ StateIsComplete

PSInv == AuthorityInv /\ ReadersInv

LEMMA PSNextIsNext == [PSNext]_psVars => [Next]_vars
  BY DEF PSNext, Others, RestartHttp, Build, Begin, Read, ReadRaises, AnswerState, RestartMcp,
         Next, psVars

LEMMA NextFiniteTable ==
  ASSUME AuthorityInv, FiniteTable, [Next]_vars
  PROVE  FiniteTable'
  <1>. DEFINE Present == {m \in Memories : knowledge[m] # NoRow}
  <1>1. ASSUME NEW m, \A n \in Memories : n # m => (knowledge'[n] # NoRow => knowledge[n] # NoRow)
        PROVE  FiniteTable'
    <2>1. IsFiniteSet(Present \cup {m})
      BY FS_AddElement DEF FiniteTable
    <2>2. {n \in Memories : knowledge'[n] # NoRow} \in SUBSET (Present \cup {m})
      BY <1>1
    <2>3. IsFiniteSet({n \in Memories : knowledge'[n] # NoRow})
      BY <2>1, <2>2, FS_Subset
    <2>. QED
      BY <2>3 DEF FiniteTable, Memories
  <1>2. ASSUME NEW e \in Events, StoreNext(e)
        PROVE  FiniteTable'
    <2>1. PICK item \in Harmless :
            knowledge' = IF knowledge[<<e, item.text>>] = NoRow
                           THEN [knowledge EXCEPT ![<<e, item.text>>] = item.row]
                           ELSE knowledge
      BY <1>2, StoreKeeps
    <2>2. \A n \in Memories : n # <<e, item.text>> => knowledge'[n] = knowledge[n]
      BY <2>1 DEF AuthorityInv, TypeOK
    <2>. QED
      BY <1>1, <2>2
  <1>3. CASE Update
    <2>1. \A n \in Memories : n # call.memory => knowledge'[n] = knowledge[n]
      BY <1>3 DEF AuthorityInv, TypeOK, Update
    <2>. QED
      BY <1>1, <2>1
  <1>4. CASE UNCHANGED knowledge
    BY <1>4 DEF FiniteTable, Memories
  <1>. QED
    BY <1>2, <1>3, <1>4 DEF Next, vars, Postflight, BeginEvent, AbandonEvent, FinishEvent, Receive,
                            Lookup, UpdateRaises, Audit, AuditSkipped, Restart

(* A list without a row that matches is a full one. *)
LEMMA NewestIsFull ==
  ASSUME FiniteTable, NEW status, NEW chosen \in Newest(Matching(status)),
         NEW m \in Matching(status), m \notin chosen
  PROVE  Cardinality(chosen) = Limit
  <1>. DEFINE M == Matching(status)
  <1>1. IsFiniteSet(M)
    <2>1. M \in SUBSET {n \in Memories : knowledge[n] # NoRow}
      BY DEF Matching, IsDecision
    <2>. QED
      BY <2>1, FS_Subset DEF FiniteTable
  <1>2. /\ chosen \in SUBSET M
        /\ Cardinality(chosen) = IF Cardinality(M) < Limit THEN Cardinality(M) ELSE Limit
    BY DEF Newest
  <1>3. Cardinality(M) # Cardinality(chosen)
    <2>. HIDE DEF M
    <2>1. Cardinality(M) = Cardinality(chosen) => M = chosen
      BY <1>1, <1>2, FS_Subset
    <2>. QED
      BY <2>1 DEF M
  <1>. QED
    BY <1>2, <1>3

(* The table moves under a reader, but not away from what it relies on. *)
LEMMA ReadersUndisturbed ==
  ASSUME PSInv, [Next]_vars, UNCHANGED readVars, AuthorityInv',
         step[Http] > 0 => stage' = "idle"
  PROVE  ReadersInv'
  <1>1. Kept
    BY NextKeeps DEF PSInv
  <1>2. /\ \A m \in Memories : Approved(m) => Approved(m)'
        /\ \A m \in Matching("proposed") : m \in Matching("proposed")' \/ Approved(m)'
        /\ stage = "idle" => \A m \in Matching("proposed") : m \in Matching("proposed")'
    <2>1. \A m \in Memories : Approved(m) => Approved(m)'
      BY <1>1, Sealed DEF PSInv
    <2>2. ASSUME NEW m \in Matching("proposed")
          PROVE  /\ m \in Matching("proposed")' \/ Approved(m)'
                 /\ stage = "idle" => m \in Matching("proposed")'
      <3>1. m \in Memories /\ IsDecision(m) /\ knowledge[m].status = "proposed" /\ knowledge[m] \in Rows
        BY DEF Matching, PSInv, AuthorityInv, TypeOK, IsDecision
      <3>2. CASE knowledge'[m] = knowledge[m]
        BY <3>1, <3>2 DEF Matching, IsDecision, Memories
      <3>3. CASE knowledge'[m] # knowledge[m]
        <4>1. stage = "update" /\ knowledge'[m] = [knowledge[m] EXCEPT !.status = "approved"]
          BY <1>1, <3>1, <3>3 DEF Kept, IsDecision
        <4>2. knowledge'[m] \in Rows /\ knowledge'[m].type = "decision" /\ knowledge'[m].status = "approved"
          BY <3>1, <4>1 DEF IsDecision, Rows, VALID_STATUSES
        <4>. QED
          BY <4>1, <4>2, NoRowAssumption DEF Approved, IsDecision
      <3>. QED
        BY <3>2, <3>3
    <2>. QED
      BY <2>1, <2>2
  <1>3. step' = step /\ shown' = shown /\ before' = before /\ service' = service
    BY DEF readVars
  <1>4. /\ step \in [Readers -> 0..Reply]
        /\ shown \in [Readers -> [Lists -> SUBSET Memories]]
        /\ before \in [Readers -> [Lists -> SUBSET Memories]]
    BY DEF PSInv, ReadersInv, PSTypeOK
  <1>5. PSTypeOK'
    BY <1>3 DEF PSInv, ReadersInv, PSTypeOK, AuthorityInv, Readers, Services, Lists, Memories, Reply, Reads
  <1>6. FiniteTable'
    BY NextFiniteTable DEF PSInv, ReadersInv
  <1>7. BeforeInv'
    <2>. SUFFICES ASSUME NEW r \in Readers, step[r] > 0
                  PROVE  /\ \A m \in before[r]["approved"] : Approved(m)'
                         /\ \A m \in before[r]["proposed"] : m \in Matching("proposed")' \/ Approved(m)'
                         /\ r = Http => /\ stage' = "idle"
                                        /\ \A m \in before[r]["proposed"] : m \in Matching("proposed")'
      BY <1>3 DEF BeforeInv, Readers
    <2>1. before[r]["approved"] \subseteq Memories /\ before[r]["proposed"] \subseteq Memories
      BY <1>4 DEF Lists
    <2>2. /\ \A m \in before[r]["approved"] : Approved(m)
          /\ \A m \in before[r]["proposed"] : m \in Matching("proposed") \/ Approved(m)
          /\ r = Http => stage = "idle" /\ before[r]["proposed"] \subseteq Matching("proposed")
      BY DEF PSInv, ReadersInv, BeforeInv
    <2>. QED
      BY <1>2, <2>1, <2>2
  <1>8. ApprovedListInv'
    <2>. SUFFICES ASSUME NEW r \in Readers, step[r] > 1
                  PROVE  /\ \A m \in shown[r]["approved"] : Approved(m)'
                         /\ \A m \in before[r]["approved"] :
                              m \in shown[r]["approved"] \/ Full(r, "approved")
      BY <1>3 DEF ApprovedListInv, Readers, Full
    <2>1. shown[r]["approved"] \subseteq Memories
      BY <1>4 DEF Lists
    <2>. QED
      BY <1>2, <2>1 DEF PSInv, ReadersInv, ApprovedListInv
  <1>9. NeverBothListed'
    BY <1>3 DEF PSInv, ReadersInv, NeverBothListed, Readers, Reply, Reads
  <1>10. StateIsComplete'
    <2>. SUFFICES ASSUME NEW r \in Readers, step[r] = Reply
                  PROVE  /\ \A m \in before[r]["approved"] : m \in shown[r]["approved"] \/ Full(r, "approved")
                         /\ \A m \in before[r]["proposed"] :
                              \/ m \in shown[r]["proposed"] \/ Full(r, "proposed")
                              \/ m \in shown[r]["approved"] \/ Full(r, "approved")
                              \/ r \in McpServers /\ Approved(m)'
      BY <1>3 DEF StateIsComplete, Readers, Reply, Reads, Full
    <2>1. before[r]["proposed"] \subseteq Memories
      BY <1>4 DEF Lists
    <2>. QED
      BY <1>2, <2>1 DEF PSInv, ReadersInv, StateIsComplete
  <1>. QED
    BY <1>5, <1>6, <1>7, <1>8, <1>9, <1>10 DEF ReadersInv

LEMMA OthersInv ==
  ASSUME PSInv, Others
  PROVE  PSInv'
  <1>1. [Next]_vars /\ UNCHANGED readVars
    BY PSNextIsNext DEF PSNext, Others
  <1>2. AuthorityInv'
    BY <1>1, NextAuthorityInv DEF PSInv
  <1>3. step[Http] > 0 => stage = "idle"
    BY DEF PSInv, ReadersInv, BeforeInv, Readers
  <1>4. step[Http] > 0 => stage' = "idle"
    <2>. SUFFICES ASSUME step[Http] > 0
                  PROVE  stage' = "idle"
      OBVIOUS
    <2>1. ASSUME NEW e \in Events,
                 \/ \E b \in Bodies : Postflight(e, b)
                 \/ BeginEvent(e) \/ StoreNext(e) \/ AbandonEvent(e) \/ FinishEvent(e)
          PROVE  stage' = stage
      BY <2>1 DEF Postflight, BeginEvent, StoreNext, AbandonEvent, FinishEvent, serverVars
    <2>2. ~(Lookup \/ Update \/ UpdateRaises \/ Audit \/ AuditSkipped)
      BY <1>3 DEF Lookup, Update, UpdateRaises, Audit, AuditSkipped
    <2>3. step[Http] # 0
      OBVIOUS
    <2>. QED
      BY <1>3, <2>1, <2>2, <2>3 DEF Others
  <1>. QED
    BY <1>1, <1>2, <1>4, ReadersUndisturbed DEF PSInv

(* What one reader has to keep for its own part. *)
ReaderInv(r) ==
  /\ step[r] > 0 =>
       /\ \A m \in before[r]["approved"] : Approved(m)
       /\ \A m \in before[r]["proposed"] : m \in Matching("proposed") \/ Approved(m)
       /\ r = Http => stage = "idle" /\ before[r]["proposed"] \subseteq Matching("proposed")
  /\ step[r] > 1 =>
       /\ \A m \in shown[r]["approved"] : Approved(m)
       /\ \A m \in before[r]["approved"] : m \in shown[r]["approved"] \/ Full(r, "approved")
  /\ step[r] = Reply =>
       /\ shown[r]["approved"] \cap shown[r]["proposed"] = {}
       /\ \A m \in before[r]["proposed"] :
            \/ m \in shown[r]["proposed"] \/ Full(r, "proposed")
            \/ m \in shown[r]["approved"] \/ Full(r, "approved")
            \/ r \in McpServers /\ Approved(m)

LEMMA EachReader ==
  PSTypeOK => ( BeforeInv /\ ApprovedListInv /\ NeverBothListed /\ StateIsComplete
                  <=> \A s \in Readers : ReaderInv(s) )
  BY DEF PSTypeOK, BeforeInv, ApprovedListInv, NeverBothListed, StateIsComplete, ReaderInv, Reply, Reads

LEMMA EachReaderNext ==
  PSTypeOK' /\ (\A s \in Readers : ReaderInv(s))'
    => (BeforeInv /\ ApprovedListInv /\ NeverBothListed /\ StateIsComplete)'
  BY EachReader, PTL

(* A step of one reader, over a table that stands still. *)
LEMMA OneReaderInv ==
  ASSUME PSInv, NEW r \in Readers, UNCHANGED vars, PSTypeOK', ReaderInv(r)',
         \A s \in Readers : s # r =>
           step'[s] = step[s] /\ shown'[s] = shown[s] /\ before'[s] = before[s]
  PROVE  PSInv'
  <1>1. AuthorityInv'
    BY NextAuthorityInv DEF PSInv
  <1>2. FiniteTable'
    BY NextFiniteTable DEF PSInv, ReadersInv
  <1>3. \A s \in Readers : s # r => ReaderInv(s)'
    <2>. SUFFICES ASSUME NEW s \in Readers, s # r
                  PROVE  ReaderInv(s)'
      OBVIOUS
    <2>1. ReaderInv(s)
      BY EachReader DEF PSInv, ReadersInv
    <2>. QED
      BY <2>1 DEF ReaderInv, Approved, IsDecision, Matching, Memories, Full, Reply, Reads, vars, serverVars
  <1>4. (\A s \in Readers : ReaderInv(s))'
    BY <1>3 DEF Readers
  <1>5. (BeforeInv /\ ApprovedListInv /\ NeverBothListed /\ StateIsComplete)'
    BY <1>4, EachReaderNext
  <1>. QED
    BY <1>1, <1>2, <1>5 DEF PSInv, ReadersInv

LEMMA BuildInv ==
  ASSUME PSInv, NEW r \in Readers, Build(r)
  PROVE  PSInv'
  <1>1. PSTypeOK'
    <2>1. TypeOK'
      BY NextAuthorityInv DEF PSInv, Build, AuthorityInv
    <2>. QED
      BY <2>1 DEF PSInv, ReadersInv, PSTypeOK, Build, Readers, Services, Lists, Memories, Reply, Reads
  <1>2. ReaderInv(r)'
    BY DEF PSInv, ReadersInv, PSTypeOK, Build, ReaderInv, Reply, Reads
  <1>. QED
    BY <1>1, <1>2, OneReaderInv DEF Build

LEMMA BeginInv ==
  ASSUME PSInv, NEW r \in Readers, Begin(r)
  PROVE  PSInv'
  <1>1. PSTypeOK'
    <2>1. TypeOK'
      BY NextAuthorityInv DEF PSInv, Begin, AuthorityInv
    <2>2. [n \in Lists |-> Matching(n)] \in [Lists -> SUBSET Memories]
      BY DEF Matching
    <2>3. step' \in [Readers -> 0..Reply]
      BY DEF PSInv, ReadersInv, PSTypeOK, Begin, Reply, Reads
    <2>. QED
      BY <2>1, <2>2, <2>3 DEF PSInv, ReadersInv, PSTypeOK, Begin, Readers, Services, Lists, Memories, Reply, Reads
  <1>2. ReaderInv(r)'
    <2>1. /\ step'[r] = 1 /\ before'[r]["approved"] = Matching("approved")
          /\ before'[r]["proposed"] = Matching("proposed")
      BY DEF PSInv, ReadersInv, PSTypeOK, Begin, Lists
    <2>2. \A m \in Matching("approved") : Approved(m)
      BY DEF Matching, Approved
    <2>3. UNCHANGED vars /\ (r = Http => stage = "idle")
      BY DEF Begin, MayBegin
    <2>. QED
      BY <2>1, <2>2, <2>3 DEF ReaderInv, Matching, Approved, IsDecision, Memories, Reply, Reads, vars, serverVars
  <1>3. \A s \in Readers : s # r =>
          step'[s] = step[s] /\ shown'[s] = shown[s] /\ before'[s] = before[s]
    BY DEF PSInv, ReadersInv, PSTypeOK, Begin
  <1>. QED
    BY <1>1, <1>2, <1>3, OneReaderInv DEF Begin

LEMMA ReadInv ==
  ASSUME PSInv, NEW r \in Readers, Read(r)
  PROVE  PSInv'
  <1>0. /\ step \in [Readers -> 0..3] /\ step[r] \in 1..2 /\ Len(Reads) = 2 /\ Reply = 3
        /\ shown \in [Readers -> [Lists -> SUBSET Memories]]
        /\ step' = [step EXCEPT ![r] = step[r] + 1]
        /\ UNCHANGED <<vars, service, before>>
    BY DEF PSInv, ReadersInv, PSTypeOK, Read, Reply, Reads
  <1>. DEFINE list == IF step[r] = 1 THEN "approved" ELSE "proposed"
  <1>1. list \in Lists /\ Reads[step[r]] = list
    BY <1>0 DEF Reads, Lists
  <1>2. PICK chosen \in Newest(Matching(list)) : shown' = [shown EXCEPT ![r][list] = chosen]
    BY <1>1 DEF Read
  <1>3. chosen \in SUBSET Matching(list) /\ chosen \in SUBSET Memories
    BY DEF Newest, Matching
  <1>4. /\ shown'[r][list] = chosen
        /\ \A n \in Lists : n # list => shown'[r][n] = shown[r][n]
        /\ shown' \in [Readers -> [Lists -> SUBSET Memories]]
    BY <1>0, <1>1, <1>2, <1>3
  <1>5. PSTypeOK'
    <2>1. TypeOK'
      BY <1>0, NextAuthorityInv DEF PSInv, AuthorityInv
    <2>2. step' \in [Readers -> 0..3]
      BY <1>0
    <2>. QED
      BY <1>0, <1>4, <2>1, <2>2 DEF PSInv, ReadersInv, PSTypeOK, Readers, Services, Lists, Memories, Reply, Reads
  <1>6. ReaderInv(r)
    BY EachReader DEF PSInv, ReadersInv
  <1>7. \A m \in Matching(list) : m \in chosen \/ Cardinality(chosen) = Limit
    BY NewestIsFull DEF PSInv, ReadersInv
  <1>8. /\ step'[r] = step[r] + 1 /\ before' = before /\ UNCHANGED vars
        /\ \A m \in Memories : (Approved(m) <=> Approved(m)')
        /\ Matching("proposed")' = Matching("proposed")
    BY <1>0 DEF vars, serverVars, Approved, IsDecision, Matching, Memories
  <1>9. before \in [Readers -> [Lists -> SUBSET Memories]]
    BY DEF PSInv, ReadersInv, PSTypeOK
  <1>10. before[r]["approved"] \subseteq Memories /\ before[r]["proposed"] \subseteq Memories
    BY <1>9 DEF Lists
  <1>11. ReaderInv(r)'
    <2>1. /\ \A m \in before'[r]["approved"] : Approved(m)'
          /\ \A m \in before'[r]["proposed"] : m \in Matching("proposed")' \/ Approved(m)'
          /\ r = Http => stage' = "idle" /\ before'[r]["proposed"] \subseteq Matching("proposed")'
      BY <1>0, <1>6, <1>8, <1>10 DEF ReaderInv, vars, serverVars
    <2>2. CASE step[r] = 1
      <3>1. list = "approved" /\ step'[r] = 2
        BY <1>8, <2>2
      <3>2. \A m \in chosen : Approved(m)'
        BY <1>3, <1>8, <3>1 DEF Matching, Approved
      <3>3. \A m \in before[r]["approved"] : m \in chosen \/ Cardinality(chosen) = Limit
        BY <1>0, <1>6, <1>7, <1>10, <3>1 DEF ReaderInv, Matching, Approved
      <3>. QED
        BY <1>0, <1>4, <1>8, <2>1, <3>1, <3>2, <3>3 DEF ReaderInv, Full, Reply, Reads
    <2>3. CASE step[r] = 2
      <3>1. list = "proposed" /\ step'[r] = 3 /\ shown'[r]["approved"] = shown[r]["approved"]
        BY <1>4, <1>8, <2>3 DEF Lists
      <3>2. \A m \in shown[r]["approved"] : Approved(m) /\ m \in Memories
        BY <1>0, <1>6, <2>3 DEF ReaderInv, Lists
      <3>3. shown[r]["approved"] \cap chosen = {}
        BY <1>3, <3>1, <3>2 DEF Matching, Approved
      <3>4. \A m \in before[r]["approved"] : m \in shown[r]["approved"] \/ Full(r, "approved")
        BY <1>6, <2>3 DEF ReaderInv
      <3>5. \A m \in before[r]["proposed"] :
              m \in chosen \/ Cardinality(chosen) = Limit \/ (r \in McpServers /\ Approved(m))
        BY <1>0, <1>6, <1>7, <3>1 DEF ReaderInv, Readers
      <3>6. \A m \in shown[r]["approved"] : Approved(m)'
        BY <1>8, <3>2
      <3>7. \A m \in before[r]["proposed"] : Approved(m) => Approved(m)'
        BY <1>8, <1>10
      <3>. QED
        BY <1>0, <1>4, <1>8, <2>1, <3>1, <3>3, <3>4, <3>5, <3>6, <3>7 DEF ReaderInv, Full, Reply, Reads
    <2>. QED
      BY <1>0, <2>2, <2>3
  <1>12. \A s \in Readers : s # r =>
           step'[s] = step[s] /\ shown'[s] = shown[s] /\ before'[s] = before[s]
    BY <1>0, <1>2
  <1>. QED
    BY <1>5, <1>8, <1>11, <1>12, OneReaderInv

(* A reader that ends, with an answer or without. *)
LEMMA QuitInv ==
  ASSUME PSInv, NEW r \in Readers, Quit(r), UNCHANGED vars, service' \in [McpServers -> Services]
  PROVE  PSInv'
  <1>1. PSTypeOK'
    <2>1. TypeOK'
      BY NextAuthorityInv DEF PSInv, AuthorityInv
    <2>2. NoLists \in [Lists -> SUBSET Memories] /\ 0 \in 0..Reply
      BY DEF NoLists, Reply, Reads
    <2>. QED
      BY <2>1, <2>2 DEF PSInv, ReadersInv, PSTypeOK, Quit, Readers, Services, Lists, Memories, Reply, Reads
  <1>2. step'[r] = 0 /\ \A s \in Readers : s # r =>
          step'[s] = step[s] /\ shown'[s] = shown[s] /\ before'[s] = before[s]
    BY DEF PSInv, ReadersInv, PSTypeOK, Quit
  <1>3. ReaderInv(r)'
    BY <1>2 DEF ReaderInv, Reply, Reads
  <1>. QED
    BY <1>1, <1>2, <1>3, OneReaderInv

LEMMA PSInitInv == PSInit => PSInv
  <1>. SUFFICES ASSUME PSInit PROVE PSInv
    OBVIOUS
  <1>1. AuthorityInv
    BY InitAuthorityInv DEF PSInit
  <1>2. PSTypeOK
    <2>1. NoLists \in [Lists -> SUBSET Memories] /\ 0 \in 0..Reply
      BY DEF NoLists, Reply, Reads
    <2>. QED
      BY <1>1, <2>1 DEF AuthorityInv, PSInit, PSTypeOK, Services
  <1>3. FiniteTable
    <2>1. {m \in Memories : knowledge[m] # NoRow} = {}
      BY DEF PSInit, Init
    <2>. QED
      BY <2>1, FS_EmptySet DEF FiniteTable
  <1>4. BeforeInv /\ ApprovedListInv /\ NeverBothListed /\ StateIsComplete
    BY DEF PSInit, BeforeInv, ApprovedListInv, NeverBothListed, StateIsComplete, Reply, Reads
  <1>. QED
    BY <1>1, <1>2, <1>3, <1>4 DEF PSInv, ReadersInv

LEMMA PSNextInv == PSInv /\ [PSNext]_psVars => PSInv'
  <1>. SUFFICES ASSUME PSInv, [PSNext]_psVars
                PROVE  PSInv'
    OBVIOUS
  <1>0. service \in [McpServers -> Services] /\ Http \in Readers
    BY DEF PSInv, ReadersInv, PSTypeOK, Readers
  <1>1. CASE Others
    BY <1>1, OthersInv
  <1>2. CASE RestartHttp
    <2>1. [Next]_vars /\ Quit(Http) /\ stage' = "idle" /\ UNCHANGED <<service, knowledge>>
      BY <1>2 DEF RestartHttp, Restart, Next
    <2>2. AuthorityInv'
      BY <2>1, NextAuthorityInv DEF PSInv
    <2>3. /\ step' = [step EXCEPT ![Http] = 0]
          /\ shown' = [shown EXCEPT ![Http] = NoLists]
          /\ before' = [before EXCEPT ![Http] = NoLists]
      BY <2>1 DEF Quit
    <2>4. PSTypeOK'
      <3>1. NoLists \in [Lists -> SUBSET Memories] /\ 0 \in 0..Reply
        BY DEF NoLists, Reply, Reads
      <3>. QED
        BY <2>1, <2>2, <2>3, <3>1 DEF PSInv, ReadersInv, PSTypeOK, AuthorityInv, Readers, Services,
                                      Lists, Memories, Reply, Reads
    <2>5. FiniteTable'
      BY <2>1, NextFiniteTable DEF PSInv, ReadersInv
    <2>6. \A r \in Readers : ReaderInv(r)
      BY EachReader DEF PSInv, ReadersInv
    <2>7. ReaderInv(Http)'
      BY <2>3, <1>0 DEF PSInv, ReadersInv, PSTypeOK, ReaderInv, Reply, Reads
    <2>8. \A r \in Readers : r # Http =>
            step'[r] = step[r] /\ shown'[r] = shown[r] /\ before'[r] = before[r]
      BY <2>3 DEF PSInv, ReadersInv, PSTypeOK
    <2>9. ASSUME NEW r \in Readers, r # Http
          PROVE  ReaderInv(r)'
      <3>1. /\ \A m \in Memories : (Approved(m) <=> Approved(m)')
            /\ \A m : m \in Matching("proposed")' <=> m \in Matching("proposed")
        BY <2>1 DEF Approved, IsDecision, Matching, Memories
      <3>2. \A n \in Lists : before[r][n] \subseteq Memories /\ shown[r][n] \subseteq Memories
        BY DEF PSInv, ReadersInv, PSTypeOK
      <3>3. "approved" \in Lists /\ "proposed" \in Lists
        BY DEF Lists
      <3>. QED
        BY <2>6, <2>8, <2>9, <3>1, <3>2, <3>3 DEF ReaderInv, Full, Reply, Reads
    <2>10. (\A s \in Readers : ReaderInv(s))'
      BY <2>7, <2>9 DEF Readers
    <2>11. (BeforeInv /\ ApprovedListInv /\ NeverBothListed /\ StateIsComplete)'
      BY <2>4, <2>10, EachReaderNext
    <2>. QED
      BY <2>2, <2>4, <2>5, <2>11 DEF PSInv, ReadersInv
  <1>3. ASSUME NEW r \in Readers, Build(r)
        PROVE  PSInv'
    BY <1>3, BuildInv
  <1>4. ASSUME NEW r \in Readers, Begin(r)
        PROVE  PSInv'
    BY <1>4, BeginInv
  <1>5. ASSUME NEW r \in Readers, Read(r)
        PROVE  PSInv'
    BY <1>5, ReadInv
  <1>6. ASSUME NEW r \in Readers, ReadRaises(r) \/ AnswerState(r) \/ RestartMcp(r)
        PROVE  PSInv'
    <2>1. Quit(r) /\ UNCHANGED vars /\ service' \in [McpServers -> Services]
      BY <1>0, <1>6 DEF ReadRaises, AnswerState, RestartMcp, Services
    <2>. QED
      BY <2>1, QuitInv
  <1>7. CASE UNCHANGED psVars
    <2>1. UNCHANGED vars /\ UNCHANGED <<service, step, shown, before>>
      BY <1>7 DEF psVars, readVars
    <2>2. TypeOK'
      BY <2>1, NextAuthorityInv DEF PSInv, AuthorityInv
    <2>3. PSTypeOK'
      BY <2>1, <2>2 DEF PSInv, ReadersInv, PSTypeOK, Readers, Services, Lists, Memories, Reply, Reads
    <2>4. ReaderInv(Http)
      BY <1>0, EachReader DEF PSInv, ReadersInv
    <2>5. ReaderInv(Http)'
      BY <2>1, <2>4 DEF ReaderInv, Approved, IsDecision, Matching, Memories, Full, Reply, Reads, vars, serverVars
    <2>. QED
      BY <1>0, <2>1, <2>3, <2>5, OneReaderInv
  <1>. QED
    BY <1>1, <1>2, <1>3, <1>4, <1>5, <1>6, <1>7 DEF PSNext

-----------------------------------------------------------------------------
(* Theorems *)

(* The inductive invariant holds of every reachable state. *)
THEOREM AuthoritySafety == PSSpec => []PSInv
  BY PSInitInv, PSNextInv, PTL DEF PSSpec

(* Every variable stays in its type. *)
THEOREM PSTypeCorrect == PSSpec => []PSTypeOK
  <1>1. PSInv => PSTypeOK
    BY DEF PSInv, ReadersInv
  <1>. QED
    BY <1>1, AuthoritySafety, PTL

(* parse(), add() and approve_decision(): whatever callers submit and however *)
(* often the worker ingests it, a decision reads as approved only if a local *)
(* caller with the token asked for it.                                      *)
THEOREM AuthorityIsGrantedAlways == PSSpec => []AuthorityIsGranted
  <1>1. PSInv => AuthorityIsGranted
    BY DEF PSInv, AuthorityInv
  <1>. QED
    BY <1>1, AuthoritySafety, PTL

(* set_status() asks nothing about the status, yet between the look-up and    *)
(* the update nothing changes the row: no step touches a verdict.           *)
THEOREM VerdictIsFinalAlways == PSSpec => VerdictIsFinal
  <1>1. PSInv /\ [PSNext]_psVars =>
          [\A m \in Memories :
             IsDecision(m) /\ knowledge[m].status # "proposed" => knowledge'[m] = knowledge[m]]_vars
    BY PSNextIsNext, NextKeeps, Sealed DEF PSInv
  <1>. QED
    BY <1>1, AuthoritySafety, PTL DEF PSSpec, VerdictIsFinal

(* approve_decision(): an audit edge names an approved decision, who asked   *)
(* for it, and nobody else, although a call may die between its statements. *)
THEOREM AuditIsTrueAlways == PSSpec => []AuditIsTrue
  <1>1. PSInv => AuditIsTrue
    BY DEF PSInv, AuthorityInv
  <1>. QED
    BY <1>1, AuthoritySafety, PTL

(* ingest_event(): its report lists exactly what was not stored, whatever    *)
(* earlier attempts had stored and the administrator approved meanwhile.    *)
THEOREM SkippedIsReportedAlways == PSSpec => []SkippedIsReported
  <1>1. ASSUME PSInv, NEW e \in reported, NEW k \in 1..Len(ItemsOf(body[e]))
        PROVE  Accounted(e, k)
    <2>1. e \in Events
      BY <1>1 DEF PSInv, AuthorityInv, TypeOK
    <2>. QED
      BY <1>1, <2>1 DEF PSInv, AuthorityInv, ReportInv
  <1>2. PSInv => SkippedIsReported
    BY <1>1 DEF SkippedIsReported, Accounted
  <1>. QED
    BY <1>2, AuthoritySafety, PTL

(* project_state(): no answer shows one decision as approved and unresolved. *)
THEOREM NeverBothListedAlways == PSSpec => []NeverBothListed
  <1>1. PSInv => NeverBothListed
    BY DEF PSInv, ReadersInv
  <1>. QED
    BY <1>1, AuthoritySafety, PTL

(* project_state(): an answer that is not an error leaves out no decision    *)
(* that was there, but for a full list or an approval that an MCP server    *)
(* read around.                                                             *)
THEOREM StateIsCompleteAlways == PSSpec => []StateIsComplete
  <1>1. PSInv => StateIsComplete
    BY DEF PSInv, ReadersInv
  <1>. QED
    BY <1>1, AuthoritySafety, PTL
=============================================================================
