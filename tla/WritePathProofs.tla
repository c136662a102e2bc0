-------------------------- MODULE WritePathProofs --------------------------
(***************************************************************************)
(* From the answer to memory, for any front ends, request_ids, contents and *)
(* workers of the three kinds: what a caller was told stays true, and a     *)
(* queued event that is done is stored as this caller sent it.  The table's  *)
(* side of it is the invariant of IngestProofs, which the front ends keep    *)
(* because all they do to the table is Submit().                            *)
(***************************************************************************)
EXTENDS WritePath, IngestProofs

(* What an answer says is so. *)
Truthful(a) ==
  /\ a.kind = "queued" => Present(a.request) /\ payload[a.request] = a.payload
  /\ a.mismatch => Present(a.request) /\ payload[a.request] # a.payload

(* A handler past its first line has a call, one about to insert has seen a  *)
(* clock that is not ahead, and an answer under way is as true as one that  *)
(* has arrived.                                                             *)
HandlerInv ==
  \A f \in FrontEnds :
    /\ stage[f] # "idle" => call[f] \in Intake!Calls
    /\ stage[f] = "insert" => asked[f] > 0
    /\ stage[f] = "reply" => reply[f] \in Intake!Answers /\ Truthful(reply[f])

(* What callers were told. *)
AnswersInv == \A a \in answers : Truthful(a)

(* Inductive: the table, the handlers and the answers together. *)
WPInv == PipelineInv /\ Intake!TypeOK /\ HandlerInv /\ AnswersInv

(* Rows never go and never change their content. *)
RowsStay == \A r \in Requests : Present(r) => Present(r)' /\ payload'[r] = payload[r]

-----------------------------------------------------------------------------
(* The table *)

LEMMA FrontEndIsClient ==
  ASSUME WPInv, NEW f \in FrontEnds, FrontEndStep(f)
  PROVE  [Next]_vars /\ RowsStay
  <1>1. CASE Intake!InsertRow(f)
    <2>1. call[f].request \in Requests /\ call[f].payload \in Payloads
      BY <1>1 DEF WPInv, HandlerInv, Intake!InsertRow, Intake!Calls
    <2>0. PICK at \in asked[f]..now : Intake!Insert(call[f].request, call[f].payload, at)
      BY <1>1 DEF Intake!InsertRow
    <2>4. at \in 1..now
      BY <1>1, <2>0 DEF WPInv, HandlerInv, PipelineInv, TypeOK, TableTypeOK, Intake!TypeOK, Intake!InsertRow
    <2>5. Insert(call[f].request, call[f].payload, at)
      BY <2>0 DEF Insert, Present, Intake!Insert, Intake!Present
    <2>2. Submit(call[f].request, call[f].payload)
      BY <1>1, <2>4, <2>5 DEF FrontEndStep, Submit, Intake!InsertRow
    <2>3. RowsStay
      BY <2>1, <2>2 DEF WPInv, PipelineInv, TypeOK, TableTypeOK, RowsStay, Submit, Insert, Present
    <2>. QED
      BY <2>1, <2>2, <2>3 DEF Next
  <1>2. CASE ~Intake!InsertRow(f)
    <2>1. UNCHANGED <<table, now>>
      BY <1>2 DEF FrontEndStep, Intake!Handle, Intake!Receive, Intake!RefuseDegraded,
                  Intake!FindDuplicate, Intake!FindNothing, Intake!LoseInsert, Intake!EnqueueRaises,
                  Intake!Deliver, Intake!LoseCall, Intake!table, table
    <2>2. UNCHANGED vars
      BY <2>1 DEF FrontEndStep, vars
    <2>. QED
      BY <2>1, <2>2 DEF RowsStay, Present, table
  <1>. QED
    BY <1>1, <1>2

LEMMA ConsumerKeepsRows ==
  ASSUME WPInv, ConsumerStep
  PROVE  [Next]_vars /\ RowsStay
  <1>1. Next
    BY DEF ConsumerStep, Next
  <1>2. ASSUME UNCHANGED table
        PROVE  RowsStay
    BY <1>2 DEF RowsStay, Present, table
  <1>3. ASSUME Tick
        PROVE  RowsStay
    BY <1>2, <1>3 DEF Tick
  <1>4. ASSUME NEW w \in Workers,
               \/ KeepAlive(w) \/ Launch(w) \/ Crash(w) \/ Signal(w)
               \/ StopFollowing(w) \/ FinishDrain(w) \/ StatementRaises(w)
        PROVE  RowsStay
    BY <1>2, <1>4 DEF KeepAlive, Launch, Start, Crash, Signal, StopFollowing, FinishDrain,
                      StatementRaises, End
  <1>5. ASSUME NEW w \in Workers, Recover(w)
        PROVE  RowsStay
    BY <1>5 DEF WPInv, PipelineInv, TypeOK, TableTypeOK, RowsStay, Present, Recover, Bury, Requeue,
                BuryExhausted, RequeueProcessing
  <1>6. ASSUME NEW w \in Workers, NEW r \in Requests, ClaimNext(w, r)
        PROVE  RowsStay
    BY <1>6 DEF WPInv, PipelineInv, TypeOK, TableTypeOK, RowsStay, Present, ClaimNext, Claim
  <1>7. ASSUME NEW w \in Workers, ProcessOne(w)
        PROVE  RowsStay
    <2>1. CASE StoreItem(w) \/ IngestReturns(w) \/ IngestRaises(w) \/ FailRead(w)
      BY <1>2, <2>1 DEF StoreItem, IngestReturns, IngestRaises, FailRead
    <2>2. CASE Ack(w)
      BY <2>2 DEF WPInv, PipelineInv, TypeOK, TableTypeOK, RowsStay, Present, Ack, SetDone
    <2>3. CASE FailWrite(w)
      BY <2>3 DEF WPInv, PipelineInv, TypeOK, TableTypeOK, RowsStay, Present, FailWrite, SetFailed
    <2>. QED
      BY <1>7, <2>1, <2>2, <2>3 DEF ProcessOne
  <1>. QED
    BY <1>1, <1>3, <1>4, <1>5, <1>6, <1>7 DEF ConsumerStep

-----------------------------------------------------------------------------
(* The handlers *)

(* What was true of a row that stays, stays true. *)
LEMMA TruthLasts ==
  ASSUME RowsStay
  PROVE  \A a \in Intake!Answers : Truthful(a) => Truthful(a)'
  BY DEF RowsStay, Truthful, Present, Intake!Answers

(* The table of the intake is the table of the pipeline. *)
LEMMA SameTypes == TypeOK => Intake!TableTypeOK
  BY DEF TypeOK, TableTypeOK, Intake!TableTypeOK, Statuses, LiveStatuses, TerminalStatuses,
         Intake!Statuses, Intake!LiveStatuses, Intake!TerminalStatuses

LEMMA ConsumerInv ==
  ASSUME WPInv, ConsumerStep
  PROVE  WPInv'
  <1>1. RowsStay /\ PipelineInv'
    BY ConsumerKeepsRows, NextInv DEF WPInv
  <1>2. UNCHANGED <<stage, call, asked, reply, answers>>
    BY DEF ConsumerStep, intakeVars
  <1>3. Intake!TableTypeOK'
    BY <1>1, SameTypes, PTL DEF PipelineInv
  <1>4. Intake!TypeOK'
    BY <1>2, <1>3 DEF WPInv, Intake!TypeOK
  <1>5. HandlerInv'
    BY <1>1, <1>2, TruthLasts DEF WPInv, HandlerInv, Truthful, Present
  <1>6. AnswersInv'
    BY <1>1, <1>2, TruthLasts DEF WPInv, Intake!TypeOK, AnswersInv, Truthful, Present
  <1>. QED
    BY <1>1, <1>4, <1>5, <1>6 DEF WPInv

(* A handler that has chosen an answer which is true once its statement is   *)
(* committed.                                                               *)
LEMMA RespondInv ==
  ASSUME WPInv, RowsStay, PipelineInv', NEW f \in FrontEnds, stage[f] # "idle",
         NEW kind \in {"queued", "duplicate", "degraded"}, NEW mismatch \in BOOLEAN,
         Intake!Respond(f, kind, mismatch),
         kind = "queued" =>
           status'[call[f].request] # "absent" /\ payload'[call[f].request] = call[f].payload,
         mismatch =>
           status'[call[f].request] # "absent" /\ payload'[call[f].request] # call[f].payload
  PROVE  WPInv'
  <1>1. /\ stage' = [stage EXCEPT ![f] = "reply"]
        /\ reply' = [reply EXCEPT ![f] = Intake!Answer(call[f], kind, mismatch)]
        /\ asked' = [asked EXCEPT ![f] = 0]
        /\ UNCHANGED <<call, answers>>
    BY DEF Intake!Respond
  <1>2. call[f] \in Intake!Calls
    BY DEF WPInv, HandlerInv
  <1>3. Intake!Answer(call[f], kind, mismatch) \in Intake!Answers
    BY <1>2 DEF Intake!Answer, Intake!Answers, Intake!Calls
  <1>4. Intake!TableTypeOK'
    BY SameTypes, PTL DEF PipelineInv
  <1>5. Intake!TypeOK'
    BY <1>1, <1>3, <1>4 DEF WPInv, Intake!TypeOK
  <1>6. HandlerInv'
    <2>. SUFFICES ASSUME NEW g \in FrontEnds
                  PROVE  /\ stage'[g] # "idle" => call'[g] \in Intake!Calls
                         /\ stage'[g] = "insert" => asked'[g] > 0
                         /\ stage'[g] = "reply" => reply'[g] \in Intake!Answers /\ Truthful(reply[g])'
      BY DEF HandlerInv, Intake!Calls, Intake!Answers
    <2>1. CASE g = f
      <3>1. /\ reply'[g] = Intake!Answer(call[f], kind, mismatch) /\ call'[g] = call[f]
            /\ stage'[g] = "reply"
        BY <1>1, <2>1 DEF WPInv, Intake!TypeOK
      <3>2. Truthful(reply[g])'
        BY <1>2, <3>1 DEF Truthful, Present, Intake!Answer
      <3>. QED
        BY <1>2, <1>3, <3>1, <3>2
    <2>2. CASE g # f
      BY <1>1, <2>2, TruthLasts DEF WPInv, HandlerInv, Intake!TypeOK, Truthful, Present
    <2>. QED
      BY <2>1, <2>2
  <1>7. AnswersInv'
    BY <1>1, TruthLasts DEF WPInv, Intake!TypeOK, AnswersInv, Truthful, Present
  <1>. QED
    BY <1>5, <1>6, <1>7 DEF WPInv

(* The answer arrives or is lost, and the handler is done. *)
LEMMA ForgetInv ==
  ASSUME WPInv, RowsStay, PipelineInv', NEW f \in FrontEnds, Intake!Forget(f),
         \/ answers' = answers
         \/ stage[f] = "reply" /\ answers' = answers \cup {reply[f]}
  PROVE  WPInv'
  <1>1. /\ stage' = [stage EXCEPT ![f] = "idle"]
        /\ call' = [call EXCEPT ![f] = NoCall]
        /\ asked' = [asked EXCEPT ![f] = 0]
        /\ reply' = [reply EXCEPT ![f] = NoCall]
    BY DEF Intake!Forget
  <1>2. \A a \in answers' : a \in Intake!Answers /\ Truthful(a)
    BY DEF WPInv, HandlerInv, AnswersInv, Intake!TypeOK
  <1>3. Intake!TableTypeOK'
    BY SameTypes, PTL DEF PipelineInv
  <1>4. Intake!TypeOK'
    BY <1>1, <1>2, <1>3 DEF WPInv, Intake!TypeOK
  <1>5. HandlerInv'
    BY <1>1, TruthLasts DEF WPInv, HandlerInv, Intake!TypeOK, Truthful, Present
  <1>6. AnswersInv'
    BY <1>2, TruthLasts DEF AnswersInv, Truthful, Present
  <1>. QED
    BY <1>4, <1>5, <1>6 DEF WPInv

LEMMA FrontEndInv ==
  ASSUME WPInv, NEW f \in FrontEnds, FrontEndStep(f)
  PROVE  WPInv'
  <1>1. RowsStay /\ PipelineInv'
    BY FrontEndIsClient, NextInv DEF WPInv
  <1>2. ASSUME stage' \in [FrontEnds -> {"idle", "select", "insert", "reply"}],
               call' \in [FrontEnds -> Intake!Calls \cup {NoCall}],
               asked' \in [FrontEnds -> Nat],
               stage'[f] \in {"select", "insert"}, call'[f] \in Intake!Calls,
               stage'[f] = "insert" => asked'[f] > 0,
               \A g \in FrontEnds \ {f} :
                 stage'[g] = stage[g] /\ call'[g] = call[g] /\ asked'[g] = asked[g],
               UNCHANGED <<reply, answers>>
        PROVE  WPInv'
    <2>1. Intake!TableTypeOK'
      BY <1>1, SameTypes, PTL DEF PipelineInv
    <2>2. Intake!TypeOK'
      BY <1>2, <2>1 DEF WPInv, Intake!TypeOK
    <2>3. HandlerInv'
      BY <1>1, <1>2, TruthLasts DEF WPInv, HandlerInv, Truthful, Present
    <2>4. AnswersInv'
      BY <1>1, <1>2, TruthLasts DEF WPInv, Intake!TypeOK, AnswersInv, Truthful, Present
    <2>. QED
      BY <1>1, <2>2, <2>3, <2>4 DEF WPInv
  <1>3. ASSUME NEW c \in Intake!Calls, Intake!Receive(f, c)
        PROVE  WPInv'
    BY <1>2, <1>3 DEF WPInv, Intake!TypeOK, Intake!Receive
  <1>4. CASE Intake!FindNothing(f)
    <2>1. now \in Nat /\ now > 0
      BY DEF WPInv, PipelineInv, TypeOK, TableTypeOK
    <2>. QED
      BY <1>2, <1>4, <2>1 DEF WPInv, HandlerInv, Intake!TypeOK, Intake!FindNothing
  <1>5. CASE Intake!RefuseDegraded(f) \/ Intake!EnqueueRaises(f)
    BY <1>1, <1>5, RespondInv DEF Intake!RefuseDegraded, Intake!EnqueueRaises
  <1>6. CASE Intake!LoseInsert(f)
    BY <1>1, <1>6, RespondInv DEF Intake!LoseInsert
  <1>7. CASE Intake!FindDuplicate(f)
    <2>1. call[f].request \in Requests
      BY <1>7 DEF WPInv, HandlerInv, Intake!FindDuplicate, Intake!Calls
    <2>2. /\ status'[call[f].request] # "absent"
          /\ payload'[call[f].request] = payload[call[f].request]
      BY <1>1, <1>7, <2>1 DEF RowsStay, Intake!FindDuplicate, Present, Intake!Present
    <2>. QED
      BY <1>1, <1>7, <2>2, RespondInv DEF Intake!FindDuplicate
  <1>8. CASE Intake!InsertRow(f)
    <2>1. call[f].request \in Requests
      BY <1>8 DEF WPInv, HandlerInv, Intake!InsertRow, Intake!Calls
    <2>2. status'[call[f].request] # "absent" /\ payload'[call[f].request] = call[f].payload
      BY <1>8, <2>1 DEF WPInv, PipelineInv, TypeOK, TableTypeOK, Intake!InsertRow, Intake!Insert, Present
    <2>. QED
      BY <1>1, <1>8, <2>2, RespondInv DEF Intake!InsertRow
  <1>9. CASE Intake!Deliver(f)
    <2>1. Intake!Forget(f) /\ stage[f] = "reply" /\ answers' = answers \cup {reply[f]}
      BY <1>9 DEF Intake!Deliver
    <2>. QED
      BY <1>1, <2>1, ForgetInv
  <1>10. CASE Intake!LoseCall(f)
    <2>1. Intake!Forget(f) /\ answers' = answers
      BY <1>10 DEF Intake!LoseCall
    <2>. QED
      BY <1>1, <2>1, ForgetInv
  <1>. QED
    BY <1>3, <1>4, <1>5, <1>6, <1>7, <1>8, <1>9, <1>10 DEF FrontEndStep, Intake!Handle

-----------------------------------------------------------------------------

LEMMA WPInitInv == WPInit => WPInv
  <1>1. WPInit => PipelineInv
    BY InitInv DEF WPInit
  <1>2. WPInit => Intake!TableTypeOK
    BY <1>1, SameTypes DEF PipelineInv
  <1>3. WPInit => Intake!TypeOK /\ HandlerInv /\ AnswersInv
    BY <1>2 DEF WPInit, Intake!Init, Intake!TypeOK, HandlerInv, AnswersInv
  <1>. QED
    BY <1>1, <1>3 DEF WPInv

LEMMA WPStutterInv ==
  ASSUME WPInv, UNCHANGED wpVars
  PROVE  WPInv'
  <1>1. PipelineInv'
    BY NextInv DEF WPInv, wpVars
  <1>2. Intake!TableTypeOK'
    BY <1>1, SameTypes, PTL DEF PipelineInv
  <1>3. UNCHANGED <<status, payload, stage, call, asked, reply, answers>>
    BY DEF wpVars, vars, table, intakeVars
  <1>. QED
    BY <1>1, <1>2, <1>3 DEF WPInv, Intake!TypeOK, HandlerInv, AnswersInv, Truthful, Present

(* The invariant of the whole write path. *)
THEOREM WritePathSafety == WPSpec => []WPInv
  <1>1. WPInv /\ [WPNext]_wpVars => WPInv'
    BY ConsumerInv, FrontEndInv, WPStutterInv DEF WPNext
  <1>. QED
    BY <1>1, WPInitInv, PTL DEF WPSpec

(* The table, the workers and the handlers of the front ends keep their types:*)
(* no call is answered that was not received, and no row has a fifth status. *)
THEOREM WritePathTypeCorrect == WPSpec => []WPTypeOK
  <1>1. WPInv => WPTypeOK
    BY DEF WPInv, PipelineInv, WPTypeOK
  <1>. QED
    BY <1>1, WritePathSafety, PTL

(* queue.py, enqueue(), and api/events.py: a queued answer is a promise that *)
(* this content is the row's, and a reported mismatch is one, for good,      *)
(* whoever else sends the same request_id and whatever the workers do.      *)
THEOREM AnswersStayTrue == WPSpec => []AnswersAreTrue
  <1>1. WPInv => AnswersAreTrue
    BY DEF WPInv, AnswersInv, Truthful, AnswersAreTrue, Intake!AnswersAreTrue, Present, Intake!Present
  <1>. QED
    BY <1>1, WritePathSafety, PTL

(* From postflight() to ack(): a caller that was told queued finds its own   *)
(* content in memory when the event is done.                                *)
THEOREM QueuedStaysRemembered == WPSpec => []QueuedIsRemembered
  <1>1. WPInv => QueuedIsRemembered
    <2>. SUFFICES ASSUME WPInv, NEW a \in answers, a.kind = "queued", status[a.request] = "done"
                  PROVE  \A k \in 1..Len(ItemsOf[a.payload]) :
                           Key(a.request, ItemsOf[a.payload][k]) \in memory
      BY DEF QueuedIsRemembered
    <2>1. a.request \in Requests /\ payload[a.request] = a.payload
      BY DEF WPInv, AnswersInv, Truthful, Intake!TypeOK, Intake!Answers
    <2>. QED
      BY <2>1 DEF WPInv, PipelineInv, RowsInv, ItemsIn
  <1>. QED
    BY <1>1, WritePathSafety, PTL

-----------------------------------------------------------------------------
(* One consumer implements what the intake reckons with *)

LEMMA WPOneConsumerStep ==
  ASSUME OneConsumer, WPInv, OneConsumerInv, [WPNext]_wpVars
  PROVE  OneConsumerInv'
  <1>1. [Next]_vars
    BY FrontEndIsClient, ConsumerKeepsRows DEF WPNext, wpVars
  <1>. QED
    BY <1>1, NextOneConsumerInv DEF WPInv

(* The same statement, on the same table. *)
LEMMA ConsumeSteps ==
  ASSUME UNCHANGED now, UNCHANGED intakeVars,
         \/ BuryExhausted
         \/ \E at \in 1..now : RequeueProcessing(at)
         \/ \E r \in Requests :
              \/ Claim(r)
              \/ status[r] = "processing" /\ SetDone(r)
              \/ status[r] = "processing" /\ \E at \in 1..now : SetFailed(r, attempts[r], at)
  PROVE  Intake!Next
  <1>1. UNCHANGED Intake!intakeVars
    BY DEF Intake!intakeVars, intakeVars
  <1>2. ASSUME BuryExhausted
        PROVE  Intake!BuryExhausted
    BY <1>2 DEF BuryExhausted, Exhausted, Intake!BuryExhausted, Intake!Exhausted
  <1>3. ASSUME NEW at \in 1..now, RequeueProcessing(at)
        PROVE  Intake!RequeueProcessing(at)
    BY <1>3 DEF RequeueProcessing, Intake!RequeueProcessing
  <1>4. ASSUME NEW r \in Requests, Claim(r)
        PROVE  Intake!Claim(r)
    BY <1>4 DEF Claim, Due, ClaimedBefore, Intake!Claim, Intake!Due, Intake!ClaimedBefore
  <1>5. ASSUME NEW r \in Requests, SetDone(r)
        PROVE  Intake!SetDone(r)
    BY <1>5 DEF SetDone, Intake!SetDone
  <1>6. ASSUME NEW r \in Requests, NEW at \in 1..now, SetFailed(r, attempts[r], at)
        PROVE  Intake!SetFailed(r, attempts[r], at)
    BY <1>6 DEF SetFailed, Intake!SetFailed
  <1>7. Intake!Consume
    BY <1>1, <1>2, <1>3, <1>4, <1>5, <1>6 DEF Intake!Consume
  <1>. QED
    BY <1>7 DEF Intake!Next

LEMMA ConsumerIsConsume ==
  ASSUME WPInv, OneConsumerInv, ConsumerStep
  PROVE  [Intake!Next]_(Intake!vars)
  <1>1. UNCHANGED intakeVars
    BY DEF ConsumerStep
  <1>2. ASSUME UNCHANGED <<table, now>>
        PROVE  UNCHANGED Intake!vars
    BY <1>1, <1>2 DEF table, intakeVars, Intake!vars, Intake!table, Intake!intakeVars
  <1>3. CASE Tick
    <2>1. Intake!Tick
      BY <1>1, <1>3 DEF Tick, table, intakeVars, Intake!Tick, Intake!table, Intake!intakeVars
    <2>. QED
      BY <2>1 DEF Intake!Next
  <1>4. ASSUME NEW w \in Workers,
               \/ KeepAlive(w) \/ Launch(w) \/ Crash(w) \/ Signal(w)
               \/ StopFollowing(w) \/ FinishDrain(w) \/ StatementRaises(w)
        PROVE  UNCHANGED Intake!vars
    BY <1>2, <1>4 DEF KeepAlive, Launch, Start, Crash, Signal, StopFollowing, FinishDrain,
                      StatementRaises, End
  <1>5. ASSUME NEW w \in Workers, Recover(w)
        PROVE  Intake!Next
    <2>1. CASE Bury(w)
      BY <1>1, <2>1, ConsumeSteps DEF Bury
    <2>2. CASE Requeue(w)
      <3>1. clock[w] \in 1..now
        BY <2>2 DEF Requeue, WPInv, PipelineInv, ClockInv, Booting
      <3>2. RequeueProcessing(clock[w]) /\ UNCHANGED now
        BY <2>2 DEF Requeue
      <3>. QED
        BY <1>1, <3>1, <3>2, ConsumeSteps
    <2>. QED
      BY <1>5, <2>1, <2>2 DEF Recover
  <1>6. ASSUME NEW w \in Workers, NEW r \in Requests, ClaimNext(w, r)
        PROVE  Intake!Next
    BY <1>1, <1>6, ConsumeSteps DEF ClaimNext
  <1>7. ASSUME NEW w \in Workers, ProcessOne(w)
        PROVE  Intake!Next \/ UNCHANGED Intake!vars
    <2>1. CASE StoreItem(w) \/ IngestReturns(w) \/ IngestRaises(w) \/ FailRead(w)
      BY <1>2, <2>1 DEF StoreItem, IngestReturns, IngestRaises, FailRead
    <2>2. pc[w] \in Holding => cur[w] \in Requests /\ status[cur[w]] = "processing"
      BY DEF OneConsumerInv, WPInv, PipelineInv, HoldersInv
    <2>3. CASE Ack(w)
      <3>1. cur[w] \in Requests /\ status[cur[w]] = "processing" /\ SetDone(cur[w]) /\ UNCHANGED now
        BY <2>2, <2>3 DEF Ack, Holding
      <3>. QED
        BY <1>1, <3>1, ConsumeSteps
    <2>4. CASE FailWrite(w)
      <3>1. /\ cur[w] \in Requests /\ status[cur[w]] = "processing" /\ UNCHANGED now
            /\ \E at \in clock[w]..now : SetFailed(cur[w], seen[w], at)
            /\ seen[w] = attempts[cur[w]]
        BY <2>2, <2>4 DEF FailWrite, Holding, OneConsumerInv
      <3>2. clock[w] \in 1..now /\ now \in Nat
        BY <2>4 DEF FailWrite, WPInv, PipelineInv, ClockInv, TypeOK, TableTypeOK
      <3>3. \E at \in 1..now : SetFailed(cur[w], attempts[cur[w]], at)
        BY <3>1, <3>2
      <3>. QED
        BY <1>1, <3>1, <3>3, ConsumeSteps
    <2>. QED
      BY <1>7, <2>1, <2>3, <2>4 DEF ProcessOne
  <1>. QED
    BY <1>3, <1>4, <1>5, <1>6, <1>7 DEF ConsumerStep

(* With one consumer of any kind the workers are the consumer that the front  *)
(* ends of api/events.py and queue.py, enqueue(), reckon with: a row is      *)
(* claimed, settled by its own attempts or swept, and nothing else happens.  *)
THEOREM WritePathImplementsIntake ==
  ASSUME OneConsumer
  PROVE  WPSpec => ImplementsIntake
  <1>1. WPInit => OneConsumerInv /\ Intake!Init
    BY InitOneConsumerInv DEF WPInit
  <1>2. WPInv /\ OneConsumerInv /\ [WPNext]_wpVars => OneConsumerInv'
    BY WPOneConsumerStep
  <1>3. WPInv /\ OneConsumerInv /\ [WPNext]_wpVars => [Intake!Next]_(Intake!vars)
    <2>1. ASSUME NEW f \in FrontEnds, FrontEndStep(f)
          PROVE  Intake!Next
      BY <2>1 DEF FrontEndStep, Intake!Next
    <2>2. ASSUME UNCHANGED wpVars
          PROVE  UNCHANGED Intake!vars
      BY <2>2 DEF wpVars, vars, table, intakeVars, Intake!vars, Intake!table, Intake!intakeVars
    <2>. QED
      BY <2>1, <2>2, ConsumerIsConsume DEF WPNext
  <1>. QED
    BY <1>1, <1>2, <1>3, WritePathSafety, PTL DEF WPSpec, ImplementsIntake, Intake!Spec
=============================================================================
