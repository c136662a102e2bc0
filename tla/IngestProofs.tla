---------------------------- MODULE IngestProofs ----------------------------
(***************************************************************************)
(* Theorems about IngestPipeline for every set of requests, payloads and    *)
(* workers, and every MaxAttempts.                                          *)
(***************************************************************************)
EXTENDS IngestRefinement, TLAPS

(* The items of a present row, as a sequence. *)
LEMMA ItemsOfRow ==
  ASSUME TypeOK, RowsInv, NEW r \in Requests, Present(r)
  PROVE  /\ payload[r] \in Payloads
         /\ ItemsIn(r) \in Seq(Items)
         /\ Len(ItemsIn(r)) \in Nat
         /\ \A k \in 1..Len(ItemsIn(r)) :
              ItemsIn(r)[k] \in Items /\ Key(r, ItemsIn(r)[k]) \in Keys
  <1>1. payload[r] \in Payloads
    BY DEF RowsInv
  <1>2. ItemsIn(r) \in Seq(Items)
    BY <1>1, ItemsAssumption DEF ItemsIn
  <1>3. Len(ItemsIn(r)) \in Nat /\ \A k \in 1..Len(ItemsIn(r)) : ItemsIn(r)[k] \in Items
    BY <1>2
  <1> QED
    BY <1>1, <1>2, <1>3 DEF Key, Keys

(* An empty table and processes that hold nothing satisfy the invariant. *)
LEMMA InitInv == Init => PipelineInv
  BY DEF Init, TableInit, PipelineInv, TypeOK, TableTypeOK, RowsInv, HoldersInv,
         UntriedInv, ClockInv, Present, Statuses, LiveStatuses,
         TerminalStatuses, Places, Holding, Running, Booting, Workers

(* An accepted event starts unclaimed, with a time that is not ahead. *)
LEMMA SubmitInv ==
  ASSUME PipelineInv, NEW r \in Requests, NEW p \in Payloads, Submit(r, p)
  PROVE  PipelineInv'
  <1> USE DEF PipelineInv
  <1>1. PICK at \in 1..now : Insert(r, p, at)
    BY DEF Submit
  <1>0. /\ ~Present(r) /\ at \in Nat /\ at <= now
        /\ status' = [status EXCEPT ![r] = "queued"]
        /\ nextAttempt' = [nextAttempt EXCEPT ![r] = at]
        /\ createdAt' = [createdAt EXCEPT ![r] = at]
        /\ payload' = [payload EXCEPT ![r] = p]
        /\ UNCHANGED <<attempts, now, memory, workerVars>>
    BY <1>1 DEF Submit, Insert, TypeOK, TableTypeOK
  <1>2. TypeOK'
    BY <1>0 DEF TypeOK, TableTypeOK, Statuses, LiveStatuses, workerVars
  <1>3. RowsInv'
    BY <1>0 DEF TypeOK, TableTypeOK, RowsInv, Present, ItemsIn
  <1>4. HoldersInv'
    BY <1>0 DEF TypeOK, TableTypeOK, HoldersInv, Present, ItemsIn, workerVars
  <1>5. UntriedInv'
    BY <1>0 DEF TypeOK, TableTypeOK, UntriedInv, Present
  <1>6. ClockInv'
    BY <1>0 DEF ClockInv, workerVars
  <1> QED
    BY <1>2, <1>3, <1>4, <1>5, <1>6

(* Time only makes rows due. *)
LEMMA TickInv ==
  ASSUME PipelineInv, Tick
  PROVE  PipelineInv'
  <1> USE DEF PipelineInv
  <1>1. now' = now + 1 /\ UNCHANGED <<table, memory, workerVars>>
    BY DEF Tick
  <1>2. TypeOK'
    BY <1>1 DEF TypeOK, TableTypeOK, table, workerVars
  <1>3. RowsInv' /\ HoldersInv'
    BY <1>1 DEF RowsInv, HoldersInv, Present, ItemsIn, table, workerVars
  <1>4. UntriedInv' /\ ClockInv'
    BY <1>1 DEF TypeOK, TableTypeOK, UntriedInv, ClockInv, Present, table, workerVars
  <1> QED
    BY <1>2, <1>3, <1>4

(* A process that ends, starts or is signalled leaves the table alone and   *)
(* holds no row afterwards that it did not hold before.                     *)
LEMMA LifeInv ==
  ASSUME PipelineInv, UNCHANGED <<table, now, memory>>,
         NEW w \in Workers,
         NEW place \in Places \ Holding,
         \/ UNCHANGED <<pc, cur, step, seen, clock>>
         \/ /\ pc' = [pc EXCEPT ![w] = place]
            /\ \/ Forget(w) /\ place \notin Booting
               \/ UNCHANGED <<cur, step, seen>> /\ clock' = [clock EXCEPT ![w] = now],
         stopping' \in [Workers -> BOOLEAN]
  PROVE  PipelineInv'
  <1> USE DEF PipelineInv
  <1>1. TypeOK'
    BY DEF TypeOK, TableTypeOK, table, Forget
  <1>2. RowsInv' /\ UntriedInv'
    BY DEF RowsInv, UntriedInv, Present, ItemsIn, table
  <1>4. ClockInv'
    BY DEF TypeOK, TableTypeOK, ClockInv, Forget, Holding
  <1>3. HoldersInv'
    <2>1. CASE UNCHANGED <<pc, cur, step, seen, clock>>
      BY <2>1 DEF TypeOK, HoldersInv, Present, ItemsIn, table
    <2>2. CASE /\ pc' = [pc EXCEPT ![w] = place]
               /\ Forget(w) \/ UNCHANGED <<cur, step, seen>>
      <3> SUFFICES ASSUME NEW v \in Workers, pc'[v] \in Holding
                   PROVE  /\ v # w
                          /\ pc'[v] = pc[v] /\ cur'[v] = cur[v]
                          /\ step'[v] = step[v] /\ seen'[v] = seen[v]
        BY DEF HoldersInv, Present, ItemsIn, table
      <3> QED
        BY <2>2 DEF TypeOK, Forget
    <2> QED
      BY <2>1, <2>2
  <1> QED
    BY <1>1, <1>2, <1>3, <1>4

(* A process starts with the clock it finds; a drain_queue() reads none. *)
LEMMA StartInv ==
  ASSUME PipelineInv, NEW w \in Workers, Start(w)
  PROVE  PipelineInv'
  <1>1. stopping' \in [Workers -> BOOLEAN]
    BY DEF PipelineInv, TypeOK, Start
  <1>2. CASE w \notin Inline
    <2>1. /\ pc' = [pc EXCEPT ![w] = "bury"]
          /\ clock' = [clock EXCEPT ![w] = now]
          /\ UNCHANGED <<table, now, memory, cur, step, seen>>
      BY <1>2 DEF Start, Goto
    <2>2. "bury" \in Places \ Holding
      BY DEF Places, Running, Booting, Holding
    <2> QED
      BY <1>1, <2>1, <2>2, LifeInv
  <1>3. CASE w \in Inline
    <2>1. /\ pc' = [pc EXCEPT ![w] = "poll"]
          /\ clock' = [clock EXCEPT ![w] = 0]
          /\ UNCHANGED <<table, now, memory, cur, step, seen>>
      BY <1>3 DEF Start, Goto
    <2> USE DEF PipelineInv
    <2>2. TypeOK'
      BY <1>1, <2>1 DEF TypeOK, TableTypeOK, table, Places, Running
    <2>3. RowsInv' /\ UntriedInv'
      BY <2>1 DEF RowsInv, UntriedInv, Present, ItemsIn, table
    <2>4. HoldersInv' /\ ClockInv'
      BY <2>1 DEF TypeOK, HoldersInv, ClockInv, Booting, Holding, Present, ItemsIn, table
    <2> QED
      BY <2>2, <2>3, <2>4
  <1> QED
    BY <1>2, <1>3

(* Boot recovery moves only rows that were claimed, whoever still holds them. *)
LEMMA RecoverInv ==
  ASSUME PipelineInv, NEW w \in Workers, Recover(w)
  PROVE  PipelineInv'
  <1> USE DEF PipelineInv
  <1>1. /\ pc[w] \notin Holding
        /\ \E place \in {"requeue", "requeue2", "bury2", "poll"}, at \in Nat :
             /\ pc' = [pc EXCEPT ![w] = place]
             /\ clock' = [clock EXCEPT ![w] = at]
             /\ place # "poll" => at \in 1..now
        /\ UNCHANGED <<now, memory, cur, step, seen, stopping, attempts, createdAt, payload>>
    <2>1. pc[w] \in Booting /\ clock[w] \in 1..now /\ now \in Nat
      BY DEF Recover, Bury, Requeue, Booting, ClockInv, TypeOK, TableTypeOK
    <2>2. CASE Bury(w)
      <3>1. PICK at \in clock[w]..now : clock' = [clock EXCEPT ![w] = at]
        BY <2>2 DEF Bury
      <3>2. at \in 1..now /\ at \in Nat
        BY <2>1, <3>1
      <3>. QED
        BY <2>1, <2>2, <3>1, <3>2 DEF Bury, BuryExhausted, Goto, Holding, Booting
    <2>3. CASE Requeue(w)
      <3>. DEFINE again == pc[w] = "requeue" /\ w \in Followers
      <3>1. /\ pc' = [pc EXCEPT ![w] = IF again THEN "bury2" ELSE "poll"]
            /\ clock' = [clock EXCEPT ![w] = IF again THEN now ELSE 0]
        BY <2>3 DEF Requeue, Goto
      <3>2. now \in 1..now
        BY <2>1
      <3>. QED
        BY <2>1, <2>3, <3>1, <3>2 DEF Requeue, RequeueProcessing, Holding, Booting
    <2>. QED
      BY <2>2, <2>3 DEF Recover
  <1>2. \A r \in Requests :
          \/ status'[r] = status[r] /\ nextAttempt'[r] = nextAttempt[r]
          \/ /\ status[r] = "processing" /\ status'[r] = "dead"
             /\ nextAttempt'[r] = 0 /\ attempts[r] >= MaxAttempts
          \/ status[r] = "processing" /\ status'[r] = "queued" /\ nextAttempt'[r] = clock[w]
    BY DEF Recover, Bury, Requeue, BuryExhausted, RequeueProcessing, Exhausted
  <1>3. status' \in [Requests -> Statuses] /\ nextAttempt' \in [Requests -> Nat]
    BY DEF Recover, Bury, Requeue, BuryExhausted, RequeueProcessing, TypeOK, TableTypeOK,
           Statuses, LiveStatuses, TerminalStatuses
  <1>4. TypeOK'
    BY <1>1, <1>3 DEF TypeOK, TableTypeOK, Places, Running, Booting
  <1>5. RowsInv'
    BY <1>1, <1>2 DEF TypeOK, TableTypeOK, RowsInv, Present, ItemsIn
  <1>6. HoldersInv'
    <2>1. \A v \in Workers : pc'[v] \in Holding => pc'[v] = pc[v]
      BY <1>1 DEF TypeOK, Holding
    <2>2. \A r \in Requests : Present(r) => Present(r)'
      BY <1>2 DEF Present
    <2>3. UNCHANGED <<memory, cur, step, seen, attempts, payload>>
      BY <1>1
    <2> QED
      BY <2>1, <2>2, <2>3 DEF HoldersInv, ItemsIn
  <1>7. UntriedInv'
    BY <1>1, <1>2 DEF TypeOK, TableTypeOK, RowsInv, UntriedInv, Present
  <1>8. ClockInv'
    BY <1>1 DEF TypeOK, ClockInv, Booting
  <1> QED
    BY <1>4, <1>5, <1>6, <1>7, <1>8

(* claim() moves one row that is due. *)
LEMMA ClaimNextInv ==
  ASSUME PipelineInv, NEW w \in Workers, NEW r \in Requests, ClaimNext(w, r)
  PROVE  PipelineInv'
  <1> USE DEF PipelineInv
  <1>1. /\ Due(r)
        /\ status' = [status EXCEPT ![r] = "processing"]
        /\ attempts' = [attempts EXCEPT ![r] = @ + 1]
        /\ pc' = [pc EXCEPT ![w] = "ingest"]
        /\ cur' = [cur EXCEPT ![w] = r]
        /\ step' = [step EXCEPT ![w] = 1]
        /\ UNCHANGED <<nextAttempt, createdAt, payload, now, memory, seen, clock, stopping>>
    BY DEF ClaimNext, Claim, Goto
  <1>2. status[r] = "queued" /\ Present(r)
    BY <1>1 DEF Due, Present
  <1>3. TypeOK'
    BY <1>1 DEF TypeOK, TableTypeOK, Statuses, LiveStatuses, Places, Running, Holding
  <1>4. RowsInv'
    BY <1>1, <1>2 DEF TypeOK, TableTypeOK, RowsInv, Present, ItemsIn
  <1>5. HoldersInv'
    <2> SUFFICES ASSUME NEW v \in Workers, pc'[v] \in Holding
                 PROVE  HoldersInv!(v)'
      BY DEF HoldersInv
    <2>1. CASE v = w
      BY <1>1, <1>2, <2>1 DEF TypeOK, TableTypeOK, Present, ItemsIn
    <2>2. CASE v # w
      BY <1>1, <1>2, <2>2 DEF TypeOK, TableTypeOK, HoldersInv, Present, ItemsIn
    <2> QED
      BY <2>1, <2>2
  <1>6. UntriedInv'
    BY <1>1, <1>2 DEF TypeOK, TableTypeOK, UntriedInv, Present
  <1>7. ClockInv'
    BY <1>1 DEF TypeOK, ClockInv, Booting
  <1> QED
    BY <1>3, <1>4, <1>5, <1>6, <1>7

(* Storing an item or reading the attempts changes no row. *)
LEMMA StoreItemInv ==
  ASSUME PipelineInv, NEW w \in Workers, StoreItem(w)
  PROVE  PipelineInv'
  <1> USE DEF PipelineInv
  <1> DEFINE r == cur[w]
  <1>1. /\ pc[w] = "ingest"
        /\ step[w] <= Len(ItemsIn(r))
        /\ memory' = memory \cup {Key(r, ItemsIn(r)[step[w]])}
        /\ step' = [step EXCEPT ![w] = @ + 1]
        /\ UNCHANGED <<table, now, pc, cur, seen, clock, stopping>>
    BY DEF StoreItem
  <1>2. r \in Requests /\ Present(r) /\ step[w] > 0
    BY <1>1 DEF HoldersInv, Holding
  <1>3. step[w] \in 1..Len(ItemsIn(r)) /\ Key(r, ItemsIn(r)[step[w]]) \in Keys
    BY <1>1, <1>2, ItemsOfRow DEF TypeOK
  <1>4. TypeOK'
    BY <1>1, <1>3 DEF TypeOK, TableTypeOK, table
  <1>5. RowsInv' /\ UntriedInv' /\ ClockInv'
    BY <1>1 DEF RowsInv, UntriedInv, ClockInv, Present, ItemsIn, table
  <1>6. HoldersInv'
    <2> SUFFICES ASSUME NEW v \in Workers, pc'[v] \in Holding
                 PROVE  HoldersInv!(v)'
      BY DEF HoldersInv
    <2>1. CASE v = w
      <3>1. \A k \in 1..Len(ItemsIn(r)) : k < step[w] + 1 => Key(r, ItemsIn(r)[k]) \in memory'
        <4> SUFFICES ASSUME NEW k \in 1..Len(ItemsIn(r)), k < step[w] + 1, k # step[w]
                     PROVE  k < step[w] /\ Key(r, ItemsIn(r)[k]) \in memory
          BY <1>1
        <4>1. Len(ItemsIn(r)) \in Nat /\ step[w] \in Nat
          BY <1>2, ItemsOfRow DEF TypeOK
        <4>2. k < step[w]
          BY <4>1
        <4> QED
          BY <1>1, <4>2 DEF HoldersInv, Holding
      <3>2. /\ cur'[w] = r /\ step'[w] = step[w] + 1 /\ pc'[w] = "ingest"
            /\ attempts' = attempts /\ status' = status /\ payload' = payload
        BY <1>1 DEF TypeOK, table
      <3>3. attempts[r] > 0 /\ step[w] + 1 > 0
        BY <1>1, <1>2 DEF HoldersInv, Holding, TypeOK
      <3>4. \A k \in 1..Len(ItemsIn(cur[w])') :
              k < step'[w] => Key(cur[w], ItemsIn(cur[w])[k])' \in memory'
        BY <1>1, <3>1, <3>2 DEF ItemsIn, Key
      <3> QED
        BY <1>2, <2>1, <3>2, <3>3, <3>4 DEF Present
    <2>2. CASE v # w
      BY <1>1, <2>2 DEF TypeOK, HoldersInv, Present, ItemsIn, table
    <2> QED
      BY <2>1, <2>2
  <1> QED
    BY <1>4, <1>5, <1>6

(* The return of ingest_event(), with everything stored, changes no row. *)
LEMMA IngestReturnsInv ==
  ASSUME PipelineInv, NEW w \in Workers, IngestReturns(w)
  PROVE  PipelineInv'
  <1> USE DEF PipelineInv
  <1>1. /\ pc[w] = "ingest"
        /\ step[w] > Len(ItemsIn(cur[w]))
        /\ pc' = [pc EXCEPT ![w] = "ack"]
        /\ UNCHANGED <<table, now, memory, cur, step, seen, clock, stopping>>
    BY DEF IngestReturns, Goto
  <1>2. TypeOK'
    BY <1>1 DEF TypeOK, TableTypeOK, table, Places, Running, Holding
  <1>3. RowsInv' /\ UntriedInv' /\ ClockInv'
    BY <1>1 DEF TypeOK, RowsInv, UntriedInv, ClockInv, Booting, Present, ItemsIn, table
  <1>4. cur[w] \in Requests /\ Len(ItemsIn(cur[w])) \in Nat
    BY <1>1, ItemsOfRow DEF HoldersInv, Holding
  <1>5. HoldersInv'
    BY <1>1, <1>4 DEF TypeOK, HoldersInv, Holding, Present, ItemsIn, table
  <1> QED
    BY <1>2, <1>3, <1>5

(* What fail() reads is a lower bound from then on: attempts never decrease. *)
LEMMA FailReadInv ==
  ASSUME PipelineInv, NEW w \in Workers, IngestRaises(w) \/ FailRead(w)
  PROVE  PipelineInv'
  <1> USE DEF PipelineInv
  <1>1. /\ pc[w] \in Holding
        /\ \/ pc' = [pc EXCEPT ![w] = "failRead"] /\ UNCHANGED <<seen, clock>>
           \/ /\ pc' = [pc EXCEPT ![w] = "failWrite"]
              /\ clock' = [clock EXCEPT ![w] = now]
              /\ seen' = [seen EXCEPT ![w] = attempts[cur[w]]]
        /\ UNCHANGED <<table, now, memory, cur, step, stopping>>
    BY DEF IngestRaises, FailRead, Goto, Holding
  <1>2. cur[w] \in Requests /\ attempts[cur[w]] \in Nat \ {0}
    BY <1>1 DEF HoldersInv, TypeOK, TableTypeOK
  <1>3. TypeOK'
    BY <1>1, <1>2 DEF TypeOK, TableTypeOK, table, Places, Running, Holding
  <1>4. RowsInv' /\ UntriedInv' /\ ClockInv'
    BY <1>1 DEF TypeOK, TableTypeOK, RowsInv, UntriedInv, ClockInv, Booting, Present, ItemsIn, table
  <1>5. HoldersInv'
    BY <1>1, <1>2 DEF TypeOK, HoldersInv, Holding, Present, ItemsIn, table
  <1> QED
    BY <1>3, <1>4, <1>5

(* Ack and FailWrite settle or requeue the held row, whatever another       *)
(* worker has made of it since, and let go of it.                           *)
LEMMA AckInv ==
  ASSUME PipelineInv, NEW w \in Workers, Ack(w)
  PROVE  PipelineInv'
  <1> USE DEF PipelineInv
  <1> DEFINE r == cur[w]
  <1>1. /\ pc[w] = "ack"
        /\ status' = [status EXCEPT ![r] = "done"]
        /\ nextAttempt' = [nextAttempt EXCEPT ![r] = 0]
        /\ pc' = [pc EXCEPT ![w] = "poll"]
        /\ Forget(w)
        /\ UNCHANGED <<attempts, createdAt, payload, now, memory, stopping>>
    BY DEF Ack, SetDone, Release, Goto
  <1>2. /\ r \in Requests /\ Present(r) /\ attempts[r] > 0
        /\ \A k \in 1..Len(ItemsIn(r)) : Key(r, ItemsIn(r)[k]) \in memory
    BY <1>1 DEF HoldersInv, Holding
  <1>3. TypeOK'
    BY <1>1, <1>2 DEF TypeOK, TableTypeOK, Statuses, TerminalStatuses, Places, Running, Forget
  <1>4. RowsInv'
    BY <1>1, <1>2 DEF TypeOK, TableTypeOK, RowsInv, Present, ItemsIn
  <1>5. HoldersInv'
    BY <1>1, <1>2 DEF TypeOK, TableTypeOK, HoldersInv, Holding, Present, ItemsIn, Forget
  <1>6. UntriedInv'
    BY <1>1, <1>2 DEF TypeOK, TableTypeOK, UntriedInv, Present
  <1>7. ClockInv'
    BY <1>1 DEF TypeOK, ClockInv, Booting, Forget
  <1> QED
    BY <1>3, <1>4, <1>5, <1>6, <1>7

(* fail() requeues for later, or buries a row whose budget is used up. *)
LEMMA FailWriteInv ==
  ASSUME PipelineInv, NEW w \in Workers, FailWrite(w)
  PROVE  PipelineInv'
  <1> USE DEF PipelineInv
  <1> DEFINE r == cur[w]
  <1>1. /\ pc[w] = "failWrite"
        /\ \E at \in clock[w]..now : SetFailed(r, seen[w], at)
        /\ pc' = [pc EXCEPT ![w] = "poll"]
        /\ Forget(w)
        /\ UNCHANGED <<attempts, createdAt, payload, now, memory, stopping>>
    BY DEF FailWrite, SetFailed, Release, Goto
  <1>2. r \in Requests /\ Present(r) /\ attempts[r] > 0 /\ seen[w] \in 1..attempts[r]
    BY <1>1 DEF HoldersInv, Holding
  <1>3. \/ /\ attempts[r] >= MaxAttempts
           /\ status' = [status EXCEPT ![r] = "dead"]
           /\ nextAttempt' = [nextAttempt EXCEPT ![r] = 0]
        \/ \E due \in Nat :
           /\ status' = [status EXCEPT ![r] = "queued"]
           /\ nextAttempt' = [nextAttempt EXCEPT ![r] = due]
    <2>1. seen[w] \in Nat /\ attempts[r] \in Nat /\ clock[w] \in Nat /\ now \in Nat
      BY <1>2 DEF TypeOK, TableTypeOK
    <2>0. PICK at \in clock[w]..now : SetFailed(r, seen[w], at)
      BY <1>1
    <2>2. CASE seen[w] >= MaxAttempts
      BY <1>2, <2>0, <2>1, <2>2, MaxAttemptsAssumption DEF SetFailed
    <2>3. CASE ~(seen[w] >= MaxAttempts)
      <3>1. seen[w] \in 1..(MaxAttempts - 1)
        BY <1>2, <2>1, <2>3, MaxAttemptsAssumption
      <3>2. Backoff[seen[w]] \in Nat \ {0}
        BY <3>1, BackoffAssumption
      <3> DEFINE due == at + Backoff[seen[w]]
      <3>3. due \in Nat
        BY <2>1, <3>2
      <3>4. /\ status' = [status EXCEPT ![r] = "queued"]
            /\ nextAttempt' = [nextAttempt EXCEPT ![r] = due]
        BY <2>0, <2>3 DEF SetFailed
      <3> HIDE DEF due
      <3> QED
        BY <3>3, <3>4
    <2> QED
      BY <2>2, <2>3
  <1> HIDE DEF r
  <1>4. TypeOK'
    BY <1>1, <1>2, <1>3 DEF TypeOK, TableTypeOK, Statuses, LiveStatuses, TerminalStatuses,
                            Places, Running, Forget
  <1>5. RowsInv'
    BY <1>1, <1>2, <1>3 DEF TypeOK, TableTypeOK, RowsInv, Present, ItemsIn
  <1>6. HoldersInv'
    BY <1>1, <1>2, <1>3 DEF TypeOK, TableTypeOK, HoldersInv, Holding, Present, ItemsIn, Forget
  <1>7. UntriedInv'
    BY <1>1, <1>2, <1>3 DEF TypeOK, TableTypeOK, UntriedInv, Present
  <1>8. ClockInv'
    BY <1>1 DEF TypeOK, ClockInv, Booting, Forget
  <1> QED
    BY <1>4, <1>5, <1>6, <1>7, <1>8

(* Every step of the pipeline preserves the invariant. *)
LEMMA NextInv ==
  ASSUME PipelineInv, [Next]_vars
  PROVE  PipelineInv'
  <1>1. ASSUME NEW r \in Requests, NEW p \in Payloads, Submit(r, p)
        PROVE  PipelineInv'
    BY <1>1, SubmitInv
  <1>2. CASE Tick
    BY <1>2, TickInv
  <1>3. ASSUME NEW w \in Workers,
               \/ KeepAlive(w) \/ Launch(w) \/ Crash(w) \/ Signal(w)
               \/ StopFollowing(w) \/ FinishDrain(w) \/ StatementRaises(w)
        PROVE  PipelineInv'
    <2>1. stopping \in [Workers -> BOOLEAN]
      BY DEF PipelineInv, TypeOK
    <2>2. CASE KeepAlive(w) \/ Launch(w)
      <3>1. Start(w)
        BY <2>2 DEF KeepAlive, Launch
      <3> QED
        BY <3>1, StartInv
    <2>3. CASE Signal(w)
      <3>1. /\ stopping' = [stopping EXCEPT ![w] = TRUE]
            /\ UNCHANGED <<table, now, memory, pc, cur, step, seen, clock>>
        BY <2>3 DEF Signal
      <3>2. "poll" \in Places \ Holding
        BY DEF Places, Running, Holding
      <3> QED
        BY <2>1, <3>1, <3>2, LifeInv
    <2>4. CASE Crash(w) \/ StopFollowing(w) \/ FinishDrain(w) \/ StatementRaises(w)
      <3>1. PICK place \in {"down", "exited", "poll"} :
              /\ pc' = [pc EXCEPT ![w] = place]
              /\ Forget(w)
              /\ UNCHANGED <<table, now, memory, stopping>>
        BY <2>4 DEF Crash, StopFollowing, FinishDrain, StatementRaises, End, Goto
      <3>2. place \in Places \ Holding /\ place \notin Booting /\ stopping' \in [Workers -> BOOLEAN]
        BY <2>1, <3>1 DEF Places, Running, Booting, Holding
      <3> QED
        BY <3>1, <3>2, LifeInv
    <2> QED
      BY <1>3, <2>2, <2>3, <2>4
  <1>4. ASSUME NEW w \in Workers, Recover(w)
        PROVE  PipelineInv'
    BY <1>4, RecoverInv
  <1>5. ASSUME NEW w \in Workers, NEW r \in Requests, ClaimNext(w, r)
        PROVE  PipelineInv'
    BY <1>5, ClaimNextInv
  <1>6. ASSUME NEW w \in Workers, ProcessOne(w)
        PROVE  PipelineInv'
    BY <1>6, StoreItemInv, IngestReturnsInv, FailReadInv, AckInv, FailWriteInv DEF ProcessOne
  <1>7. CASE UNCHANGED vars
    <2>1. /\ UNCHANGED <<status, attempts, nextAttempt, createdAt, payload, now, memory>>
          /\ UNCHANGED <<pc, cur, step, seen, clock, stopping>>
      BY <1>7 DEF vars, table, workerVars
    <2> QED
      BY <2>1 DEF PipelineInv, TypeOK, TableTypeOK, RowsInv, HoldersInv, UntriedInv,
                  ClockInv, Present, ItemsIn
  <1> QED
    BY <1>1, <1>2, <1>3, <1>4, <1>5, <1>6, <1>7 DEF Next

-----------------------------------------------------------------------------

(* Whatever the clients send and however the workers crash, are restarted   *)
(* and get in each other's way, the table and the workers stay in a state   *)
(* that satisfies the inductive invariant.                                  *)
THEOREM Safety == Spec => []PipelineInv
  <1>1. Init => PipelineInv
    BY InitInv
  <1>2. PipelineInv /\ [Next]_vars => PipelineInv'
    BY NextInv
  <1> QED
    BY <1>1, <1>2, PTL DEF Spec

(* Every column and every local of a worker keeps its type: a row is in one *)
(* of the four statuses of queue.py, lines 46-49, or absent.                *)
THEOREM TypeCorrect == Spec => []TypeOK
  <1>1. PipelineInv => TypeOK
    BY DEF PipelineInv
  <1> QED
    BY <1>1, Safety, PTL

(* "done" means stored: with any number of workers on one row, a row that   *)
(* ack() marked done has all its items in memory.                           *)
THEOREM DoneIsStored == Spec => []DoneImpliesStored
  <1>1. PipelineInv => DoneImpliesStored
    BY DEF PipelineInv, RowsInv, DoneImpliesStored
  <1> QED
    BY <1>1, Safety, PTL

(* No event is dead-lettered before its retry budget is used up, although   *)
(* fail() decides on an attempts value that may be stale when it writes.    *)
THEOREM DeadIsExhausted == Spec => []DeadOnlyAfterMaxAttempts
  <1>1. PipelineInv => DeadOnlyAfterMaxAttempts
    BY DEF PipelineInv, RowsInv, DeadOnlyAfterMaxAttempts
  <1> QED
    BY <1>1, Safety, PTL

-----------------------------------------------------------------------------
(* One consumer: the deployed configuration, and the other two kinds alone *)

OneConsumer == \A v, w \in Workers : v = w

(* What is only true with one: a worker inside process_one() finds its row   *)
(* as claim() left it, so what fail() has read is still so; and between the  *)
(* two statements of boot recovery no exhausted row comes up.               *)
OneConsumerInv ==
  /\ RetryBudget
  /\ \A w \in Workers :
       /\ pc[w] \in Holding => status[cur[w]] = "processing"
       /\ pc[w] = "failWrite" => seen[w] = attempts[cur[w]]
       /\ pc[w] \in {"requeue", "requeue2"} => \A r \in Requests : ~Exhausted(r)

(* What the steps that leave the table alone may do to a worker. *)
LEMMA LifeOneConsumerInv ==
  ASSUME PipelineInv, OneConsumerInv, UNCHANGED table, NEW w \in Workers,
         NEW place \in Places \ (Holding \cup {"requeue", "requeue2"}),
         \/ UNCHANGED <<pc, cur, seen>>
         \/ pc' = [pc EXCEPT ![w] = place] /\ (Forget(w) \/ UNCHANGED <<cur, seen>>)
  PROVE  OneConsumerInv'
  <1>1. RetryBudget' /\ \A r \in Requests : Exhausted(r)' = Exhausted(r)
    BY DEF OneConsumerInv, RetryBudget, Exhausted, table
  <1>2. ASSUME NEW v \in Workers
        PROVE  /\ pc'[v] \in Holding => status[cur'[v]] = "processing"
               /\ pc'[v] = "failWrite" => seen'[v] = attempts[cur'[v]]
               /\ pc'[v] \in {"requeue", "requeue2"} => pc[v] \in {"requeue", "requeue2"}
    <2>1. CASE UNCHANGED <<pc, cur, seen>>
      BY <2>1 DEF OneConsumerInv
    <2>2. CASE pc' = [pc EXCEPT ![w] = place] /\ (Forget(w) \/ UNCHANGED <<cur, seen>>)
      <3>1. CASE v = w
        BY <2>2, <3>1 DEF PipelineInv, TypeOK, Holding
      <3>2. CASE v # w
        BY <2>2, <3>2 DEF PipelineInv, TypeOK, OneConsumerInv, Forget
      <3>. QED
        BY <3>1, <3>2
    <2>. QED
      BY <2>1, <2>2
  <1>. QED
    BY <1>1, <1>2 DEF OneConsumerInv, table

(* An accepted event has its whole budget. *)
LEMMA SubmitOneConsumerInv ==
  ASSUME PipelineInv, OneConsumerInv, NEW r \in Requests, NEW p \in Payloads, Submit(r, p)
  PROVE  OneConsumerInv'
  <1>1. /\ status[r] = "absent" /\ status' = [status EXCEPT ![r] = "queued"]
        /\ UNCHANGED <<attempts, pc, cur, seen>>
    BY DEF Submit, Insert, Present, workerVars
  <1>2. attempts[r] = 0 /\ status \in [Requests -> Statuses]
    BY <1>1 DEF PipelineInv, TypeOK, TableTypeOK, UntriedInv, Present
  <1>3. \A q \in Requests : q # r => status'[q] = status[q]
    BY <1>1, <1>2
  <1>4. status'[r] = "queued"
    BY <1>1, <1>2
  <1>5. RetryBudget'
    BY <1>1, <1>2, <1>3, <1>4, MaxAttemptsAssumption DEF OneConsumerInv, RetryBudget
  <1>6. \A q \in Requests : status[q] = "processing" => status'[q] = "processing"
    BY <1>1, <1>3
  <1>7. \A q \in Requests : Exhausted(q)' => Exhausted(q)
    BY <1>1, <1>3, <1>4 DEF Exhausted
  <1>8. \A w \in Workers : pc[w] \in Holding => cur[w] \in Requests
    BY DEF PipelineInv, HoldersInv
  <1>. QED
    BY <1>1, <1>5, <1>6, <1>7, <1>8 DEF OneConsumerInv

(* The first sweep buries the exhausted rows, so the second finds none. *)
LEMMA RecoverOneConsumerInv ==
  ASSUME PipelineInv, OneConsumer, OneConsumerInv, NEW w \in Workers, Recover(w)
  PROVE  OneConsumerInv'
  <1>1. /\ pc[w] \in Booting /\ UNCHANGED <<attempts, cur, seen>>
        /\ pc \in [Workers -> Places]
    BY DEF Recover, Bury, Requeue, BuryExhausted, RequeueProcessing, PipelineInv, TypeOK, Booting
  <1>2. \A v \in Workers : v = w
    BY DEF OneConsumer
  <1>3. CASE Bury(w)
    <2>1. /\ status' = [r \in Requests |-> IF Exhausted(r) THEN "dead" ELSE status[r]]
          /\ pc'[w] \in {"requeue", "requeue2"}
      BY <1>1, <1>3 DEF Bury, BuryExhausted, Goto
    <2>2. RetryBudget'
      BY <1>1, <2>1 DEF OneConsumerInv, RetryBudget
    <2>3. \A r \in Requests : ~Exhausted(r)'
      BY <1>1, <2>1 DEF Exhausted
    <2>. QED
      BY <1>2, <2>1, <2>2, <2>3 DEF OneConsumerInv, Holding
  <1>4. CASE Requeue(w)
    <2>1. /\ status' = [r \in Requests |-> IF status[r] = "processing" THEN "queued" ELSE status[r]]
          /\ pc[w] \in {"requeue", "requeue2"} /\ pc'[w] \in {"bury2", "poll"}
      BY <1>1, <1>4 DEF Requeue, RequeueProcessing, Goto
    <2>2. \A r \in Requests : attempts[r] \in Nat /\ ~Exhausted(r)
      BY <2>1 DEF OneConsumerInv, PipelineInv, TypeOK, TableTypeOK
    <2>3. RetryBudget'
      BY <1>1, <2>1, <2>2, MaxAttemptsAssumption DEF OneConsumerInv, RetryBudget, Exhausted
    <2>. QED
      BY <1>2, <2>1, <2>3 DEF OneConsumerInv, Holding
  <1>. QED
    BY <1>3, <1>4 DEF Recover

LEMMA ClaimOneConsumerInv ==
  ASSUME PipelineInv, OneConsumer, OneConsumerInv, NEW w \in Workers, NEW r \in Requests, ClaimNext(w, r)
  PROVE  OneConsumerInv'
  <1>1. /\ status[r] = "queued" /\ status' = [status EXCEPT ![r] = "processing"]
        /\ attempts' = [attempts EXCEPT ![r] = @ + 1]
        /\ pc' = [pc EXCEPT ![w] = "ingest"] /\ cur' = [cur EXCEPT ![w] = r]
    BY DEF ClaimNext, Claim, Due, Goto
  <1>2. /\ \A v \in Workers : v = w
        /\ status' \in [Requests -> Statuses] /\ attempts \in [Requests -> Nat]
        /\ status \in [Requests -> Statuses]
        /\ pc \in [Workers -> Places] /\ cur \in [Workers -> Requests \cup {NoRequest}]
    BY ClaimNextInv DEF OneConsumer, PipelineInv, TypeOK, TableTypeOK
  <1>3. RetryBudget'
    BY <1>1, <1>2, MaxAttemptsAssumption DEF OneConsumerInv, RetryBudget
  <1>4. status'[r] = "processing" /\ cur'[w] = r /\ pc'[w] = "ingest"
    BY <1>1, <1>2
  <1>. QED
    BY <1>2, <1>3, <1>4 DEF OneConsumerInv

(* process_one(): the row is settled by the attempt that claimed it. *)
LEMMA ProcessOneConsumerInv ==
  ASSUME PipelineInv, OneConsumer, OneConsumerInv, NEW w \in Workers, ProcessOne(w)
  PROVE  OneConsumerInv'
  <1>1. /\ \A v \in Workers : v = w
        /\ status \in [Requests -> Statuses] /\ attempts \in [Requests -> Nat]
        /\ pc \in [Workers -> Places] /\ seen \in [Workers -> Nat]
    BY DEF OneConsumer, PipelineInv, TypeOK, TableTypeOK
  <1>2. /\ pc[w] \in Holding /\ cur[w] \in Requests /\ status[cur[w]] = "processing"
        /\ UNCHANGED attempts
    BY DEF ProcessOne, StoreItem, IngestReturns, IngestRaises, Ack, FailRead, FailWrite, SetDone, SetFailed,
           Holding, OneConsumerInv, PipelineInv, HoldersInv, table
  <1>3. ASSUME UNCHANGED <<table, cur>>,
               pc'[w] \in Holding, pc'[w] = "failWrite" => seen'[w] = attempts[cur[w]]
        PROVE  OneConsumerInv'
    <2>1. RetryBudget'
      BY <1>3 DEF OneConsumerInv, RetryBudget, table
    <2>2. status' = status /\ cur' = cur /\ pc'[w] \notin {"requeue", "requeue2"}
      BY <1>3 DEF table, Holding
    <2>. QED
      BY <1>1, <1>2, <1>3, <2>1, <2>2 DEF OneConsumerInv
  <1>4. CASE StoreItem(w)
    BY <1>2, <1>3, <1>4 DEF StoreItem
  <1>5. CASE IngestReturns(w) \/ IngestRaises(w)
    BY <1>1, <1>3, <1>5 DEF IngestReturns, IngestRaises, Goto, Holding
  <1>6. CASE FailRead(w)
    BY <1>1, <1>3, <1>6 DEF FailRead, Goto, Holding
  <1>7. ASSUME NEW new \in {"done", "dead", "queued"}, status' = [status EXCEPT ![cur[w]] = new],
               new = "queued" => attempts[cur[w]] < MaxAttempts, pc' = [pc EXCEPT ![w] = "poll"]
        PROVE  OneConsumerInv'
    <2>1. RetryBudget'
      BY <1>1, <1>2, <1>7 DEF OneConsumerInv, RetryBudget
    <2>2. pc'[w] = "poll"
      BY <1>1, <1>7
    <2>. QED
      BY <1>1, <2>1, <2>2 DEF OneConsumerInv, Holding
  <1>8. CASE Ack(w)
    BY <1>7, <1>8 DEF Ack, SetDone, Release, Goto
  <1>9. CASE FailWrite(w)
    <2>1. seen[w] = attempts[cur[w]] /\ seen[w] \in Nat
      BY <1>1, <1>9 DEF FailWrite, OneConsumerInv
    <2>2. CASE seen[w] >= MaxAttempts
      BY <1>7, <1>9, <2>2 DEF FailWrite, SetFailed, Release, Goto
    <2>3. CASE seen[w] < MaxAttempts
      BY <1>7, <1>9, <2>1, <2>3, MaxAttemptsAssumption DEF FailWrite, SetFailed, Release, Goto
    <2>. QED
      BY <2>1, <2>2, <2>3, MaxAttemptsAssumption
  <1>. QED
    BY <1>4, <1>5, <1>6, <1>8, <1>9 DEF ProcessOne

LEMMA NextOneConsumerInv ==
  ASSUME PipelineInv, OneConsumer, OneConsumerInv, [Next]_vars
  PROVE  OneConsumerInv'
  <1>. DEFINE Calm == Places \ (Holding \cup {"requeue", "requeue2"})
  <1>0. {"down", "exited", "poll", "bury"} \subseteq Calm
    BY DEF Places, Running, Booting, Holding
  <1>. HIDE DEF Calm
  <1>1. ASSUME NEW r \in Requests, NEW p \in Payloads, Submit(r, p)
        PROVE  OneConsumerInv'
    BY <1>1, SubmitOneConsumerInv
  <1>2. CASE Tick \/ UNCHANGED vars
    <2>1. UNCHANGED <<table, pc, cur, seen>>
      BY <1>2 DEF Tick, vars, workerVars
    <2>. QED
      BY <2>1 DEF OneConsumerInv, RetryBudget, Exhausted, table
  <1>3. ASSUME NEW w \in Workers,
               \/ KeepAlive(w) \/ Launch(w) \/ Crash(w) \/ Signal(w)
               \/ StopFollowing(w) \/ FinishDrain(w) \/ StatementRaises(w)
        PROVE  OneConsumerInv'
    <2>1. /\ UNCHANGED table
          /\ \/ UNCHANGED <<pc, cur, seen>>
             \/ \E place \in {"down", "exited", "poll", "bury"} :
                  pc' = [pc EXCEPT ![w] = place] /\ (Forget(w) \/ UNCHANGED <<cur, seen>>)
      BY <1>3 DEF KeepAlive, Launch, Start, Crash, Signal, StopFollowing, FinishDrain,
                  StatementRaises, End, Goto
    <2>2. CASE UNCHANGED <<pc, cur, seen>>
      BY <1>0, <2>1, <2>2, LifeOneConsumerInv DEF Calm
    <2>3. ASSUME NEW place \in Calm,
                 pc' = [pc EXCEPT ![w] = place] /\ (Forget(w) \/ UNCHANGED <<cur, seen>>)
          PROVE  OneConsumerInv'
      BY <2>1, <2>3, LifeOneConsumerInv DEF Calm
    <2>. QED
      BY <1>0, <2>1, <2>2, <2>3
  <1>4. ASSUME NEW w \in Workers, Recover(w)
        PROVE  OneConsumerInv'
    BY <1>4, RecoverOneConsumerInv
  <1>5. ASSUME NEW w \in Workers, NEW r \in Requests, ClaimNext(w, r)
        PROVE  OneConsumerInv'
    BY <1>5, ClaimOneConsumerInv
  <1>6. ASSUME NEW w \in Workers, ProcessOne(w)
        PROVE  OneConsumerInv'
    BY <1>6, ProcessOneConsumerInv
  <1>. QED
    BY <1>1, <1>2, <1>3, <1>4, <1>5, <1>6 DEF Next

LEMMA InitOneConsumerInv == Init => OneConsumerInv
  BY MaxAttemptsAssumption
     DEF Init, TableInit, OneConsumerInv, RetryBudget, Holding, Exhausted

(* With one consumer of whatever kind, its crashes, raising statements and    *)
(* restarts included, its locals never go stale.                            *)
THEOREM OneConsumerSafety ==
  ASSUME OneConsumer
  PROVE  Spec => [](PipelineInv /\ OneConsumerInv)
  <1>1. Init => PipelineInv /\ OneConsumerInv
    BY InitInv, InitOneConsumerInv
  <1>2. PipelineInv /\ OneConsumerInv /\ [Next]_vars => (PipelineInv /\ OneConsumerInv)'
    BY NextInv, NextOneConsumerInv
  <1>. QED
    BY <1>1, <1>2, PTL DEF Spec

(* max_attempts is a ceiling on the claims of an event, crashes included      *)
(* (claim() counts before the work, reset_stale_processing() buries).        *)
THEOREM RetryBudgetHolds ==
  ASSUME OneConsumer
  PROVE  Spec => []RetryBudget
  <1>1. OneConsumerInv => RetryBudget
    BY DEF OneConsumerInv
  <1>. QED
    BY <1>1, OneConsumerSafety, PTL

(* What a step may do to a row. *)
LEMMA OneConsumerRows ==
  ASSUME PipelineInv, OneConsumer, OneConsumerInv, [Next]_vars, NEW r \in Requests
  PROVE  \/ status'[r] = status[r]
         \/ status[r] = "absent" /\ status'[r] = "queued"
         \/ status[r] = "queued" /\ status'[r] = "processing"
         \/ status[r] = "processing" /\ status'[r] \in {"queued", "done", "dead"}
  <1>. DEFINE Allowed == \/ status'[r] = status[r]
                         \/ status[r] = "absent" /\ status'[r] = "queued"
                         \/ status[r] = "queued" /\ status'[r] = "processing"
                         \/ status[r] = "processing" /\ status'[r] \in {"queued", "done", "dead"}
  <1>1. status \in [Requests -> Statuses]
    BY DEF PipelineInv, TypeOK, TableTypeOK
  <1>2. ASSUME NEW q \in Requests, NEW p \in Payloads, Submit(q, p)
        PROVE  Allowed
    BY <1>1, <1>2 DEF Submit, Insert, Present
  <1>3. ASSUME UNCHANGED table
        PROVE  Allowed
    BY <1>3 DEF table
  <1>4. CASE Tick \/ UNCHANGED vars
    BY <1>3, <1>4 DEF Tick, vars
  <1>5. ASSUME NEW w \in Workers,
               \/ KeepAlive(w) \/ Launch(w) \/ Crash(w) \/ Signal(w)
               \/ StopFollowing(w) \/ FinishDrain(w) \/ StatementRaises(w)
        PROVE  Allowed
    BY <1>3, <1>5 DEF KeepAlive, Launch, Start, Crash, Signal, StopFollowing, FinishDrain,
                      StatementRaises, End
  <1>6. ASSUME NEW w \in Workers, Recover(w)
        PROVE  Allowed
    BY <1>6 DEF Recover, Bury, Requeue, BuryExhausted, RequeueProcessing, Exhausted
  <1>7. ASSUME NEW w \in Workers, NEW q \in Requests, ClaimNext(w, q)
        PROVE  Allowed
    BY <1>1, <1>7 DEF ClaimNext, Claim, Due
  <1>8. ASSUME NEW w \in Workers, ProcessOne(w)
        PROVE  Allowed
    <2>1. pc[w] \in Holding => cur[w] \in Requests /\ status[cur[w]] = "processing"
      BY DEF OneConsumerInv, PipelineInv, HoldersInv
    <2>2. CASE StoreItem(w) \/ IngestReturns(w) \/ IngestRaises(w) \/ FailRead(w)
      BY <1>3, <2>2 DEF StoreItem, IngestReturns, IngestRaises, FailRead
    <2>3. CASE Ack(w)
      BY <1>1, <2>1, <2>3 DEF Ack, SetDone, Holding
    <2>4. CASE FailWrite(w)
      BY <1>1, <2>1, <2>4 DEF FailWrite, SetFailed, Holding
    <2>. QED
      BY <1>8, <2>2, <2>3, <2>4 DEF ProcessOne
  <1>. QED
    BY <1>2, <1>4, <1>5, <1>6, <1>7, <1>8 DEF Next

(* done and dead are for good: ack() and fail(), which ask neither for the    *)
(* status nor for the holder, only ever meet a row that is being processed.  *)
THEOREM TerminalStaysFinal ==
  ASSUME OneConsumer
  PROVE  Spec => TerminalIsFinal
  <1>1. PipelineInv /\ OneConsumerInv /\ [Next]_vars
          => [\A r \in Requests : status[r] \in TerminalStatuses => status'[r] = status[r]]_vars
    BY OneConsumerRows DEF TerminalStatuses
  <1>. QED
    BY <1>1, OneConsumerSafety, PTL DEF Spec, TerminalIsFinal

-----------------------------------------------------------------------------
(* One consumer claims by age *)

(* No queued row is due before it was created.  What boot recovery and      *)
(* fail() will write is not older than the rows they will write it to:      *)
(* between the reading of the clock and the statement nobody else claims.   *)
OrderInv ==
  /\ \A r \in Requests : status[r] = "queued" => createdAt[r] <= nextAttempt[r]
  /\ \A w \in Workers :
       /\ pc[w] \in Booting =>
            \A r \in Requests : status[r] = "processing" => createdAt[r] <= clock[w]
       /\ pc[w] = "failWrite" => createdAt[cur[w]] <= clock[w]

(* The statements of boot recovery and of fail() write times that are late   *)
(* enough.                                                                   *)
LEMMA RecoverOrder ==
  ASSUME PipelineInv, OneConsumer, OrderInv, NEW w \in Workers, Recover(w)
  PROVE  OrderInv'
  <1>1. /\ \A v \in Workers : v = w
        /\ pc[w] \in Booting /\ clock[w] \in Nat /\ now \in Nat /\ UNCHANGED createdAt
        /\ createdAt \in [Requests -> Nat] /\ nextAttempt \in [Requests -> Nat]
        /\ pc \in [Workers -> Places] /\ clock \in [Workers -> Nat]
    BY DEF OneConsumer, PipelineInv, TypeOK, TableTypeOK, Recover, Bury, Requeue, BuryExhausted,
           RequeueProcessing, Booting
  <1>2. CASE Bury(w)
    <2>1. PICK at \in clock[w]..now : clock' = [clock EXCEPT ![w] = at]
      BY <1>2 DEF Bury
    <2>2. clock'[w] >= clock[w] /\ clock'[w] \in Nat /\ pc'[w] # "failWrite"
      BY <1>1, <1>2, <2>1 DEF Bury, Goto
    <2>3. \A r \in Requests : \/ status'[r] = status[r] /\ nextAttempt'[r] = nextAttempt[r]
                              \/ status'[r] = "dead"
      BY <1>2 DEF Bury, BuryExhausted
    <2>. QED
      BY <1>1, <2>2, <2>3 DEF OrderInv
  <1>3. CASE Requeue(w)
    <2>1. \A r \in Requests : \/ /\ status[r] # "processing" /\ status'[r] = status[r]
                                 /\ nextAttempt'[r] = nextAttempt[r]
                              \/ /\ status[r] = "processing" /\ status'[r] = "queued"
                                 /\ nextAttempt'[r] = clock[w]
      BY <1>3 DEF Requeue, RequeueProcessing
    <2>2. pc'[w] # "failWrite"
      BY <1>1, <1>3 DEF Requeue, Goto
    <2>. QED
      BY <1>1, <2>1, <2>2 DEF OrderInv
  <1>. QED
    BY <1>2, <1>3 DEF Recover

LEMMA FailWriteOrder ==
  ASSUME PipelineInv, OneConsumer, OrderInv, NEW w \in Workers, FailWrite(w)
  PROVE  OrderInv'
  <1>. DEFINE r == cur[w]
  <1>1. /\ \A v \in Workers : v = w
        /\ pc[w] = "failWrite" /\ pc'[w] = "poll" /\ UNCHANGED createdAt
        /\ r \in Requests /\ clock[w] \in Nat /\ now \in Nat /\ createdAt[r] \in Nat
        /\ createdAt[r] <= clock[w]
        /\ status \in [Requests -> Statuses] /\ nextAttempt \in [Requests -> Nat]
    BY DEF OneConsumer, PipelineInv, TypeOK, TableTypeOK, HoldersInv, Holding, OrderInv, FailWrite,
           SetFailed, Release, Goto
  <1>2. PICK at \in clock[w]..now : SetFailed(r, seen[w], at)
    BY DEF FailWrite
  <1>3. \A q \in Requests \ {r} : status'[q] = status[q] /\ nextAttempt'[q] = nextAttempt[q]
    BY <1>1, <1>2 DEF SetFailed
  <1>4. status'[r] = "queued" => createdAt[r] <= nextAttempt'[r]
    <2>1. CASE seen[w] >= MaxAttempts
      BY <1>1, <1>2, <2>1 DEF SetFailed
    <2>2. CASE ~(seen[w] >= MaxAttempts)
      <3>1. seen[w] \in 1..(MaxAttempts - 1)
        BY <1>1, <2>2, MaxAttemptsAssumption DEF PipelineInv, TypeOK, TableTypeOK, HoldersInv, Holding
      <3>2. Backoff[seen[w]] \in Nat
        BY <3>1, BackoffAssumption
      <3>3. nextAttempt'[r] = at + Backoff[seen[w]]
        BY <1>1, <1>2, <2>2 DEF SetFailed
      <3>. QED
        BY <1>1, <3>2, <3>3
    <2>. QED
      BY <2>1, <2>2
  <1>5. pc'[w] \notin Booting \cup {"failWrite"}
    BY <1>1 DEF Booting
  <1>. QED
    BY <1>1, <1>3, <1>4, <1>5 DEF OrderInv

LEMMA OrderStep ==
  ASSUME PipelineInv, OneConsumer, OneConsumerInv, OrderInv, [Next]_vars
  PROVE  OrderInv'
  <1>1. /\ status \in [Requests -> Statuses] /\ pc \in [Workers -> Places]
        /\ clock \in [Workers -> Nat] /\ now \in Nat
        /\ createdAt \in [Requests -> Nat] /\ nextAttempt \in [Requests -> Nat]
        /\ \A r \in Requests : createdAt[r] <= now
        /\ \A v, w \in Workers : v = w
        /\ \A w \in Workers : pc[w] \in Holding => cur[w] \in Requests /\ Present(cur[w])
    BY DEF PipelineInv, TypeOK, TableTypeOK, UntriedInv, HoldersInv, OneConsumer
  <1>2. ASSUME NEW r \in Requests, NEW p \in Payloads, Submit(r, p)
        PROVE  OrderInv'
    <2>1. PICK at \in 1..now : Insert(r, p, at)
      BY <1>2 DEF Submit
    <2>2. /\ ~Present(r) /\ at \in Nat
          /\ status'[r] = "queued" /\ nextAttempt'[r] = at /\ createdAt'[r] = at
          /\ \A q \in Requests \ {r} : /\ status'[q] = status[q]
                                        /\ nextAttempt'[q] = nextAttempt[q]
                                        /\ createdAt'[q] = createdAt[q]
      BY <1>1, <2>1 DEF Insert
    <2>3. UNCHANGED <<pc, cur, clock>>
      BY <1>2 DEF Submit, workerVars
    <2>. QED
      BY <1>1, <2>2, <2>3 DEF OrderInv, Holding
  <1>3. CASE Tick \/ UNCHANGED vars
    BY <1>3 DEF Tick, vars, table, workerVars, OrderInv
  <1>4. ASSUME NEW w \in Workers, UNCHANGED table,
               \/ UNCHANGED <<pc, cur, clock>>
               \/ pc'[w] \notin Booting \cup {"failWrite"}
               \/ clock'[w] = now /\ (pc'[w] = "failWrite" => cur'[w] \in Requests)
        PROVE  OrderInv'
    BY <1>1, <1>4 DEF OrderInv, table
  <1>5. ASSUME NEW w \in Workers, KeepAlive(w) \/ Launch(w)
        PROVE  OrderInv'
    <2>1. CASE w \in Inline
      <3>1. UNCHANGED table /\ pc'[w] = "poll"
        BY <1>1, <1>5, <2>1 DEF KeepAlive, Launch, Start, Goto
      <3>. QED
        BY <1>4, <3>1 DEF Booting
    <2>2. CASE w \notin Inline
      <3>1. UNCHANGED table /\ pc'[w] = "bury" /\ clock'[w] = now
        BY <1>1, <1>5, <2>2 DEF KeepAlive, Launch, Start, Goto
      <3>. QED
        BY <1>4, <3>1
    <2>. QED
      BY <2>1, <2>2
  <1>6. ASSUME NEW w \in Workers, Signal(w)
        PROVE  OrderInv'
    BY <1>4, <1>6 DEF Signal
  <1>7. ASSUME NEW w \in Workers,
               Crash(w) \/ StopFollowing(w) \/ FinishDrain(w) \/ StatementRaises(w)
        PROVE  OrderInv'
    <2>1. UNCHANGED table /\ pc'[w] \in {"down", "exited", "poll"}
      BY <1>1, <1>7 DEF Crash, StopFollowing, FinishDrain, StatementRaises, End, Goto
    <2>. QED
      BY <1>4, <2>1 DEF Booting
  <1>8. ASSUME NEW w \in Workers, NEW r \in Requests, ClaimNext(w, r)
        PROVE  OrderInv'
    <2>1. /\ pc'[w] = "ingest" /\ UNCHANGED <<nextAttempt, createdAt>>
          /\ \A q \in Requests : status'[q] = "queued" => status[q] = "queued"
      BY <1>1, <1>8 DEF ClaimNext, Claim, Goto
    <2>. QED
      BY <1>1, <2>1 DEF OrderInv, Booting
  <1>9. ASSUME NEW w \in Workers, StoreItem(w) \/ IngestReturns(w) \/ IngestRaises(w)
        PROVE  OrderInv'
    <2>1. UNCHANGED table /\ pc'[w] \notin Booting \cup {"failWrite"}
      BY <1>1, <1>9 DEF StoreItem, IngestReturns, IngestRaises, Goto, Booting
    <2>. QED
      BY <1>4, <2>1
  <1>10. ASSUME NEW w \in Workers, FailRead(w)
         PROVE  OrderInv'
    <2>1. UNCHANGED table /\ clock'[w] = now /\ cur'[w] \in Requests
      BY <1>1, <1>10 DEF FailRead, Holding
    <2>. QED
      BY <1>4, <2>1
  <1>11. ASSUME NEW w \in Workers, Ack(w)
         PROVE  OrderInv'
    <2>1. /\ pc'[w] = "poll" /\ UNCHANGED createdAt /\ cur[w] \in Requests
          /\ status'[cur[w]] = "done"
          /\ \A q \in Requests \ {cur[w]} : status'[q] = status[q] /\ nextAttempt'[q] = nextAttempt[q]
      BY <1>1, <1>11 DEF Ack, SetDone, Release, Goto, Holding
    <2>. QED
      BY <1>1, <2>1 DEF OrderInv, Booting
  <1>. QED
    BY <1>2, <1>3, <1>5, <1>6, <1>7, <1>8, <1>9, <1>10, <1>11, RecoverOrder, FailWriteOrder
       DEF Next, ProcessOne

(* Only a claim takes a row from queued to processing, and it takes the row  *)
(* that sorts first; a row that was never tried sorts by its age.           *)
LEMMA ClaimsByAge ==
  ASSUME PipelineInv, OneConsumer, OneConsumerInv, OrderInv, [Next]_vars,
         NEW q \in Requests, NEW r \in Requests,
         status[r] = "queued", status'[r] = "processing", Present(q), attempts[q] = 0
  PROVE  createdAt[r] <= createdAt[q]
  <1>1. /\ status \in [Requests -> Statuses] /\ createdAt \in [Requests -> Nat]
        /\ nextAttempt \in [Requests -> Nat] /\ now \in Nat
    BY DEF PipelineInv, TypeOK, TableTypeOK
  <1>2. /\ status[q] = "queued" /\ nextAttempt[q] = createdAt[q] /\ createdAt[q] <= now
        /\ createdAt[r] <= nextAttempt[r]
    BY DEF PipelineInv, UntriedInv, OrderInv
  <1>3. ASSUME Claim(r)
        PROVE  createdAt[r] <= createdAt[q]
    BY <1>1, <1>2, <1>3 DEF Claim, Due, ClaimedBefore
  <1>4. ASSUME NEW w \in Workers, NEW x \in Requests, ClaimNext(w, x)
        PROVE  Claim(r)
    BY <1>1, <1>4 DEF ClaimNext, Claim
  <1>5. ASSUME NEW x \in Requests, NEW p \in Payloads, Submit(x, p)
        PROVE  FALSE
    BY <1>1, <1>5 DEF Submit, Insert, Present
  <1>6. ASSUME UNCHANGED table
        PROVE  FALSE
    BY <1>6 DEF table
  <1>7. CASE Tick \/ UNCHANGED vars
    BY <1>6, <1>7 DEF Tick, vars
  <1>8. ASSUME NEW w \in Workers,
               \/ KeepAlive(w) \/ Launch(w) \/ Crash(w) \/ Signal(w)
               \/ StopFollowing(w) \/ FinishDrain(w) \/ StatementRaises(w)
        PROVE  FALSE
    BY <1>6, <1>8 DEF KeepAlive, Launch, Start, Crash, Signal, StopFollowing, FinishDrain,
                      StatementRaises, End
  <1>9. ASSUME NEW w \in Workers, Recover(w)
        PROVE  FALSE
    BY <1>9 DEF Recover, Bury, Requeue, BuryExhausted, RequeueProcessing, Exhausted
  <1>10. ASSUME NEW w \in Workers, ProcessOne(w)
         PROVE  FALSE
    <2>1. pc[w] \in Holding => cur[w] \in Requests /\ status[cur[w]] = "processing"
      BY DEF OneConsumerInv, PipelineInv, HoldersInv
    <2>2. CASE StoreItem(w) \/ IngestReturns(w) \/ IngestRaises(w) \/ FailRead(w)
      BY <1>6, <2>2 DEF StoreItem, IngestReturns, IngestRaises, FailRead
    <2>3. CASE Ack(w) \/ FailWrite(w)
      BY <1>1, <2>1, <2>3 DEF Ack, FailWrite, SetDone, SetFailed, Holding
    <2>. QED
      BY <1>10, <2>2, <2>3 DEF ProcessOne
  <1>. QED
    BY <1>3, <1>4, <1>5, <1>7, <1>8, <1>9, <1>10 DEF Next

(* claim() never lets a tried event overtake an older one that waits for its  *)
(* first attempt: not through the backoff of fail(), not through the boot    *)
(* recovery of reset_stale_processing(), and not by the waits for the lock   *)
(* between reading the clock and writing it.                                *)
THEOREM OlderUntriedFirst ==
  ASSUME OneConsumer
  PROVE  Spec => NoOvertaking
  <1>1. Init => OrderInv
    BY DEF Init, TableInit, OrderInv, Booting
  <1>2. PipelineInv /\ OneConsumerInv /\ OrderInv /\ [Next]_vars => OrderInv'
    BY OrderStep
  <1>3. PipelineInv /\ OneConsumerInv /\ OrderInv /\ [Next]_vars
          => [\A q, r \in Requests :
                /\ status[r] = "queued" /\ status'[r] = "processing"
                /\ Present(q) /\ attempts[q] = 0
                => createdAt[r] <= createdAt[q]]_vars
    BY ClaimsByAge
  <1>. QED
    BY <1>1, <1>2, <1>3, OneConsumerSafety, PTL DEF Spec, NoOvertaking

-----------------------------------------------------------------------------
(* The follower under launchd, whose statements do not raise *)

OneFollower == OneConsumer /\ Workers = Followers

LEMMA StrandedStep ==
  ASSUME PipelineInv, OneConsumerInv, OneFollower, ~StatementsMayFail, NothingStranded, [Next]_vars
  PROVE  NothingStranded'
  <1>1. /\ \A v, w \in Workers : v = w
        /\ Workers = Followers
        /\ pc \in [Workers -> Places] /\ cur \in [Workers -> Requests \cup {NoRequest}]
        /\ status \in [Requests -> Statuses]
    BY DEF OneFollower, OneConsumer, PipelineInv, TypeOK, TableTypeOK
  <1>2. ASSUME NEW r \in Requests, NEW p \in Payloads, Submit(r, p)
        PROVE  NothingStranded'
    BY <1>1, <1>2 DEF Submit, Insert, workerVars, NothingStranded
  <1>3. CASE Tick \/ UNCHANGED vars
    BY <1>3 DEF Tick, vars, table, workerVars, NothingStranded
  <1>4. ASSUME NEW w \in Workers, UNCHANGED table,
               \/ UNCHANGED <<pc, cur>>
               \/ pc'[w] \in {"down", "bury", "requeue"}
               \/ pc[w] \in Holding /\ pc'[w] \in Holding /\ UNCHANGED cur
               \/ pc[w] = "poll"
        PROVE  NothingStranded'
    BY <1>1, <1>4 DEF NothingStranded, table, Holding
  <1>5. ASSUME NEW w \in Workers,
               \/ KeepAlive(w) \/ Launch(w) \/ Crash(w) \/ Signal(w)
               \/ StopFollowing(w) \/ FinishDrain(w) \/ StatementRaises(w)
        PROVE  NothingStranded'
    <2>1. w \in Followers /\ w \notin Inline
      BY <1>1, KindsAssumption
    <2>2. CASE KeepAlive(w) \/ Launch(w)
      BY <1>1, <1>4, <2>1, <2>2 DEF KeepAlive, Launch, Start, Goto
    <2>3. CASE Crash(w)
      BY <1>1, <1>4, <2>1, <2>3 DEF Crash, End, Goto
    <2>4. CASE Signal(w)
      BY <1>4, <2>4 DEF Signal
    <2>5. CASE StopFollowing(w)
      BY <1>4, <2>5 DEF StopFollowing, End
    <2>. QED
      BY <1>5, <2>1, <2>2, <2>3, <2>4, <2>5 DEF FinishDrain, StatementRaises
  <1>6. ASSUME NEW w \in Workers, Bury(w)
        PROVE  NothingStranded'
    <2>1. /\ \A r \in Requests : status'[r] = "processing" => status[r] = "processing"
          /\ pc[w] = "bury" => pc'[w] = "requeue"
      BY <1>1, <1>6 DEF Bury, BuryExhausted, Goto
    <2>. QED
      BY <1>1, <1>6, <2>1 DEF Bury, NothingStranded, Holding
  <1>7. ASSUME NEW w \in Workers, Requeue(w)
        PROVE  NothingStranded'
    BY <1>7 DEF Requeue, RequeueProcessing, NothingStranded
  <1>8. ASSUME NEW w \in Workers, NEW r \in Requests, ClaimNext(w, r)
        PROVE  NothingStranded'
    <2>1. /\ pc[w] = "poll" /\ pc'[w] = "ingest" /\ cur'[w] = r
          /\ \A q \in Requests \ {r} : status'[q] = status[q]
      BY <1>1, <1>8 DEF ClaimNext, Claim, Goto
    <2>2. \A q \in Requests : status[q] # "processing"
      BY <1>1, <2>1 DEF NothingStranded, Holding
    <2>. QED
      BY <1>1, <2>1, <2>2 DEF NothingStranded, Holding
  <1>9. ASSUME NEW w \in Workers, ProcessOne(w)
        PROVE  NothingStranded'
    <2>1. CASE StoreItem(w)
      BY <1>1, <1>4, <2>1 DEF StoreItem
    <2>2. CASE IngestReturns(w) \/ IngestRaises(w) \/ FailRead(w)
      BY <1>1, <1>4, <2>2 DEF IngestReturns, IngestRaises, FailRead, Goto, Holding
    <2>3. CASE Ack(w) \/ FailWrite(w)
      <3>1. /\ pc[w] \in Holding /\ status'[cur[w]] # "processing"
            /\ \A q \in Requests \ {cur[w]} : status'[q] = status[q]
        BY <1>1, <2>3 DEF Ack, FailWrite, SetDone, SetFailed, Holding, PipelineInv, HoldersInv
      <3>2. \A q \in Requests \ {cur[w]} : status[q] # "processing"
        BY <1>1, <3>1 DEF NothingStranded, Holding
      <3>. QED
        BY <3>1, <3>2 DEF NothingStranded
    <2>. QED
      BY <1>9, <2>1, <2>2, <2>3 DEF ProcessOne
  <1>. QED
    BY <1>2, <1>3, <1>5, <1>6, <1>7, <1>8, <1>9 DEF Next, Recover

(* A row in "processing" is being worked on, or waits for the boot recovery   *)
(* of a follower that launchd starts; nothing else ever looks for it.  It is *)
(* false where ack() and fail() may raise: IngestStranded.cfg.              *)
THEOREM NoEventIsStranded ==
  ASSUME OneFollower, ~StatementsMayFail
  PROVE  Spec => []NothingStranded
  <1>1. Init => NothingStranded
    BY DEF Init, TableInit, NothingStranded
  <1>2. OneConsumer
    BY DEF OneFollower
  <1>3. PipelineInv /\ OneConsumerInv /\ NothingStranded /\ [Next]_vars => NothingStranded'
    BY StrandedStep
  <1>4. Spec => [](PipelineInv /\ OneConsumerInv)
    BY <1>2, OneConsumerSafety
  <1>. QED
    BY <1>1, <1>3, <1>4, PTL DEF Spec

-----------------------------------------------------------------------------
(* One consumer implements the contract *)

(* The contract sees of a step the settled and the pending rows, the accepted *)
(* contents and the memory.                                                 *)
PendingStays ==
  /\ payload' = payload /\ memory' = memory
  /\ \A r \in Requests : \/ status'[r] = status[r]
                         \/ status[r] \in LiveStatuses /\ status'[r] \in LiveStatuses

PendingDies ==
  /\ payload' = payload /\ memory' = memory
  /\ \A r \in Requests : \/ status'[r] = status[r]
                         \/ status[r] \in LiveStatuses /\ status'[r] = "dead"

LEMMA ContractStutters ==
  ASSUME PendingStays
  PROVE  UNCHANGED Contract!vars
  <1>1. Outcome' = Outcome
    BY DEF PendingStays, Outcome
  <1>. QED
    BY <1>1 DEF PendingStays, Contract!vars

LEMMA ContractGivesUp ==
  ASSUME PendingDies
  PROVE  Contract!Next
  <1>. USE DEF PendingDies
  <1>. DEFINE S == {r \in Requests : status[r] \in LiveStatuses /\ status'[r] = "dead"}
  <1>1. \A r \in S : Outcome[r] = "pending"
    BY DEF Outcome
  <1>2. Outcome' = [r \in Requests |-> IF r \in S THEN "dead" ELSE Outcome[r]]
    BY DEF Outcome, LiveStatuses
  <1>3. S \in SUBSET Requests
    OBVIOUS
  <1>. HIDE DEF S
  <1>4. Contract!GiveUp(S)
    BY <1>1, <1>2 DEF Contract!GiveUp
  <1>. QED
    BY <1>3, <1>4 DEF Contract!Next

LEMMA SubmitIsAccept ==
  ASSUME PipelineInv, NEW r \in Requests, NEW p \in Payloads, Submit(r, p)
  PROVE  Contract!Next
  <1>1. /\ status[r] = "absent" /\ status' = [status EXCEPT ![r] = "queued"]
        /\ payload' = [payload EXCEPT ![r] = p] /\ memory' = memory
        /\ status \in [Requests -> Statuses]
    BY DEF Submit, Insert, Present, PipelineInv, TypeOK, TableTypeOK
  <1>2. Outcome[r] = "absent"
    BY <1>1 DEF Outcome, LiveStatuses
  <1>3. Outcome' = [Outcome EXCEPT ![r] = "pending"]
    BY <1>1 DEF Outcome, LiveStatuses
  <1>4. Contract!Accept(r, p)
    BY <1>1, <1>2, <1>3 DEF Contract!Accept
  <1>. QED
    BY <1>4 DEF Contract!Next

(* An item is stored for an event that is pending, and is one of its own. *)
LEMMA StoreIsRemember ==
  ASSUME PipelineInv, OneConsumerInv, NEW w \in Workers, StoreItem(w)
  PROVE  Contract!Next
  <1>. DEFINE r == cur[w]
              k == step[w]
  <1>1. /\ pc[w] \in Holding /\ k <= Len(ItemsIn(r)) /\ UNCHANGED <<status, payload>>
        /\ memory' = memory \cup {Key(r, ItemsIn(r)[k])}
    BY DEF StoreItem, Holding, table
  <1>2. r \in Requests /\ status[r] = "processing" /\ k \in Nat /\ k > 0
    BY <1>1 DEF StoreItem, PipelineInv, HoldersInv, OneConsumerInv, TypeOK
  <1>3. Outcome[r] = "pending"
    BY <1>2 DEF Outcome, LiveStatuses
  <1>4. Len(ItemsIn(r)) \in Nat
    BY <1>2, ItemsOfRow DEF PipelineInv, Present
  <1>5. k \in 1..Len(ItemsIn(r))
    BY <1>1, <1>2, <1>4
  <1>6. Key(r, ItemsIn(r)[k]) \in Contract!Promised(r)
    BY <1>5 DEF Contract!Promised, ItemsIn
  <1>7. Contract!Remember(r)
    BY <1>1, <1>3, <1>6 DEF Contract!Remember, Outcome
  <1>. QED
    BY <1>2, <1>7 DEF Contract!Next

LEMMA AckIsComplete ==
  ASSUME PipelineInv, OneConsumerInv, NEW w \in Workers, Ack(w)
  PROVE  Contract!Next
  <1>. DEFINE r == cur[w]
  <1>1. /\ pc[w] = "ack" /\ status' = [status EXCEPT ![r] = "done"] /\ UNCHANGED <<payload, memory>>
        /\ status \in [Requests -> Statuses]
    BY DEF Ack, SetDone, PipelineInv, TypeOK, TableTypeOK
  <1>2. /\ r \in Requests /\ status[r] = "processing"
        /\ \A k \in 1..Len(ItemsIn(r)) : Key(r, ItemsIn(r)[k]) \in memory
    BY <1>1 DEF PipelineInv, HoldersInv, OneConsumerInv, Holding
  <1>3. Outcome[r] = "pending" /\ Outcome' = [Outcome EXCEPT ![r] = "done"]
    BY <1>1, <1>2 DEF Outcome, LiveStatuses
  <1>4. Contract!Promised(r) \subseteq memory
    BY <1>2 DEF Contract!Promised, ItemsIn
  <1>5. Contract!Complete(r)
    BY <1>1, <1>3, <1>4 DEF Contract!Complete
  <1>. QED
    BY <1>2, <1>5 DEF Contract!Next

LEMMA StepOfContract ==
  ASSUME PipelineInv, OneConsumer, OneConsumerInv, [Next]_vars
  PROVE  [Contract!Next]_(Contract!vars)
  <1>1. status \in [Requests -> Statuses]
    BY DEF PipelineInv, TypeOK, TableTypeOK
  <1>2. ASSUME UNCHANGED <<table, memory>>
        PROVE  UNCHANGED Contract!vars
    BY <1>2, ContractStutters DEF PendingStays, table
  <1>3. ASSUME NEW r \in Requests, NEW p \in Payloads, Submit(r, p)
        PROVE  Contract!Next
    BY <1>3, SubmitIsAccept
  <1>4. CASE Tick \/ UNCHANGED vars
    BY <1>2, <1>4 DEF Tick, vars
  <1>5. ASSUME NEW w \in Workers,
               \/ KeepAlive(w) \/ Launch(w) \/ Crash(w) \/ Signal(w)
               \/ StopFollowing(w) \/ FinishDrain(w) \/ StatementRaises(w)
        PROVE  UNCHANGED Contract!vars
    BY <1>2, <1>5 DEF KeepAlive, Launch, Start, Crash, Signal, StopFollowing, FinishDrain,
                      StatementRaises, End
  <1>6. ASSUME NEW w \in Workers, Bury(w)
        PROVE  Contract!Next
    <2>1. PendingDies
      BY <1>6 DEF PendingDies, Bury, BuryExhausted, Exhausted, LiveStatuses
    <2>. QED
      BY <2>1, ContractGivesUp
  <1>7. ASSUME NEW w \in Workers, Requeue(w)
        PROVE  UNCHANGED Contract!vars
    <2>1. PendingStays
      BY <1>7 DEF PendingStays, Requeue, RequeueProcessing, LiveStatuses
    <2>. QED
      BY <2>1, ContractStutters
  <1>8. ASSUME NEW w \in Workers, NEW r \in Requests, ClaimNext(w, r)
        PROVE  UNCHANGED Contract!vars
    <2>1. PendingStays
      BY <1>1, <1>8 DEF PendingStays, ClaimNext, Claim, Due, LiveStatuses
    <2>. QED
      BY <2>1, ContractStutters
  <1>9. ASSUME NEW w \in Workers, IngestReturns(w) \/ IngestRaises(w) \/ FailRead(w)
        PROVE  UNCHANGED Contract!vars
    BY <1>2, <1>9 DEF IngestReturns, IngestRaises, FailRead
  <1>10. ASSUME NEW w \in Workers, FailWrite(w)
         PROVE  Contract!Next \/ UNCHANGED Contract!vars
    <2>1. cur[w] \in Requests /\ status[cur[w]] = "processing" /\ UNCHANGED <<payload, memory>>
      BY <1>10 DEF FailWrite, SetFailed, Holding, OneConsumerInv, PipelineInv, HoldersInv
    <2>2. CASE seen[w] >= MaxAttempts
      <3>1. PendingDies
        BY <1>1, <1>10, <2>1, <2>2 DEF PendingDies, FailWrite, SetFailed, LiveStatuses
      <3>. QED
        BY <3>1, ContractGivesUp
    <2>3. CASE ~(seen[w] >= MaxAttempts)
      <3>1. PendingStays
        BY <1>1, <1>10, <2>1, <2>3 DEF PendingStays, FailWrite, SetFailed, LiveStatuses
      <3>. QED
        BY <3>1, ContractStutters
    <2>. QED
      BY <2>2, <2>3
  <1>. QED
    BY <1>3, <1>4, <1>5, <1>6, <1>7, <1>8, <1>9, <1>10, StoreIsRemember, AckIsComplete
       DEF Next, Recover, ProcessOne

(* queue.py and ingest_worker.py with one consumer keep the contract with     *)
(* whoever posts an event: accepted once, content never replaced, items      *)
(* stored only while it is pending, settled once, done only with all stored. *)
THEOREM PipelineImplementsContract ==
  ASSUME OneConsumer
  PROVE  Spec => ImplementsContract
  <1>1. Init => Contract!Init
    BY DEF Init, TableInit, Contract!Init, Outcome, LiveStatuses
  <1>2. PipelineInv /\ OneConsumerInv /\ [Next]_vars => [Contract!Next]_(Contract!vars)
    BY StepOfContract
  <1>. QED
    BY <1>1, <1>2, OneConsumerSafety, PTL DEF Spec, ImplementsContract, Contract!Spec
=============================================================================
