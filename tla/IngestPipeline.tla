--------------------------- MODULE IngestPipeline ---------------------------
(***************************************************************************)
(* The ingest pipeline: clients post events to the queue, and the workers   *)
(* of workers/ingest_worker.py claim them and write their items into        *)
(* memory through Curator.ingest_event().  Workers are processes; each SQL  *)
(* statement and each stored item is a step of its own, and a process may   *)
(* die between any two of them.                                             *)
(*                                                                          *)
(* Three kinds of process consume the queue:                                *)
(*   - a follower is `worker' in follow mode, kept alive by launchd;        *)
(*   - a drainer is `worker --once', started by hand;                       *)
(*   - an inline consumer is CortexService.drain_queue(), which has no boot *)
(*     recovery.                                                            *)
(***************************************************************************)
EXTENDS EventQueue, Sequences

CONSTANTS
  Followers, Drainers, Inline,  \* the processes, by kind
  Items,              \* what a payload is made of
  Artefacts,          \* the items that become graph edges
  ItemsOf,            \* payload -> its items, in the order of ingest_event()
  NoRequest,          \* no row; also the owner of the edges, which events share
  StatementsMayFail,  \* whether claim(), ack() and fail() may raise ("locked")
  IdleTime,           \* bound: how far the clock runs with no row waiting
  ClaimBound          \* bound: how often a row is claimed

ASSUME NoRequestAssumption == NoRequest \notin Requests

ASSUME ItemsAssumption == ItemsOf \in [Payloads -> Seq(Items)]

ASSUME KindsAssumption ==
  /\ Followers \cap Drainers = {}
  /\ Followers \cap Inline = {}
  /\ Drainers \cap Inline = {}

ASSUME BoundsAssumption ==
  StatementsMayFail \in BOOLEAN /\ IdleTime \in Nat /\ ClaimBound \in Nat

VARIABLES
  memory,    \* what is stored, as a set of keys
  pc,        \* worker -> where it is
  cur,       \* worker -> the row it claimed, or NoRequest
  step,      \* worker -> the position in the payload of the next item to store
  seen,      \* worker -> the attempts that the SELECT of fail() read
  clock,     \* worker -> the earliest time that its next statement can carry,
             \*           in boot recovery and in fail(); 0 elsewhere
  stopping   \* worker -> its _stop flag

workerVars == <<pc, cur, step, seen, clock, stopping>>
vars == <<table, now, memory, workerVars>>

Workers == Followers \cup Drainers \cup Inline

(* The uniqueness that INSERT OR IGNORE relies on: a knowledge row has the  *)
(* fingerprint "agent_event:<event_id>::<text>", so it belongs to its       *)
(* event; an edge is UNIQUE(src, rel, dst), whatever event it comes from.   *)
Key(r, i) == IF i \in Artefacts THEN <<NoRequest, i>> ELSE <<r, i>>

Keys == (Requests \cup {NoRequest}) \X Items

ItemsIn(r) == ItemsOf[payload[r]]

Booting == {"bury", "requeue", "bury2", "requeue2"}
Holding == {"ingest", "ack", "failRead", "failWrite"}
Running == Booting \cup {"poll"} \cup Holding
Places  == {"down", "exited"} \cup Running

(* main() installs the signal handlers after its own boot recovery. *)
HandlesSignals == Running \ {"bury", "requeue"}

TypeOK ==
  /\ TableTypeOK
  /\ memory \subseteq Keys
  /\ pc \in [Workers -> Places]
  /\ cur \in [Workers -> Requests \cup {NoRequest}]
  /\ step \in [Workers -> Nat]
  /\ seen \in [Workers -> Nat]
  /\ clock \in [Workers -> Nat]
  /\ stopping \in [Workers -> BOOLEAN]

(* launchd starts a follower at load (RunAtLoad); the others wait for a hand. *)
Init ==
  /\ TableInit
  /\ memory = {}
  /\ pc = [w \in Workers |-> IF w \in Followers THEN "down" ELSE "exited"]
  /\ cur = [w \in Workers |-> NoRequest]
  /\ step = [w \in Workers |-> 0]
  /\ seen = [w \in Workers |-> 0]
  /\ clock = [w \in Workers |-> 0]
  /\ stopping = [w \in Workers |-> FALSE]

Goto(w, place) == pc' = [pc EXCEPT ![w] = place]

(* The locals of process_one() go out of scope. *)
Forget(w) ==
  /\ cur' = [cur EXCEPT ![w] = NoRequest]
  /\ step' = [step EXCEPT ![w] = 0]
  /\ seen' = [seen EXCEPT ![w] = 0]
  /\ clock' = [clock EXCEPT ![w] = 0]

-----------------------------------------------------------------------------
(* Clients and time *)

(* enqueue() as the table sees it: the first payload of a request is stored, *)
(* every later one changes nothing.  The front end may have read the clock   *)
(* at any time before.  PostflightIntake splits the handler.                 *)
Submit(r, p) ==
  /\ \E at \in 1..now : Insert(r, p, at)
  /\ UNCHANGED <<now, memory, workerVars>>

(* The clock moves while a row waits out its backoff, and up to IdleTime     *)
(* otherwise.                                                                *)
Tick ==
  /\ now < IdleTime \/ \E r \in Requests : Waiting(r)
  /\ now' = now + 1
  /\ UNCHANGED <<table, memory, workerVars>>

-----------------------------------------------------------------------------
(* The life of a process *)

(* Mutant: a worker that starts without boot recovery. *)
Start_NoRecovery(w) ==
  /\ Goto(w, "poll")
  /\ stopping' = [stopping EXCEPT ![w] = FALSE]
  /\ UNCHANGED <<table, now, memory, cur, step, seen, clock>>

Start(w) ==
  /\ Goto(w, IF w \in Inline THEN "poll" ELSE "bury")
  /\ clock' = [clock EXCEPT ![w] = IF w \in Inline THEN 0 ELSE now]
  /\ stopping' = [stopping EXCEPT ![w] = FALSE]
  /\ UNCHANGED <<table, now, memory, cur, step, seen>>

(* KeepAlive with SuccessfulExit=false: launchd restarts what crashed. *)
KeepAlive(w) == w \in Followers /\ pc[w] = "down" /\ Start(w)

(* A hand starts a worker that is not running and that launchd left alone. *)
Launch(w) == pc[w] = "exited" /\ Start(w)

(* The process ends between two statements; what it did is committed, what  *)
(* it held is left as it is.  Only a follower is restarted, and only if its *)
(* exit code says so.                                                       *)
End(w, place) ==
  /\ Goto(w, place)
  /\ Forget(w)
  /\ UNCHANGED <<table, now, memory, stopping>>

Crash(w) ==
  /\ pc[w] \in Running
  /\ End(w, IF w \in Followers THEN "down" ELSE "exited")

(* SIGTERM or SIGINT: stop() only sets the flag, which drain() never reads. *)
Signal(w) ==
  /\ w \in Followers
  /\ pc[w] \in HandlesSignals
  /\ stopping' = [stopping EXCEPT ![w] = TRUE]
  /\ UNCHANGED <<table, now, memory, pc, cur, step, seen, clock>>

(* run_forever() finds the flag set; main() returns 0. *)
StopFollowing(w) ==
  /\ pc[w] = "poll"
  /\ stopping[w]
  /\ End(w, "exited")

(* drain() ends when nothing is due.  (Its max_events bound is not          *)
(* represented: ending early is what Crash does to a worker at "poll".)     *)
FinishDrain(w) ==
  /\ w \notin Followers
  /\ pc[w] = "poll"
  /\ NothingDue
  /\ End(w, "exited")

-----------------------------------------------------------------------------
(* Boot recovery: main() runs it, and run_forever() runs it again.  It reads *)
(* the clock once, some time before its first statement.                     *)

Bury(w) ==
  /\ pc[w] \in {"bury", "bury2"}
  /\ BuryExhausted
  /\ Goto(w, IF pc[w] = "bury" THEN "requeue" ELSE "requeue2")
  /\ \E at \in clock[w]..now : clock' = [clock EXCEPT ![w] = at]
  /\ UNCHANGED <<now, memory, cur, step, seen, stopping>>

Requeue(w) ==
  LET again == pc[w] = "requeue" /\ w \in Followers IN
  /\ pc[w] \in {"requeue", "requeue2"}
  /\ RequeueProcessing(clock[w])
  /\ Goto(w, IF again THEN "bury2" ELSE "poll")
  /\ clock' = [clock EXCEPT ![w] = IF again THEN now ELSE 0]
  /\ UNCHANGED <<now, memory, cur, step, seen, stopping>>

Recover(w) == Bury(w) \/ Requeue(w)

-----------------------------------------------------------------------------
(* process_one() *)

ClaimNext(w, r) ==
  /\ pc[w] = "poll"
  /\ ~stopping[w]
  /\ attempts[r] < ClaimBound
  /\ Claim(r)
  /\ cur' = [cur EXCEPT ![w] = r]
  /\ step' = [step EXCEPT ![w] = 1]
  /\ Goto(w, "ingest")
  /\ UNCHANGED <<now, memory, seen, clock, stopping>>

(* Mutant: the transaction of the item is never committed. *)
StoreItem_NotCommitted(w) ==
  /\ pc[w] = "ingest"
  /\ step[w] <= Len(ItemsIn(cur[w]))
  /\ step' = [step EXCEPT ![w] = @ + 1]
  /\ UNCHANGED <<table, now, memory, pc, cur, seen, clock, stopping>>

(* ingest_event() stores one item and commits it; a key that is there       *)
(* already is ignored.                                                      *)
StoreItem(w) ==
  /\ pc[w] = "ingest"
  /\ step[w] <= Len(ItemsIn(cur[w]))
  /\ memory' = memory \cup {Key(cur[w], ItemsIn(cur[w])[step[w]])}
  /\ step' = [step EXCEPT ![w] = @ + 1]
  /\ UNCHANGED <<table, now, pc, cur, seen, clock, stopping>>

IngestReturns(w) ==
  /\ pc[w] = "ingest"
  /\ step[w] > Len(ItemsIn(cur[w]))
  /\ Goto(w, "ack")
  /\ UNCHANGED <<table, now, memory, cur, step, seen, clock, stopping>>

(* Mutant: the exception is swallowed and the event acknowledged. *)
IngestRaises_Swallowed(w) ==
  /\ pc[w] = "ingest"
  /\ Goto(w, "ack")
  /\ UNCHANGED <<table, now, memory, cur, step, seen, clock, stopping>>

(* An incompatible store, a locked database, a malformed item: ingest_event *)
(* may raise at any point, and keeps what it has stored.                    *)
IngestRaises(w) ==
  /\ pc[w] = "ingest"
  /\ Goto(w, "failRead")
  /\ UNCHANGED <<table, now, memory, cur, step, seen, clock, stopping>>

Release(w) == Forget(w) /\ Goto(w, "poll")

Ack(w) ==
  /\ pc[w] = "ack"
  /\ SetDone(cur[w])
  /\ Release(w)
  /\ UNCHANGED <<now, memory, stopping>>

(* Mutant: the attempt that claim() counted is counted again. *)
FailRead_CountsAgain(w) ==
  /\ pc[w] = "failRead"
  /\ seen' = [seen EXCEPT ![w] = attempts[cur[w]] + 1]
  /\ clock' = [clock EXCEPT ![w] = now]
  /\ Goto(w, "failWrite")
  /\ UNCHANGED <<table, now, memory, cur, step, stopping>>

(* The SELECT; the clock is read between it and the UPDATE. *)
FailRead(w) ==
  /\ pc[w] = "failRead"
  /\ seen' = [seen EXCEPT ![w] = attempts[cur[w]]]
  /\ clock' = [clock EXCEPT ![w] = now]
  /\ Goto(w, "failWrite")
  /\ UNCHANGED <<table, now, memory, cur, step, stopping>>

FailWrite(w) ==
  /\ pc[w] = "failWrite"
  /\ \E at \in clock[w]..now : SetFailed(cur[w], seen[w], at)
  /\ Release(w)
  /\ UNCHANGED <<now, memory, stopping>>

(* claim(), ack() or fail() raises.  run_forever() logs it and polls again; *)
(* drain() lets it end the process.                                         *)
StatementRaises(w) ==
  /\ StatementsMayFail
  /\ pc[w] \in {"poll", "ack", "failRead", "failWrite"}
  /\ End(w, IF w \in Followers THEN "poll" ELSE "exited")

-----------------------------------------------------------------------------

ProcessOne(w) ==
  \/ StoreItem(w) \/ IngestReturns(w) \/ IngestRaises(w)
  \/ Ack(w) \/ FailRead(w) \/ FailWrite(w)

Next ==
  \/ \E r \in Requests, p \in Payloads : Submit(r, p)
  \/ Tick
  \/ \E w \in Workers :
       \/ KeepAlive(w) \/ Launch(w) \/ Crash(w) \/ Signal(w)
       \/ StopFollowing(w) \/ FinishDrain(w)
       \/ Recover(w)
       \/ \E r \in Requests : ClaimNext(w, r)
       \/ ProcessOne(w)
       \/ StatementRaises(w)

Spec == Init /\ [][Next]_vars

(* A running process takes its next step, launchd restarts a crashed        *)
(* follower, and time passes.  Nothing says that events arrive, that        *)
(* workers crash or that anyone starts one.  A follower may crash again and *)
(* again at boot or before a claim, but not every single time: hence strong *)
(* fairness there.  Inside an event weak fairness is enough, because every  *)
(* crash there uses up one attempt.                                         *)
Fairness ==
  /\ WF_vars(Tick)
  /\ \A w \in Workers :
       /\ WF_vars(KeepAlive(w))
       /\ SF_vars(StopFollowing(w))
       /\ WF_vars(FinishDrain(w))
       /\ \A place \in Booting : SF_vars(pc[w] = place /\ Recover(w))
       /\ SF_vars(\E r \in Requests : ClaimNext(w, r))
       /\ WF_vars(ProcessOne(w))

FairSpec == Spec /\ Fairness

-----------------------------------------------------------------------------
(* Properties of any number of workers, whatever they do to each other *)

(* An event is reported done only when every item of its payload is stored: *)
(* ack() follows a full ingest_event(), stored items stay, and the payload  *)
(* of a row is never replaced.  Holds however many workers share the row.   *)
DoneImpliesStored ==
  \A r \in Requests : status[r] = "done" =>
    \A k \in 1..Len(ItemsIn(r)) : Key(r, ItemsIn(r)[k]) \in memory

(* A row is given up only after MaxAttempts claims, also when fail() acts   *)
(* on an attempts value that another worker's claim has made stale.         *)
DeadOnlyAfterMaxAttempts ==
  \A r \in Requests : status[r] = "dead" => attempts[r] >= MaxAttempts

-----------------------------------------------------------------------------
(* Properties of a pipeline with one consumer, the deployed configuration *)

(* The retry budget is a ceiling: no event is claimed more than MaxAttempts *)
(* times, crashes included, and what is queued has budget left.             *)
RetryBudget ==
  \A r \in Requests :
    /\ attempts[r] <= MaxAttempts
    /\ status[r] = "queued" => attempts[r] < MaxAttempts

(* claim() takes no event, be it for the first time, for a retry or after a  *)
(* crash, while an older one that was never tried is in the table: neither  *)
(* a backoff nor boot recovery puts a tried event ahead of the backlog.  It *)
(* says nothing of an event that gets into the table late, with a           *)
(* created_at older than what was claimed before: the code promises no      *)
(* order there.                                                             *)
NoOvertaking ==
  [][\A q, r \in Requests :
       /\ status[r] = "queued" /\ status'[r] = "processing"
       /\ Present(q) /\ attempts[q] = 0
       => createdAt[r] <= createdAt[q]]_vars

(* done and dead are final: no late statement of a worker brings an event   *)
(* back or changes its verdict.                                             *)
TerminalIsFinal ==
  [][\A r \in Requests : status[r] \in TerminalStatuses => status'[r] = status[r]]_vars

(* No two consumers hold the same event (queue.py, claim()). *)
ExclusiveProcessing ==
  \A v, w \in Workers :
    v # w /\ pc[v] \in Holding /\ pc[w] \in Holding => cur[v] # cur[w]

(* A processing row has a worker on it, or a follower that will recover it: *)
(* no event is stranded.                                                    *)
NothingStranded ==
  \A r \in Requests : status[r] = "processing" =>
    \/ \E w \in Workers : pc[w] \in Holding /\ cur[w] = r
    \/ \E w \in Followers : pc[w] \in {"down", "bury", "requeue"}

(* Every accepted event is eventually done or dead, through any number of   *)
(* failures and of crashes in the middle of an event, unless the worker has *)
(* been told to stop.                                                       *)
EventuallySettled ==
  \A r \in Requests :
    Present(r) ~> (status[r] \in TerminalStatuses \/ \E w \in Workers : pc[w] = "exited")

(* SERVICE_OPERATIONS section 4: kill <pid> is a restart. *)
KillIsARestart ==
  \A w \in Followers : stopping[w] ~> pc[w] \in Booting

-----------------------------------------------------------------------------
(* The inductive invariant behind the theorems of IngestProofs *)

(* A present row holds a payload, and only a claim leads out of "queued". *)
RowsInv ==
  \A r \in Requests :
    /\ Present(r) => payload[r] \in Payloads
    /\ status[r] \in {"processing", "done", "dead"} => attempts[r] > 0
    /\ status[r] = "dead" => attempts[r] >= MaxAttempts
    /\ status[r] = "done" =>
         \A k \in 1..Len(ItemsIn(r)) : Key(r, ItemsIn(r)[k]) \in memory

(* A worker inside process_one() holds a row that has been claimed; what it *)
(* has walked past is stored, and what it read of the attempts is a lower   *)
(* bound of what they are.                                                  *)
HoldersInv ==
  \A w \in Workers : pc[w] \in Holding =>
    /\ cur[w] \in Requests
    /\ Present(cur[w])
    /\ attempts[cur[w]] > 0
    /\ pc[w] = "ingest" =>
         /\ step[w] > 0
         /\ \A k \in 1..Len(ItemsIn(cur[w])) :
              k < step[w] => Key(cur[w], ItemsIn(cur[w])[k]) \in memory
    /\ pc[w] = "ack" =>
         \A k \in 1..Len(ItemsIn(cur[w])) : Key(cur[w], ItemsIn(cur[w])[k]) \in memory
    /\ pc[w] = "failWrite" => seen[w] \in 1..attempts[cur[w]]

(* A row that was never claimed still has the due time it was created with, *)
(* which is not in the future; so it sorts by its age.                      *)
UntriedInv ==
  \A r \in Requests :
    /\ ~Present(r) => attempts[r] = 0
    /\ createdAt[r] <= now
    /\ Present(r) /\ attempts[r] = 0 =>
         status[r] = "queued" /\ nextAttempt[r] = createdAt[r]

(* What a worker has read of the clock is not in the future. *)
ClockInv ==
  \A w \in Workers : pc[w] \in Booting \cup {"failWrite"} => clock[w] \in 1..now

PipelineInv ==
  /\ TypeOK
  /\ RowsInv
  /\ HoldersInv
  /\ UntriedInv
  /\ ClockInv
=============================================================================
