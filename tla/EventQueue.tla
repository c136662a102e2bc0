----------------------------- MODULE EventQueue -----------------------------
(***************************************************************************)
(* The event_queue table of workers/queue.py and the SQL statements that    *)
(* act on it.  Every operator below that primes a variable is one           *)
(* autocommitted statement (or, for Claim, one BEGIN IMMEDIATE              *)
(* transaction): it happens at once, and anything may happen between two of *)
(* them.  The modules that extend this one say who runs them, and when.     *)
(*                                                                          *)
(* A row is named by its request_id, which the table keeps UNIQUE; the      *)
(* generated event_id is one-to-one with it and is not represented.         *)
(*                                                                          *)
(* A method reads the clock before its statement, which may then wait for   *)
(* the write lock (busy_timeout).  `at' below is what the method read: a    *)
(* moment that may be past when the statement takes effect.                 *)
(***************************************************************************)
EXTENDS Integers, FiniteSets

CONSTANTS
  Requests,     \* the request_ids that clients use
  Payloads,     \* the contents a postflight may carry, volatile fields left out
  NoPayload,    \* what an absent row holds
  MaxAttempts,  \* EventQueue.max_attempts
  Backoff       \* backoff_seconds, for the attempts that it is asked about

ASSUME MaxAttemptsAssumption == MaxAttempts \in Nat \ {0}

ASSUME BackoffAssumption == Backoff \in [1..(MaxAttempts - 1) -> Nat \ {0}]

ASSUME NoPayloadAssumption == NoPayload \notin Payloads

VARIABLES
  status,       \* request -> the status column, or "absent"
  attempts,     \* request -> the attempts column
  nextAttempt,  \* request -> the next_attempt column; NULL is 0, see Due
  createdAt,    \* request -> the created_at column
  payload,      \* request -> the payload column
  now           \* the wall clock, in the seconds the timestamps are cut to

table == <<status, attempts, nextAttempt, createdAt, payload>>

LiveStatuses     == {"queued", "processing"}
TerminalStatuses == {"done", "dead"}
Statuses         == {"absent"} \cup LiveStatuses \cup TerminalStatuses

TableTypeOK ==
  /\ status \in [Requests -> Statuses]
  /\ attempts \in [Requests -> Nat]
  /\ nextAttempt \in [Requests -> Nat]
  /\ createdAt \in [Requests -> Nat]
  /\ payload \in [Requests -> Payloads \cup {NoPayload}]
  /\ now \in Nat \ {0}

TableInit ==
  /\ status = [r \in Requests |-> "absent"]
  /\ attempts = [r \in Requests |-> 0]
  /\ nextAttempt = [r \in Requests |-> 0]
  /\ createdAt = [r \in Requests |-> 0]
  /\ payload = [r \in Requests |-> NoPayload]
  /\ now = 1

-----------------------------------------------------------------------------
(* Reads *)

Present(r) == status[r] # "absent"

(* NULL sorts first and the claim treats it as due.  The clock starts at 1, *)
(* so writing NULL as 0 gives both at once.                                  *)
Due(r) == status[r] = "queued" /\ nextAttempt[r] <= now

(* ORDER BY next_attempt, created_at; a tie is broken by the database. *)
ClaimedBefore(q, r) ==
  \/ nextAttempt[q] < nextAttempt[r]
  \/ nextAttempt[q] = nextAttempt[r] /\ createdAt[q] < createdAt[r]

Waiting(r) == status[r] = "queued" /\ nextAttempt[r] > now

Depth == Cardinality({r \in Requests : status[r] \in LiveStatuses})

-----------------------------------------------------------------------------
(* Writes *)

(* Mutant: INSERT OR REPLACE. *)
Insert_Replaces(r, p, at) ==
  /\ status' = [status EXCEPT ![r] = "queued"]
  /\ nextAttempt' = [nextAttempt EXCEPT ![r] = at]
  /\ createdAt' = [createdAt EXCEPT ![r] = at]
  /\ payload' = [payload EXCEPT ![r] = p]
  /\ UNCHANGED attempts

(* The INSERT of enqueue(); a second row for r is an IntegrityError, so the  *)
(* statement has an effect only on an absent row.  The row may come in older *)
(* than one that has been claimed by now.                                    *)
Insert(r, p, at) ==
  /\ ~Present(r)
  /\ status' = [status EXCEPT ![r] = "queued"]
  /\ nextAttempt' = [nextAttempt EXCEPT ![r] = at]
  /\ createdAt' = [createdAt EXCEPT ![r] = at]
  /\ payload' = [payload EXCEPT ![r] = p]
  /\ UNCHANGED attempts

(* claim() when it finds r: the SELECT and the UPDATE are one transaction.  *)
(* The clock read before it makes no difference here: the first of the      *)
(* queued rows is the first of the rows due at any moment, so an older      *)
(* clock finds the same row, or none yet.                                   *)
Claim(r) ==
  /\ Due(r)
  /\ \A q \in Requests : Due(q) => ~ClaimedBefore(q, r)
  /\ status' = [status EXCEPT ![r] = "processing"]
  /\ attempts' = [attempts EXCEPT ![r] = @ + 1]
  /\ UNCHANGED <<nextAttempt, createdAt, payload>>

NothingDue == \A r \in Requests : ~Due(r)

(* ack(): no guard on the status or on who holds the row. *)
SetDone(r) ==
  /\ status' = [status EXCEPT ![r] = "done"]
  /\ nextAttempt' = [nextAttempt EXCEPT ![r] = 0]
  /\ UNCHANGED <<attempts, createdAt, payload>>

(* Mutant: a status outside the lifecycle, which no claim looks for. *)
SetFailed_OwnStatus(r, seen, at) ==
  /\ status' = [status EXCEPT ![r] = IF seen >= MaxAttempts THEN "dead" ELSE "failed"]
  /\ UNCHANGED <<attempts, nextAttempt, createdAt, payload>>

(* Mutant: the retry is scheduled, the status forgotten. *)
SetFailed_StaysProcessing(r, seen, at) ==
  /\ IF seen >= MaxAttempts
       THEN status' = [status EXCEPT ![r] = "dead"] /\ UNCHANGED nextAttempt
       ELSE /\ nextAttempt' = [nextAttempt EXCEPT ![r] = at + Backoff[seen]]
            /\ UNCHANGED status
  /\ UNCHANGED <<attempts, createdAt, payload>>

(* Mutant: the ceiling is off by one. *)
SetFailed_OneShort(r, seen, at) ==
  /\ status' = [status EXCEPT ![r] = IF seen + 1 >= MaxAttempts THEN "dead" ELSE "queued"]
  /\ UNCHANGED <<attempts, nextAttempt, createdAt, payload>>

(* The UPDATE of fail(), given the attempts its SELECT read earlier. *)
SetFailed(r, seen, at) ==
  /\ IF seen >= MaxAttempts
       THEN /\ status' = [status EXCEPT ![r] = "dead"]
            /\ nextAttempt' = [nextAttempt EXCEPT ![r] = 0]
       ELSE /\ status' = [status EXCEPT ![r] = "queued"]
            /\ nextAttempt' = [nextAttempt EXCEPT ![r] = at + Backoff[seen]]
  /\ UNCHANGED <<attempts, createdAt, payload>>

Exhausted(r) == status[r] = "processing" /\ attempts[r] >= MaxAttempts

(* Mutant: the crash loop that tests/test_queue.py guards against. *)
BuryExhausted_Missing == UNCHANGED table

(* The first UPDATE of reset_stale_processing(). *)
BuryExhausted ==
  /\ status' = [r \in Requests |-> IF Exhausted(r) THEN "dead" ELSE status[r]]
  /\ nextAttempt' = [r \in Requests |-> IF Exhausted(r) THEN 0 ELSE nextAttempt[r]]
  /\ UNCHANGED <<attempts, createdAt, payload>>

(* Mutant: everything but done is requeued. *)
RequeueProcessing_DeadToo(at) ==
  LET Stale(r) == status[r] \in {"processing", "dead"} IN
  /\ status' = [r \in Requests |-> IF Stale(r) THEN "queued" ELSE status[r]]
  /\ nextAttempt' = [r \in Requests |-> IF Stale(r) THEN at ELSE nextAttempt[r]]
  /\ UNCHANGED <<attempts, createdAt, payload>>

(* Mutant: next_attempt = NULL, which sorts before every other row. *)
RequeueProcessing_AheadOfAll(at) ==
  LET Stale(r) == status[r] = "processing" IN
  /\ status' = [r \in Requests |-> IF Stale(r) THEN "queued" ELSE status[r]]
  /\ nextAttempt' = [r \in Requests |-> IF Stale(r) THEN 0 ELSE nextAttempt[r]]
  /\ UNCHANGED <<attempts, createdAt, payload>>

(* The second one: whatever is processing by now, exhausted or not.  The     *)
(* clock was read before the first.                                          *)
RequeueProcessing(at) ==
  LET Stale(r) == status[r] = "processing" IN
  /\ status' = [r \in Requests |-> IF Stale(r) THEN "queued" ELSE status[r]]
  /\ nextAttempt' = [r \in Requests |-> IF Stale(r) THEN at ELSE nextAttempt[r]]
  /\ UNCHANGED <<attempts, createdAt, payload>>
=============================================================================
