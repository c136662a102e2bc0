-------------------------- MODULE PostflightIntake --------------------------
(***************************************************************************)
(* How an event gets into the queue.  Every front end (the HTTP server, each *)
(* MCP server an agent runtime starts) is a process with a CortexService and *)
(* an EventQueue of its own on the one database.  Inside a front end calls   *)
(* are serialised (the dispatch lock, the stdio loop); between front ends    *)
(* nothing is.  enqueue() reads the row and then inserts it, so two front    *)
(* ends can be inside it with the same request_id.                           *)
(*                                                                           *)
(* A caller may send any payload under any request_id, any number of times:  *)
(* a retry after a lost answer is the same call again.                       *)
(***************************************************************************)
EXTENDS EventQueue

CONSTANTS
  FrontEnds,   \* the processes that accept postflights
  Degraded,    \* those of them whose queue did not open: service.queue is None
  NoCall       \* what an idle front end works on

VARIABLES
  stage,    \* front end -> where its handler is
  call,     \* front end -> the request and payload it handles, or NoCall
  asked,    \* front end -> the clock when its SELECT found no row, else 0
  reply,    \* front end -> the answer it is about to send, or NoCall
  answers   \* history: the answers that reached their callers

intakeVars == <<stage, call, asked, reply, answers>>
vars == <<table, now, intakeVars>>

Calls == [request : Requests, payload : Payloads]

(* 202 with queued true, 202 with duplicate true, or 503. *)
Answers ==
  [request : Requests, payload : Payloads,
   kind : {"queued", "duplicate", "degraded"}, mismatch : BOOLEAN]

TypeOK ==
  /\ TableTypeOK
  /\ stage \in [FrontEnds -> {"idle", "select", "insert", "reply"}]
  /\ call \in [FrontEnds -> Calls \cup {NoCall}]
  /\ asked \in [FrontEnds -> Nat]
  /\ reply \in [FrontEnds -> Answers \cup {NoCall}]
  /\ answers \subseteq Answers

Init ==
  /\ TableInit
  /\ stage = [f \in FrontEnds |-> "idle"]
  /\ call = [f \in FrontEnds |-> NoCall]
  /\ asked = [f \in FrontEnds |-> 0]
  /\ reply = [f \in FrontEnds |-> NoCall]
  /\ answers = {}

Answer(c, kind, mismatch) ==
  [request |-> c.request, payload |-> c.payload, kind |-> kind, mismatch |-> mismatch]

Respond(f, kind, mismatch) ==
  /\ stage' = [stage EXCEPT ![f] = "reply"]
  /\ reply' = [reply EXCEPT ![f] = Answer(call[f], kind, mismatch)]
  /\ asked' = [asked EXCEPT ![f] = 0]
  /\ UNCHANGED <<call, answers>>

-----------------------------------------------------------------------------
(* The handler *)

Receive(f, c) ==
  /\ stage[f] = "idle"
  /\ stage' = [stage EXCEPT ![f] = "select"]
  /\ call' = [call EXCEPT ![f] = c]
  /\ UNCHANGED <<table, now, asked, reply, answers>>

RefuseDegraded(f) ==
  /\ stage[f] = "select"
  /\ f \in Degraded
  /\ Respond(f, "degraded", FALSE)
  /\ UNCHANGED <<table, now>>

(* by_request_id() finds the row: the content is compared and a difference  *)
(* reported.                                                                *)
FindDuplicate(f) ==
  /\ stage[f] = "select"
  /\ f \notin Degraded
  /\ Present(call[f].request)
  /\ Respond(f, "duplicate", payload[call[f].request] # call[f].payload)
  /\ UNCHANGED <<table, now>>

FindNothing(f) ==
  /\ stage[f] = "select"
  /\ f \notin Degraded
  /\ ~Present(call[f].request)
  /\ stage' = [stage EXCEPT ![f] = "insert"]
  /\ asked' = [asked EXCEPT ![f] = now]
  /\ UNCHANGED <<table, now, call, reply, answers>>

(* enqueue() reads the clock before the INSERT, which waits for the lock. *)
InsertRow(f) ==
  /\ stage[f] = "insert"
  /\ \E at \in asked[f]..now : Insert(call[f].request, call[f].payload, at)
  /\ Respond(f, "queued", FALSE)
  /\ UNCHANGED now

(* IntegrityError: another front end was first.  This path reads the row    *)
(* again and returns it without the comparison.                             *)
LoseInsert(f) ==
  /\ stage[f] = "insert"
  /\ Present(call[f].request)
  /\ Respond(f, "duplicate", FALSE)
  /\ UNCHANGED <<table, now>>

(* A statement raises ("locked"), and postflight() answers 503. *)
EnqueueRaises(f) ==
  /\ stage[f] \in {"select", "insert"}
  /\ f \notin Degraded
  /\ Respond(f, "degraded", FALSE)
  /\ UNCHANGED <<table, now>>

Forget(f) ==
  /\ stage' = [stage EXCEPT ![f] = "idle"]
  /\ call' = [call EXCEPT ![f] = NoCall]
  /\ asked' = [asked EXCEPT ![f] = 0]
  /\ reply' = [reply EXCEPT ![f] = NoCall]

Deliver(f) ==
  /\ stage[f] = "reply"
  /\ answers' = answers \cup {reply[f]}
  /\ Forget(f)
  /\ UNCHANGED <<table, now>>

(* The process dies, or the answer is lost: the caller learns nothing. *)
LoseCall(f) ==
  /\ stage[f] # "idle"
  /\ Forget(f)
  /\ UNCHANGED <<table, now, answers>>

-----------------------------------------------------------------------------
(* What the queue's consumers do to it meanwhile, in their own time: rows    *)
(* are taken and settled, and boot recovery sweeps those that a dead worker  *)
(* held.  WritePath puts the workers themselves in this place.               *)
Consume ==
  /\ \/ \E r \in Requests :
          \/ Claim(r)
          \/ status[r] = "processing" /\ SetDone(r)
          \/ status[r] = "processing" /\ \E at \in 1..now : SetFailed(r, attempts[r], at)
     \/ BuryExhausted
     \/ \E at \in 1..now : RequeueProcessing(at)
  /\ UNCHANGED <<now, intakeVars>>

Tick == now' = now + 1 /\ UNCHANGED <<table, intakeVars>>

Handle(f) ==
  \/ \E c \in Calls : Receive(f, c)
  \/ RefuseDegraded(f) \/ FindDuplicate(f) \/ FindNothing(f)
  \/ InsertRow(f) \/ LoseInsert(f) \/ EnqueueRaises(f)
  \/ Deliver(f) \/ LoseCall(f)

Next == (\E f \in FrontEnds : Handle(f)) \/ Consume \/ Tick

Spec == Init /\ [][Next]_vars

-----------------------------------------------------------------------------
(* Properties *)

(* What a caller was told stays true.  A 202 with queued true is a promise:  *)
(* the row is there, now and from then on, and holds the content that this   *)
(* very caller sent, whoever else used the same request_id and whatever the  *)
(* workers did since.  A caller told of a mismatch really lost its content:  *)
(* a re-send of the stored content is never flagged.                         *)
AnswersAreTrue ==
  \A a \in answers :
    /\ a.kind = "queued" => Present(a.request) /\ payload[a.request] = a.payload
    /\ a.mismatch => payload[a.request] # a.payload

(* queue.py, enqueue(): content that is discarded is always reported, never *)
(* hidden behind a success-shaped answer.                                   *)
LossIsReported ==
  \A a \in answers : a.kind = "duplicate" /\ ~a.mismatch => payload[a.request] = a.payload
=============================================================================
