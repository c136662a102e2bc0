------------------------------ MODULE WritePath ------------------------------
(***************************************************************************)
(* The whole write path: the front ends of PostflightIntake put rows into   *)
(* the table and the processes of IngestPipeline take them out and store    *)
(* their items.  Nothing but the table and the clock is shared, and the     *)
(* table is touched by one statement of one process at a time.              *)
(***************************************************************************)
EXTENDS IngestPipeline

CONSTANTS
  FrontEnds, Degraded, NoCall,  \* of PostflightIntake
  MaxAnswers                    \* bound: answers kept in the history

VARIABLES stage, call, asked, reply, answers  \* of PostflightIntake

Intake == INSTANCE PostflightIntake

ASSUME FrontEndsAssumption == Degraded \subseteq FrontEnds /\ MaxAnswers \in Nat \ {0}

intakeVars == <<stage, call, asked, reply, answers>>
wpVars == <<vars, intakeVars>>

WPInit == Init /\ Intake!Init

(* A front end: every way an event gets into the table. *)
FrontEndStep(f) ==
  /\ Intake!Handle(f)
  /\ Cardinality(answers') <= MaxAnswers
  /\ UNCHANGED <<memory, workerVars>>

(* The workers, launchd and the clock; Submit() is what the front ends do.  *)
ConsumerStep ==
  /\ \/ Tick
     \/ \E w \in Workers :
          \/ KeepAlive(w) \/ Launch(w) \/ Crash(w) \/ Signal(w)
          \/ StopFollowing(w) \/ FinishDrain(w)
          \/ Recover(w)
          \/ \E r \in Requests : ClaimNext(w, r)
          \/ ProcessOne(w)
          \/ StatementRaises(w)
  /\ UNCHANGED intakeVars

WPNext == (\E f \in FrontEnds : FrontEndStep(f)) \/ ConsumerStep

WPSpec == WPInit /\ [][WPNext]_wpVars

WPTypeOK == TypeOK /\ Intake!TypeOK

-----------------------------------------------------------------------------
(* Properties *)

(* What a front end answered stays true with real workers behind the table.  *)
AnswersAreTrue == Intake!AnswersAreTrue

(* From the answer to memory: when a caller was told that its event is       *)
(* queued and the event is done, every item of the content that this very    *)
(* caller sent is stored, whoever sent the same request_id before, at the    *)
(* same time or since, and whatever crashed, failed or was retried.         *)
QueuedIsRemembered ==
  \A a \in answers : a.kind = "queued" /\ status[a.request] = "done" =>
    \A k \in 1..Len(ItemsOf[a.payload]) : Key(a.request, ItemsOf[a.payload][k]) \in memory

(* One follower, the deployed configuration, implements the consumer that   *)
(* PostflightIntake reckons with: through its crashes, failures and boots   *)
(* the intake sees rows claimed, settled by their own attempts, or swept,   *)
(* and nothing else; and no re-sent request ever puts a row back.           *)
ImplementsIntake == Intake!Spec
=============================================================================
