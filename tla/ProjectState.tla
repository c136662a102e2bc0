---------------------------- MODULE ProjectState ----------------------------
(***************************************************************************)
(* GET /v1/projects/{id}/state and the tool cortex.get_project_state: one    *)
(* list is read after the other, in a fixed order, while the worker stores  *)
(* and the administrator approves.  The HTTP server answers under its        *)
(* dispatch lock, which its approval handler holds too.  An MCP server is a  *)
(* process of its own, holds no lock that the approval knows of, and builds *)
(* its service when the first tool is called, with whatever stores open     *)
(* then.                                                                    *)
(*                                                                          *)
(* All rows are of the project that is asked for.                           *)
(***************************************************************************)
EXTENDS DecisionAuthority

CONSTANTS
  McpServers,  \* the MCP processes
  Http,        \* the HTTP server of DecisionAuthority as a reader
  Limit,       \* rows per list, 10
  MaxAsked,    \* bound: the approvals asked for
  MaxReading   \* bound: readers at work at a time; they do not change anything

ASSUME ReadersAssumption ==
  /\ Http \notin McpServers
  /\ Limit \in Nat \ {0} /\ MaxReading \in Nat \ {0}

VARIABLES
  service,   \* MCP server -> its service: none yet, both stores open, or degraded
  step,      \* reader -> the read it does next, or 0
  shown,     \* reader -> its lists so far
  before     \* history: reader -> the decisions in each status when it began

readVars == <<service, step, shown, before>>
psVars == <<vars, readVars>>

Readers == McpServers \cup {Http}
Services == {"none", "whole", "degraded"}

(* Mutant: the unresolved decisions are read before the approved ones. *)
Reads_ProposedFirst == <<"proposed", "approved">>

(* The first two reads of project_state(), in their order.  The open tasks, *)
(* the experiences and the artefacts follow, which nothing relates to the   *)
(* decisions or to each other: their reads belong to the step of the answer. *)
Reads == <<"approved", "proposed">>

Lists == {"approved", "proposed"}
Reply == Len(Reads) + 1

PSTypeOK ==
  /\ TypeOK
  /\ service \in [McpServers -> Services]
  /\ step \in [Readers -> 0..Reply]
  /\ shown \in [Readers -> [Lists -> SUBSET Memories]]
  /\ before \in [Readers -> [Lists -> SUBSET Memories]]

NoLists == [n \in Lists |-> {}]

PSInit ==
  /\ Init
  /\ service = [r \in McpServers |-> "none"]
  /\ step = [r \in Readers |-> 0]
  /\ shown = [r \in Readers |-> NoLists]
  /\ before = [r \in Readers |-> NoLists]

-----------------------------------------------------------------------------
(* The reads *)

(* search() by project, type and status. *)
Matching(status) == {m \in Memories : IsDecision(m) /\ knowledge[m].status = status}

(* The newest Limit rows; rows of one second and one event have no order here. *)
Newest(rows) ==
  {chosen \in SUBSET rows :
     Cardinality(chosen) = IF Cardinality(rows) < Limit THEN Cardinality(rows) ELSE Limit}

Room == Cardinality({r \in Readers : step[r] # 0}) < MaxReading

(* Mutant: the HTTP server reads without the dispatch lock. *)
MayBegin_Unlocked(r) == step[r] = 0 /\ Room

(* The dispatch lock: the HTTP server is not in its approval handler. *)
MayBegin(r) == step[r] = 0 /\ Room /\ (r = Http => stage = "idle")

Quit(r) ==
  /\ step' = [step EXCEPT ![r] = 0]
  /\ shown' = [shown EXCEPT ![r] = NoLists]
  /\ before' = [before EXCEPT ![r] = NoLists]

(* The property `service' of MCPServer: CortexService() survives a store    *)
(* that does not open, and stays without it.                                *)
Build(r) ==
  /\ r \in McpServers
  /\ step[r] = 0
  /\ service[r] = "none"
  /\ \E built \in {"whole", "degraded"} : service' = [service EXCEPT ![r] = built]
  /\ UNCHANGED <<vars, step, shown, before>>

Serves(r) == IF r = Http THEN stores = Stores ELSE service[r] = "whole"

(* A service without both stores has answered 503, and nothing is read. *)
Begin(r) ==
  /\ MayBegin(r)
  /\ Serves(r)
  /\ step' = [step EXCEPT ![r] = 1]
  /\ before' = [before EXCEPT ![r] = [n \in Lists |-> Matching(n)]]
  /\ UNCHANGED <<vars, service, shown>>

Read(r) ==
  /\ step[r] \in 1..Len(Reads)
  /\ LET list == Reads[step[r]] IN
       \E chosen \in Newest(Matching(list)) : shown' = [shown EXCEPT ![r][list] = chosen]
  /\ step' = [step EXCEPT ![r] = @ + 1]
  /\ UNCHANGED <<vars, service, before>>

(* A read raises and all that was read is dropped: 503, or a tool error. *)
ReadRaises(r) ==
  /\ step[r] \in 1..Len(Reads)
  /\ Quit(r)
  /\ UNCHANGED <<vars, service>>

AnswerState(r) ==
  /\ step[r] = Reply
  /\ Quit(r)
  /\ UNCHANGED <<vars, service>>

(* The agent runtime ends the MCP process and starts another. *)
RestartMcp(r) ==
  /\ r \in McpServers
  /\ service[r] # "none"
  /\ service' = [service EXCEPT ![r] = "none"]
  /\ Quit(r)
  /\ UNCHANGED vars

-----------------------------------------------------------------------------
(* Composition *)

(* The worker's actions, and the approval under the dispatch lock. *)
Others ==
  /\ \/ \E e \in Events :
          \/ \E b \in Bodies : Postflight(e, b)
          \/ BeginEvent(e) \/ StoreNext(e) \/ AbandonEvent(e) \/ FinishEvent(e)
     \/ \E c \in Calls :
          /\ step[Http] = 0
          /\ <<c.who, c.memory>> \in asked \/ Cardinality(asked) < MaxAsked
          /\ Receive(c)
     \/ Lookup \/ Update \/ UpdateRaises \/ Audit \/ AuditSkipped
  /\ UNCHANGED readVars

(* The death of the HTTP server ends its reads as well. *)
RestartHttp ==
  /\ Restart
  /\ Quit(Http)
  /\ UNCHANGED service

PSNext ==
  \/ Others
  \/ RestartHttp
  \/ \E r \in Readers :
       Build(r) \/ Begin(r) \/ Read(r) \/ ReadRaises(r) \/ AnswerState(r) \/ RestartMcp(r)

PSSpec == PSInit /\ [][PSNext]_psVars

-----------------------------------------------------------------------------
(* Properties *)

(* No answer calls one decision both approved and unresolved, although an   *)
(* approval may come between the two reads: they are in the order in which  *)
(* a decision moves away from the list that is read second.                 *)
NeverBothListed ==
  \A r \in Readers : step[r] = Reply => shown[r]["approved"] \cap shown[r]["proposed"] = {}

Full(r, list) == Cardinality(shown[r][list]) = Limit

(* An answer that is not an error has every decision that was there when it *)
(* began, in its list, unless the list is full.  The one exception is an    *)
(* MCP server's: a decision that was approved between the two reads is in   *)
(* neither, because the dispatch lock does not reach that process.  No      *)
(* missing store, failed read or lazily built service makes a list empty.   *)
StateIsComplete ==
  \A r \in Readers : step[r] = Reply =>
    /\ \A m \in before[r]["approved"] : m \in shown[r]["approved"] \/ Full(r, "approved")
    /\ \A m \in before[r]["proposed"] :
         \/ m \in shown[r]["proposed"] \/ Full(r, "proposed")
         \/ m \in shown[r]["approved"] \/ Full(r, "approved")
         \/ r \in McpServers /\ Approved(m)

(* What a reader would expect of every answer; not so for an MCP server.    *)
NothingFallsBetween ==
  \A r \in Readers : step[r] = Reply =>
    \A m \in before[r]["proposed"] :
       \/ m \in shown[r]["proposed"] \/ Full(r, "proposed")
       \/ m \in shown[r]["approved"] \/ Full(r, "approved")
=============================================================================
