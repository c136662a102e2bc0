--------------------------- MODULE QueueContract ----------------------------
(***************************************************************************)
(* What the pipeline promises to whoever posts an event, without queue,     *)
(* workers, attempts or time: an accepted event keeps its content, its      *)
(* items enter memory one by one while it is pending, and it is settled     *)
(* once and for good, as done when everything is in memory, or as dead.     *)
(***************************************************************************)
EXTENDS Integers, Sequences

CONSTANTS Requests, Payloads, NoPayload, Items, ItemsOf, Key(_, _)

VARIABLES
  outcome,   \* request -> absent, pending, done or dead
  content,   \* request -> the accepted payload
  memory     \* the keys stored

vars == <<outcome, content, memory>>

Promised(r) == {Key(r, ItemsOf[content[r]][k]) : k \in 1..Len(ItemsOf[content[r]])}

Init ==
  /\ outcome = [r \in Requests |-> "absent"]
  /\ content = [r \in Requests |-> NoPayload]
  /\ memory = {}

Accept(r, p) ==
  /\ outcome[r] = "absent"
  /\ outcome' = [outcome EXCEPT ![r] = "pending"]
  /\ content' = [content EXCEPT ![r] = p]
  /\ UNCHANGED memory

Remember(r) ==
  /\ outcome[r] = "pending"
  /\ \E key \in Promised(r) : memory' = memory \cup {key}
  /\ UNCHANGED <<outcome, content>>

Complete(r) ==
  /\ outcome[r] = "pending"
  /\ Promised(r) \subseteq memory
  /\ outcome' = [outcome EXCEPT ![r] = "done"]
  /\ UNCHANGED <<content, memory>>

(* Several events may be given up at once: boot recovery does. *)
GiveUp(S) ==
  /\ \A r \in S : outcome[r] = "pending"
  /\ outcome' = [r \in Requests |-> IF r \in S THEN "dead" ELSE outcome[r]]
  /\ UNCHANGED <<content, memory>>

Next ==
  \/ \E r \in Requests, p \in Payloads : Accept(r, p)
  \/ \E r \in Requests : Remember(r) \/ Complete(r)
  \/ \E S \in SUBSET Requests : GiveUp(S)

Spec == Init /\ [][Next]_vars
=============================================================================
