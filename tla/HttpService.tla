---------------------------- MODULE HttpService ----------------------------
(***************************************************************************)
(* The process of the HTTP API.  CortexService opens the three stores, or    *)
(* goes on degraded; ThreadingHTTPServer gives each connection a daemon      *)
(* thread, whose requests dispatch() serialises with one lock; and the main  *)
(* thread closes the service when it is interrupted, without that lock and   *)
(* without waiting for the threads.                                         *)
(*                                                                          *)
(* A store's handle is its SQLite connection.  A handler looks at the        *)
(* service's attributes, uses its handles one after the other, and answers   *)
(* an exception of theirs itself.                                           *)
(***************************************************************************)
EXTENDS Integers, FiniteSets

CONSTANTS
  Threads,     \* the connections there can be
  MaxRequests  \* requests on a connection: bounds the state space

Stores == {"vector", "graph", "queue"}

ASSUME HttpAssumption == MaxRequests \in Nat

VARIABLES
  run,       \* the main thread
  handle,    \* store -> "none", "open", "closed", or "stuck": its close() raised
  attached,  \* the stores whose attribute of the service is not None
  opened,    \* the stores in service._opened
  lock,      \* the threads that hold the dispatch lock
  place,     \* thread -> where it is
  route,     \* thread -> the route of its request
  needs,     \* thread -> the stores its handler still has to use
  answer,    \* thread -> the status of its last answer, or 0
  left       \* thread -> requests that it can still receive

mainVars == <<run, handle, attached, opened>>
threadVars == <<lock, place, route, needs, answer, left>>
vars == <<mainVars, threadVars>>

(* What each handler requires of the service, and then uses.                 *)
Uses == [context |-> {"vector", "graph"}, search |-> {"vector"}, project |-> {"vector", "graph"},
         postflight |-> {"queue"}, health |-> {}]

Requires == [Uses EXCEPT !.context = Stores]

Routes == DOMAIN Uses

(* How each handler answers an exception of a store: 409 for another          *)
(* embedder, 400 for another ValueError, 503 for the rest.                   *)
Errors == [context |-> {400, 409, 503}, search |-> {409, 503}, project |-> {503},
           postflight |-> {503}, health |-> {}]

(* The 500 of dispatch() is for what no handler caught.  413 and 400 are also  *)
(* the answers to a body that is too long or no JSON.                        *)
Statuses == {200, 202, 400, 409, 413, 503}

TypeOK ==
  /\ run \in {"vector", "graph", "queue", "serving", "shutdown", "exited", "killed"}
  /\ handle \in [Stores -> {"none", "open", "closed", "stuck"}]
  /\ attached \subseteq Stores /\ opened \subseteq Stores
  /\ lock \subseteq Threads
  /\ place \in [Threads -> {"idle", "waiting", "handling"}]
  /\ route \in [Threads -> Routes]
  /\ needs \in [Threads -> SUBSET Stores]
  /\ answer \in [Threads -> {0} \cup Statuses]
  /\ left \in [Threads -> 0..MaxRequests]

Init ==
  /\ run = "vector"
  /\ handle = [s \in Stores |-> "none"]
  /\ attached = {} /\ opened = {}
  /\ lock = {}
  /\ place = [t \in Threads |-> "idle"]
  /\ route = [t \in Threads |-> "health"]
  /\ needs = [t \in Threads |-> {}]
  /\ answer = [t \in Threads |-> 0]
  /\ left = [t \in Threads |-> MaxRequests]

-----------------------------------------------------------------------------
(* CortexService.__init__() *)

Opened(s) ==
  /\ handle' = [handle EXCEPT ![s] = "open"]
  /\ attached' = attached \cup {s}
  /\ opened' = opened \cup {s}

OpenVector == run = "vector" /\ Opened("vector") /\ run' = "graph" /\ UNCHANGED threadVars

OpenGraph == run = "graph" /\ Opened("graph") /\ run' = "queue" /\ UNCHANGED threadVars

(* One of the two does not open: the other is closed and both detached. *)
StoresFail ==
  /\ run \in {"vector", "graph"}
  /\ \E ended \in {"closed", "stuck"} :
       handle' = [s \in Stores |-> IF handle[s] = "open" THEN ended ELSE handle[s]]
  /\ attached' = {}
  /\ run' = "queue"
  /\ UNCHANGED <<opened, threadVars>>

OpenQueue == run = "queue" /\ Opened("queue") /\ run' = "serving" /\ UNCHANGED threadVars

QueueFails == run = "queue" /\ run' = "serving" /\ UNCHANGED <<handle, attached, opened, threadVars>>

-----------------------------------------------------------------------------
(* A request *)

Alive == run \in {"serving", "shutdown"}

(* A connection that is open goes on sending while the main thread closes. *)
Request(t, r) ==
  /\ Alive
  /\ place[t] = "idle"
  /\ left[t] > 0
  /\ left' = [left EXCEPT ![t] = @ - 1]
  /\ place' = [place EXCEPT ![t] = "waiting"]
  /\ route' = [route EXCEPT ![t] = r]
  /\ answer' = [answer EXCEPT ![t] = 0]
  /\ UNCHANGED <<mainVars, lock, needs>>

(* A body that cannot be read is answered before dispatch(). *)
RejectBody(t) ==
  /\ Alive
  /\ place[t] = "idle"
  /\ left[t] > 0
  /\ left' = [left EXCEPT ![t] = @ - 1]
  /\ \E status \in {400, 413} : answer' = [answer EXCEPT ![t] = status]
  /\ UNCHANGED <<mainVars, lock, place, route, needs>>

Acquire(t) ==
  /\ Alive
  /\ place[t] = "waiting"
  /\ lock = {}
  /\ lock' = {t}
  /\ place' = [place EXCEPT ![t] = "handling"]
  /\ needs' = [needs EXCEPT ![t] = Uses[route[t]]]
  /\ UNCHANGED <<mainVars, route, answer, left>>

(* The handler returns, and the with statement releases the lock. *)
Reply(t, status) ==
  /\ lock' = lock \ {t}
  /\ place' = [place EXCEPT ![t] = "idle"]
  /\ answer' = [answer EXCEPT ![t] = status]
  /\ needs' = [needs EXCEPT ![t] = {}]
  /\ UNCHANGED <<mainVars, route, left>>

(* The body does not validate, or the project id is blank. *)
Reject(t) ==
  /\ Alive
  /\ place[t] = "handling"
  /\ route[t] # "health" /\ needs[t] = Uses[route[t]]
  /\ route[t] = "project" => Requires[route[t]] \subseteq attached
  /\ Reply(t, 400)

(* Mutant: a refusal does not release the lock. *)
Refuse_KeepsLock(t) ==
  /\ Alive
  /\ place[t] = "handling"
  /\ ~(Requires[route[t]] \subseteq attached)
  /\ place' = [place EXCEPT ![t] = "idle"]
  /\ answer' = [answer EXCEPT ![t] = 503]
  /\ needs' = [needs EXCEPT ![t] = {}]
  /\ UNCHANGED <<mainVars, lock, route, left>>

(* A store that the route requires is detached. *)
Refuse(t) ==
  /\ Alive
  /\ place[t] = "handling"
  /\ ~(Requires[route[t]] \subseteq attached)
  /\ Reply(t, 503)

(* Mutant: the per-request ContextBuilder owns the store it was given. *)
Use_Closes(t, s) ==
  /\ Alive
  /\ place[t] = "handling"
  /\ Requires[route[t]] \subseteq attached
  /\ s \in needs[t]
  /\ handle[s] = "open"
  /\ needs' = [needs EXCEPT ![t] = @ \ {s}]
  /\ handle' = IF route[t] = "context" THEN [handle EXCEPT ![s] = "closed"] ELSE handle
  /\ UNCHANGED <<run, attached, opened, lock, place, route, answer, left>>

(* The builder of a preflight is given the service's stores and leaves them  *)
(* open.                                                                    *)
Use(t, s) ==
  /\ Alive
  /\ place[t] = "handling"
  /\ Requires[route[t]] \subseteq attached
  /\ s \in needs[t]
  /\ handle[s] = "open"
  /\ needs' = [needs EXCEPT ![t] = @ \ {s}]
  /\ UNCHANGED <<mainVars, lock, place, route, answer, left>>

(* Mutant: the handler lets the exception through, and dispatch() answers 500. *)
UseRaises_Propagates(t, s) ==
  /\ Alive
  /\ place[t] = "handling"
  /\ Requires[route[t]] \subseteq attached
  /\ s \in needs[t]
  /\ Reply(t, 500)

(* A statement raises: locked, disk full, the connection closed, rows of     *)
(* another embedder.                                                        *)
UseRaises(t, s) ==
  /\ Alive
  /\ place[t] = "handling"
  /\ Requires[route[t]] \subseteq attached
  /\ s \in needs[t]
  /\ \E status \in Errors[route[t]] : Reply(t, status)

(* One of the two lookups that end a preflight raises: its list is empty and  *)
(* the answer warns of it, unless it is a ValueError.                        *)
LookUpRaises(t) ==
  /\ Alive
  /\ place[t] = "handling"
  /\ Requires[route[t]] \subseteq attached
  /\ route[t] = "context" /\ needs[t] = {}
  /\ \E status \in {200, 400, 409} : Reply(t, status)

Finish(t) ==
  /\ Alive
  /\ place[t] = "handling"
  /\ Requires[route[t]] \subseteq attached
  /\ needs[t] = {}
  /\ Reply(t, IF route[t] = "postflight" THEN 202 ELSE 200)

-----------------------------------------------------------------------------
(* The end of the process *)

(* Control-C: serve_forever() returns, and server_close() does not join       *)
(* daemon threads.                                                          *)
Interrupt == run = "serving" /\ run' = "shutdown" /\ UNCHANGED <<handle, attached, opened, threadVars>>

(* CortexService.close() walks _opened and the attributes. *)
Closes == opened \cup attached

(* Handle by handle; one whose close() raises is passed over. *)
CloseOne(s) ==
  /\ run = "shutdown"
  /\ s \in Closes
  /\ handle[s] = "open"
  /\ \E ended \in {"closed", "stuck"} : handle' = [handle EXCEPT ![s] = ended]
  /\ UNCHANGED <<run, attached, opened, threadVars>>

Exit ==
  /\ run = "shutdown"
  /\ \A s \in Closes : handle[s] # "open"
  /\ run' = "exited"
  /\ UNCHANGED <<handle, attached, opened, threadVars>>

(* SIGTERM has its default action in this process: it ends where it is, and   *)
(* no finally clause runs.                                                  *)
Terminate ==
  /\ run \notin {"exited", "killed"}
  /\ run' = "killed"
  /\ UNCHANGED <<handle, attached, opened, threadVars>>

-----------------------------------------------------------------------------

Boot == OpenVector \/ OpenGraph \/ StoresFail \/ OpenQueue \/ QueueFails

Step(t) ==
  \/ Acquire(t) \/ Reject(t) \/ Refuse(t) \/ Finish(t) \/ LookUpRaises(t)
  \/ \E s \in Stores : Use(t, s) \/ UseRaises(t, s)

Stop == Exit \/ \E s \in Stores : CloseOne(s)

Next ==
  \/ Boot \/ Stop \/ Interrupt \/ Terminate
  \/ \E t \in Threads : Step(t) \/ RejectBody(t) \/ \E r \in Routes : Request(t, r)

Spec == Init /\ [][Next]_vars

(* Threads are scheduled and the main thread is; clients, signals and the    *)
(* outcome of a boot are nobody's duty.  Weak fairness is enough for the     *)
(* lock because the other connections run out of requests.                  *)
FairSpec == Spec /\ WF_vars(Stop) /\ \A t \in Threads : WF_vars(Step(t))

-----------------------------------------------------------------------------
(* Properties *)

(* While the service runs, exactly the attached stores are open, whatever   *)
(* boot did and however many requests borrowed them: a 503 for a closed      *)
(* connection comes only from a shutdown, and a degraded boot leaves no      *)
(* connection open behind it.  An orderly end leaves none open at all.       *)
(* (Those whose own close() raised are not counted as open: nobody tries     *)
(* again.)                                                                  *)
AttachedIsOpen ==
  /\ run = "serving" => \A s \in Stores : s \in attached <=> handle[s] = "open"
  /\ run = "exited" => \A s \in Stores : handle[s] # "open"

(* Every request is answered or the process ends: no handler's error, no     *)
(* refusal and no degraded store takes the lock along with it.              *)
Answered == \A t \in Threads : place[t] = "waiting" ~> (place[t] = "idle" \/ ~Alive)

(* SERVICE_OPERATIONS section 9: every store connection is closed on exit.   *)
ExitClosesStores == run \in {"exited", "killed"} => \A s \in Stores : handle[s] # "open"

(* app.py: two threads never touch one connection at the same time.  The     *)
(* main thread is one of them.                                              *)
NoConnectionIsShared ==
  [][\A t \in Threads, s \in Stores : ~(s \in needs[t] /\ handle[s] = "open" /\ handle'[s] = "closed")]_vars
=============================================================================
