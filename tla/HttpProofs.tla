----------------------------- MODULE HttpProofs -----------------------------
(***************************************************************************)
(* For any connections and any number of requests on each: the handles of    *)
(* the HTTP process go with its attributes, an orderly end leaves none open,  *)
(* and the dispatch lock lets one handler work at a time and is held by      *)
(* nobody who is not at work.                                               *)
(***************************************************************************)
EXTENDS HttpService, TLAPS

(* Until the main thread closes the service, exactly what is attached is     *)
(* open; and whatever is open, close() finds.                               *)
HandlesInv ==
  /\ run \notin {"shutdown", "exited", "killed"} => \A s \in Stores : s \in attached <=> handle[s] = "open"
  /\ \A s \in Stores : handle[s] = "open" => s \in Closes
  /\ run = "exited" => \A s \in Stores : handle[s] # "open"

(* The with statement of dispatch(): who handles a request holds the lock,   *)
(* alone, and nobody else does.                                             *)
Serialised ==
  /\ lock = {t \in Threads : place[t] = "handling"}
  /\ \A t, u \in Threads : place[t] = "handling" /\ place[u] = "handling" => t = u

(* Between requests a thread owes the stores nothing, and in one it uses only *)
(* those of its route.                                                      *)
NeedsInv ==
  \A t \in Threads :
    /\ place[t] # "handling" => needs[t] = {}
    /\ needs[t] \subseteq Uses[route[t]]

HttpInv == TypeOK /\ HandlesInv /\ Serialised /\ NeedsInv

-----------------------------------------------------------------------------

LEMMA UsesType == Uses \in [Routes -> SUBSET Stores]
  BY DEF Uses, Routes, Stores

LEMMA InitHttpInv == Init => HttpInv
  <1>. SUFFICES ASSUME Init PROVE HttpInv
    OBVIOUS
  <1>1. TypeOK
    <2>1. "health" \in Routes
      BY DEF Routes, Uses
    <2>. QED
      BY <2>1, HttpAssumption DEF Init, TypeOK
  <1>2. HandlesInv
    BY DEF Init, HandlesInv
  <1>3. Serialised /\ NeedsInv
    BY DEF Init, Serialised, NeedsInv
  <1>. QED
    BY <1>1, <1>2, <1>3 DEF HttpInv

(* The main thread: it does not touch the lock, nor a thread the handles. *)
LEMMA MainInv ==
  ASSUME HttpInv, Boot \/ Stop \/ Interrupt \/ Terminate
  PROVE  HttpInv'
  <1>. USE DEF HttpInv
  <1>0. UNCHANGED threadVars
    BY DEF Boot, Stop, OpenVector, OpenGraph, StoresFail, OpenQueue, QueueFails, Exit, CloseOne,
           Interrupt, Terminate
  <1>1. Serialised' /\ NeedsInv'
    BY <1>0 DEF Serialised, NeedsInv, threadVars, Uses
  <1>2. ASSUME NEW s \in Stores, Opened(s), run \in {"vector", "graph", "queue"},
               run' \in {"graph", "queue", "serving"}
        PROVE  TypeOK' /\ HandlesInv'
    <2>1. TypeOK'
      BY <1>0, <1>2 DEF TypeOK, Opened, threadVars, Routes, Uses
    <2>2. HandlesInv'
      BY <1>2 DEF TypeOK, HandlesInv, Opened, Closes
    <2>. QED
      BY <2>1, <2>2
  <1>3. CASE OpenVector \/ OpenGraph \/ OpenQueue
    BY <1>1, <1>2, <1>3 DEF OpenVector, OpenGraph, OpenQueue, Stores
  <1>4. CASE StoresFail
    <2>1. TypeOK'
      BY <1>0, <1>4 DEF TypeOK, StoresFail, threadVars, Routes, Uses
    <2>2. HandlesInv'
      BY <1>4 DEF TypeOK, HandlesInv, StoresFail, Closes
    <2>. QED
      BY <1>1, <2>1, <2>2
  <1>5. CASE QueueFails \/ Interrupt \/ Terminate
    <2>1. TypeOK'
      BY <1>0, <1>5 DEF TypeOK, QueueFails, Interrupt, Terminate, threadVars, Routes, Uses
    <2>2. HandlesInv'
      BY <1>5 DEF TypeOK, HandlesInv, QueueFails, Interrupt, Terminate, Closes
    <2>. QED
      BY <1>1, <2>1, <2>2
  <1>6. ASSUME NEW s \in Stores, CloseOne(s)
        PROVE  HttpInv'
    <2>1. TypeOK'
      BY <1>0, <1>6 DEF TypeOK, CloseOne, threadVars, Routes, Uses
    <2>2. HandlesInv'
      BY <1>6 DEF TypeOK, HandlesInv, CloseOne, Closes
    <2>. QED
      BY <1>1, <2>1, <2>2
  <1>7. CASE Exit
    <2>1. TypeOK'
      BY <1>0, <1>7 DEF TypeOK, Exit, threadVars, Routes, Uses
    <2>2. HandlesInv'
      BY <1>7 DEF TypeOK, HandlesInv, Exit, Closes
    <2>. QED
      BY <1>1, <2>1, <2>2
  <1>. QED
    BY <1>3, <1>4, <1>5, <1>6, <1>7 DEF Boot, Stop

LEMMA SameHandles ==
  ASSUME HttpInv, UNCHANGED mainVars
  PROVE  HandlesInv'
  BY DEF HttpInv, HandlesInv, mainVars, Closes, Stores

LEMMA RequestInv ==
  ASSUME HttpInv, NEW t \in Threads, NEW r \in Routes, Request(t, r)
  PROVE  HttpInv'
  <1>. USE DEF HttpInv
  <1>1. TypeOK'
    BY HttpAssumption DEF TypeOK, Request, mainVars, Routes, Uses
  <1>2. Serialised'
    BY DEF TypeOK, Serialised, Request
  <1>3. NeedsInv'
    BY DEF TypeOK, NeedsInv, Request, Uses
  <1>. QED
    BY <1>1, <1>2, <1>3, SameHandles DEF Request

LEMMA RejectBodyInv ==
  ASSUME HttpInv, NEW t \in Threads, RejectBody(t)
  PROVE  HttpInv'
  <1>. USE DEF HttpInv
  <1>1. TypeOK'
    BY HttpAssumption DEF TypeOK, RejectBody, mainVars, Routes, Uses, Statuses
  <1>2. Serialised' /\ NeedsInv'
    BY DEF Serialised, NeedsInv, RejectBody, Uses
  <1>. QED
    BY <1>1, <1>2, SameHandles DEF RejectBody

LEMMA AcquireInv ==
  ASSUME HttpInv, NEW t \in Threads, Acquire(t)
  PROVE  HttpInv'
  <1>. USE DEF HttpInv
  <1>1. Uses[route[t]] \in SUBSET Stores
    BY UsesType DEF TypeOK
  <1>2. TypeOK'
    BY <1>1 DEF TypeOK, Acquire, mainVars, Routes, Uses
  <1>3. Serialised'
    BY DEF TypeOK, Serialised, Acquire
  <1>4. NeedsInv'
    BY DEF TypeOK, NeedsInv, Acquire, Uses
  <1>. QED
    BY <1>2, <1>3, <1>4, SameHandles DEF Acquire

LEMMA UseInv ==
  ASSUME HttpInv, NEW t \in Threads, NEW s \in Stores, Use(t, s)
  PROVE  HttpInv'
  <1>. USE DEF HttpInv
  <1>1. TypeOK'
    BY DEF TypeOK, Use, mainVars, Routes, Uses
  <1>2. Serialised'
    BY DEF TypeOK, Serialised, Use
  <1>3. NeedsInv'
    BY DEF TypeOK, NeedsInv, Use, Uses
  <1>. QED
    BY <1>1, <1>2, <1>3, SameHandles DEF Use

(* Every way out of a handler goes through the end of the with statement. *)
LEMMA ReplyInv ==
  ASSUME HttpInv, NEW t \in Threads, place[t] = "handling", NEW status \in Statuses, Reply(t, status)
  PROVE  HttpInv'
  <1>. USE DEF HttpInv
  <1>1. TypeOK'
    BY DEF TypeOK, Reply, mainVars, Routes, Uses, Statuses
  <1>2. Serialised'
    BY DEF TypeOK, Serialised, Reply
  <1>3. NeedsInv'
    BY DEF TypeOK, NeedsInv, Reply, Uses
  <1>. QED
    BY <1>1, <1>2, <1>3, SameHandles DEF Reply

LEMMA NextHttpInv == HttpInv /\ [Next]_vars => HttpInv'
  <1>. SUFFICES ASSUME HttpInv, [Next]_vars
                PROVE  HttpInv'
    OBVIOUS
  <1>1. CASE Boot \/ Stop \/ Interrupt \/ Terminate
    BY <1>1, MainInv
  <1>2. ASSUME NEW t \in Threads, NEW r \in Routes, Request(t, r)
        PROVE  HttpInv'
    BY <1>2, RequestInv
  <1>5. ASSUME NEW t \in Threads, RejectBody(t)
        PROVE  HttpInv'
    BY <1>5, RejectBodyInv
  <1>3. ASSUME NEW t \in Threads, Step(t)
        PROVE  HttpInv'
    <2>1. CASE Acquire(t)
      BY <2>1, AcquireInv
    <2>0. {200, 202, 400, 409, 503} \subseteq Statuses /\ Errors[route[t]] \subseteq Statuses
      <3>1. route[t] \in Routes
        BY DEF HttpInv, TypeOK
      <3>. QED
        BY <3>1 DEF Statuses, Errors, Routes, Uses
    <2>2. CASE Reject(t) \/ Refuse(t)
      BY <2>0, <2>2, ReplyInv DEF Reject, Refuse
    <2>3. CASE Finish(t) \/ LookUpRaises(t)
      BY <2>0, <2>3, ReplyInv DEF Finish, LookUpRaises
    <2>4. ASSUME NEW s \in Stores, Use(t, s)
          PROVE  HttpInv'
      BY <2>4, UseInv
    <2>5. ASSUME NEW s \in Stores, UseRaises(t, s)
          PROVE  HttpInv'
      <3>1. place[t] = "handling" /\ \E status \in Statuses : Reply(t, status)
        BY <2>0, <2>5 DEF UseRaises
      <3>. QED
        BY <3>1, ReplyInv
    <2>. QED
      BY <1>3, <2>1, <2>2, <2>3, <2>4, <2>5 DEF Step
  <1>4. CASE UNCHANGED vars
    <2>1. TypeOK'
      BY <1>4 DEF HttpInv, TypeOK, vars, mainVars, threadVars, Routes, Uses
    <2>2. Serialised' /\ NeedsInv'
      BY <1>4 DEF HttpInv, Serialised, NeedsInv, vars, threadVars, Uses
    <2>. QED
      BY <1>4, <2>1, <2>2, SameHandles DEF HttpInv, vars
  <1>. QED
    BY <1>1, <1>2, <1>3, <1>4, <1>5 DEF Next

-----------------------------------------------------------------------------
(* Theorems *)

(* The lock of dispatch(), the handles of CortexService and what the main     *)
(* thread does with them keep the invariant, at every boot and shutdown.     *)
THEOREM HttpSafety == Spec => []HttpInv
  BY InitHttpInv, NextHttpInv, PTL DEF Spec

(* Every variable stays in its type. *)
THEOREM TypeCorrect == Spec => []TypeOK
  <1>1. HttpInv => TypeOK
    BY DEF HttpInv
  <1>. QED
    BY <1>1, HttpSafety, PTL

(* CortexService: a handle is open exactly while its attribute is there, for  *)
(* every outcome of a boot, and an orderly end has closed all of them, but   *)
(* for one whose own close() raised.                                        *)
THEOREM AttachedIsOpenAlways == Spec => []AttachedIsOpen
  <1>1. HttpInv => AttachedIsOpen
    BY DEF HttpInv, HandlesInv, AttachedIsOpen
  <1>. QED
    BY <1>1, HttpSafety, PTL

(* dispatch(): no two handlers are at work at a time, and a thread that does  *)
(* not handle a request holds no lock, whichever way its last one ended.     *)
THEOREM SerialisedAlways == Spec => []Serialised
  <1>1. HttpInv => Serialised
    BY DEF HttpInv
  <1>. QED
    BY <1>1, HttpSafety, PTL
=============================================================================
