---------------------------- MODULE GraphProofs ----------------------------
(***************************************************************************)
(* That no edge dangles and no project is shown another's, for any writers, *)
(* labels, jobs and projects: with curators among the writers, whose runs   *)
(* start and end at any point, over any messages and exports.  And that a   *)
(* run which ends has stored all that it read, and read all that a complete *)
(* export held of what was said.                                            *)
(***************************************************************************)
EXTENDS ConversationIngest, SequenceTheorems, WellFoundedInduction, TLAPS

(* A writer that is past a node finds it there: nothing removes nodes.       *)
WriterInv ==
  \A w \in Writers :
    /\ pc[w] # "idle" => job[w] \in Jobs
    /\ pc[w] \in {"target", "edge", "select"} => Source[job[w]] \in nodes
    /\ pc[w] \in {"edge", "select"} => Target[job[w]] \in nodes

(* A row holds the triple of a job that was recorded, and what was recorded   *)
(* has a row.                                                               *)
RowInv ==
  /\ \A t \in Triples : edges[t] # NoJob => edges[t] \in recorded /\ Triple(edges[t]) = t
  /\ \A j \in recorded : edges[Triple(j)] # NoJob

(* Inductive: what keeps an edge from dangling, and makes it its project's. *)
GraphInv == TypeOK /\ WriterInv /\ RowInv /\ EdgesHaveEnds

-----------------------------------------------------------------------------

LEMMA InitGraphInv == Init => GraphInv
  <1>1. Init => TypeOK
    BY DEF Init, TypeOK
  <1>2. Init => WriterInv
    BY DEF Init, WriterInv
  <1>3. Init => EdgesHaveEnds
    BY DEF Init, EdgesHaveEnds
  <1>4. Init => RowInv
    BY DEF Init, RowInv
  <1>. QED
    BY <1>1, <1>2, <1>3, <1>4 DEF GraphInv

LEMMA BeginInv ==
  ASSUME GraphInv, NEW w \in Writers, NEW j \in Jobs, Begin(w, j)
  PROVE  GraphInv'
  <1>1. TypeOK'
    BY DEF GraphInv, TypeOK, Begin
  <1>2. WriterInv'
    BY DEF GraphInv, TypeOK, WriterInv, Begin
  <1>3. EdgesHaveEnds'
    BY DEF GraphInv, EdgesHaveEnds, Begin
  <1>5. RowInv'
    BY DEF GraphInv, RowInv, Triple, Begin
  <1>. QED
    BY <1>1, <1>2, <1>3, <1>5 DEF GraphInv

LEMMA AddSourceInv ==
  ASSUME GraphInv, NEW w \in Writers, AddSource(w)
  PROVE  GraphInv'
  <1>1. job[w] \in Jobs /\ Source[job[w]] \in Labels
    BY GraphAssumption DEF GraphInv, WriterInv, AddSource
  <1>2. TypeOK'
    BY <1>1 DEF GraphInv, TypeOK, AddSource, AddNode
  <1>3. WriterInv'
    BY DEF GraphInv, TypeOK, WriterInv, AddSource, AddNode
  <1>4. EdgesHaveEnds'
    BY DEF GraphInv, EdgesHaveEnds, AddSource, AddNode
  <1>5. RowInv'
    BY DEF GraphInv, RowInv, Triple, AddSource
  <1>. QED
    BY <1>2, <1>3, <1>4, <1>5 DEF GraphInv

LEMMA AddTargetInv ==
  ASSUME GraphInv, NEW w \in Writers, AddTarget(w)
  PROVE  GraphInv'
  <1>1. job[w] \in Jobs /\ Target[job[w]] \in Labels
    BY GraphAssumption DEF GraphInv, WriterInv, AddTarget
  <1>2. TypeOK'
    BY <1>1 DEF GraphInv, TypeOK, AddTarget, AddNode
  <1>3. WriterInv'
    BY DEF GraphInv, TypeOK, WriterInv, AddTarget, AddNode
  <1>4. EdgesHaveEnds'
    BY DEF GraphInv, EdgesHaveEnds, AddTarget, AddNode
  <1>5. RowInv'
    BY DEF GraphInv, RowInv, Triple, AddTarget
  <1>. QED
    BY <1>2, <1>3, <1>4, <1>5 DEF GraphInv

(* The edge is the last of the three commits. *)
LEMMA InsertEdgeInv ==
  ASSUME GraphInv, NEW w \in Writers, InsertEdge(w)
  PROVE  GraphInv'
  <1>1. /\ job[w] \in Jobs
        /\ Triple(job[w]) \in Triples
        /\ {Source[job[w]], Target[job[w]]} \subseteq nodes
    BY GraphAssumption DEF GraphInv, WriterInv, InsertEdge, Triple, Triples
  <1>2. TypeOK'
    BY <1>1 DEF GraphInv, TypeOK, InsertEdge
  <1>3. WriterInv'
    BY DEF GraphInv, TypeOK, WriterInv, InsertEdge
  <1>4. EdgesHaveEnds'
    <2>. SUFFICES ASSUME NEW t \in Triples, edges'[t] # NoJob
                  PROVE  {t[1], t[2]} \subseteq nodes
      BY DEF EdgesHaveEnds, InsertEdge
    <2>1. CASE t = Triple(job[w])
      BY <2>1, <1>1 DEF Triple
    <2>2. CASE t # Triple(job[w])
      <3>1. edges[t] # NoJob
        BY <2>2 DEF GraphInv, TypeOK, InsertEdge
      <3>. QED
        BY <3>1 DEF GraphInv, EdgesHaveEnds
    <2>. QED
      BY <2>1, <2>2
  <1>5. RowInv'
    <2>. DEFINE u == Triple(job[w])
    <2>1. /\ recorded' = recorded \cup {job[w]} /\ job[w] # NoJob
          /\ edges' = IF edges[u] = NoJob THEN [edges EXCEPT ![u] = job[w]] ELSE edges
      BY <1>1, GraphAssumption DEF InsertEdge
    <2>2. \A t \in Triples : edges'[t] = IF t = u /\ edges[u] = NoJob THEN job[w] ELSE edges[t]
      BY <1>1, <2>1 DEF GraphInv, TypeOK
    <2>3. \A j \in recorded' : Triple(j) \in Triples
      BY <1>1, <2>1, GraphAssumption DEF GraphInv, TypeOK, Triple, Triples
    <2>4. \A j : Triple(j)' = Triple(j)
      BY DEF Triple
    <2>5. ASSUME NEW t \in Triples, edges'[t] # NoJob
          PROVE  edges'[t] \in recorded' /\ Triple(edges'[t]) = t
      BY <2>1, <2>2, <2>5 DEF GraphInv, RowInv
    <2>6. ASSUME NEW j \in recorded'
          PROVE  edges'[Triple(j)] # NoJob
      BY <2>1, <2>2, <2>3, <2>6 DEF GraphInv, RowInv
    <2>. QED
      BY <2>4, <2>5, <2>6 DEF RowInv
  <1>. QED
    BY <1>2, <1>3, <1>4, <1>5 DEF GraphInv

(* The two ways a writer leaves add_edge(). *)
LEMMA LeaveInv ==
  ASSUME GraphInv, NEW w \in Writers, SelectEdge(w) \/ Abandon(w)
  PROVE  GraphInv'
  <1>. USE DEF SelectEdge, Abandon
  <1>1. TypeOK'
    BY DEF GraphInv, TypeOK
  <1>2. WriterInv'
    BY DEF GraphInv, TypeOK, WriterInv
  <1>3. EdgesHaveEnds'
    BY DEF GraphInv, EdgesHaveEnds
  <1>5. RowInv'
    BY DEF GraphInv, RowInv, Triple
  <1>. QED
    BY <1>1, <1>2, <1>3, <1>5 DEF GraphInv

LEMMA StutterInv == GraphInv /\ UNCHANGED vars => GraphInv'
  BY DEF GraphInv, TypeOK, WriterInv, RowInv, EdgesHaveEnds, vars, Triples, Triple

-----------------------------------------------------------------------------

(* Every step of the composition is a step of a writer in the graph, or     *)
(* leaves the graph alone.                                                  *)
LEMMA NextGraphInv == GraphInv /\ [CINext]_ciVars => GraphInv'
  <1>. SUFFICES ASSUME GraphInv, [CINext]_ciVars
                PROVE  GraphInv'
    OBVIOUS
  <1>1. CASE Export
    BY <1>1, StutterInv DEF Export
  <1>2. ASSUME NEW w \in Writers, CommitStep(w)
        PROVE  GraphInv'
    BY <1>2, AddSourceInv, AddTargetInv, InsertEdgeInv DEF CommitStep
  <1>3. ASSUME NEW w \in Writers \ Curators, WorkerStep(w)
        PROVE  GraphInv'
    BY <1>3, BeginInv, LeaveInv DEF WorkerStep, Artefacts
  <1>4. ASSUME NEW c \in Curators,
               ReadLog(c) \/ StoreRow(c) \/ StoreConcept(c) \/ FinishLog(c)
        PROVE  GraphInv'
    BY <1>4, StutterInv DEF ReadLog, StoreRow, StoreConcept, FinishLog
  <1>5. ASSUME NEW c \in Curators, BeginRelation(c) \/ EndRelation(c) \/ AbandonLog(c)
        PROVE  GraphInv'
    <2>. c \in Writers
      BY CuratorAssumption
    <2>1. CASE BeginRelation(c)
      BY <2>1, BeginInv DEF BeginRelation
    <2>2. CASE EndRelation(c)
      BY <2>2, LeaveInv DEF EndRelation
    <2>3. CASE AbandonLog(c)
      BY <2>3, LeaveInv, StutterInv DEF AbandonLog
    <2>. QED
      BY <1>5, <2>1, <2>2, <2>3
  <1>6. CASE UNCHANGED ciVars
    BY <1>6, StutterInv DEF ciVars
  <1>. QED
    BY <1>1, <1>2, <1>3, <1>4, <1>5, <1>6 DEF CINext

(* The inductive invariant, of the worker and the curators together. *)
THEOREM GraphSafety == CISpec => []GraphInv
  <1>1. CIInit => GraphInv
    BY InitGraphInv DEF CIInit
  <1>. QED
    BY <1>1, NextGraphInv, PTL DEF CISpec

(* graph_store.py, add_edge(): whoever dies between two of its commits, the *)
(* query's join sees every edge that is stored.                             *)
THEOREM NoEdgeDangles == CISpec => []EdgesHaveEnds
  <1>1. GraphInv => EdgesHaveEnds
    BY DEF GraphInv
  <1>. QED
    BY <1>1, GraphSafety, PTL

(* graph_store.py, query() and related(): a project is shown what was         *)
(* recorded for it or for none and nothing else, and misses only triples     *)
(* that another project recorded too (UNIQUE(src, dst, rel)).                *)
THEOREM ProjectsSeeTheirOwn == CISpec => []ShownIsOwn
  <1>1. ASSUME GraphInv, NEW p \in Projects
        PROVE  /\ QueryEdges(p) \subseteq RecordedFor({p, NoProject})
               /\ RecordedFor({p, NoProject}) \ QueryEdges(p) \subseteq RecordedFor(Projects \ {p})
               /\ \A l \in Labels : Related(l, p) \subseteq QueryEdges(p) \cap RecordedFor({p})
    <2>1. ASSUME NEW t \in Triples, edges[t] # NoJob
          PROVE  /\ edges[t] \in recorded /\ edges[t] \in Jobs /\ Triple(edges[t]) = t
                 /\ Project[edges[t]] \in Projects \cup {NoProject}
                 /\ t[1] \in nodes /\ t[2] \in nodes
                 /\ \A S : Project[edges[t]] \in S => t \in RecordedFor(S)
      <3>1. edges[t] \in recorded /\ edges[t] \in Jobs /\ Triple(edges[t]) = t /\ {t[1], t[2]} \subseteq nodes
        BY <1>1, <2>1 DEF GraphInv, TypeOK, RowInv, EdgesHaveEnds
      <3>. QED
        BY <3>1, GraphAssumption DEF RecordedFor
    <2>2. QueryEdges(p) \subseteq RecordedFor({p, NoProject})
      BY <2>1 DEF QueryEdges
    <2>3. ASSUME NEW t \in RecordedFor({p, NoProject}), t \notin QueryEdges(p)
          PROVE  t \in RecordedFor(Projects \ {p})
      <3>1. PICK j \in recorded : t = Triple(j)
        BY <2>3 DEF RecordedFor
      <3>2. t \in Triples /\ edges[t] # NoJob
        BY <1>1, <3>1, GraphAssumption DEF GraphInv, TypeOK, RowInv, Triple, Triples
      <3>3. Project[edges[t]] \notin {p, NoProject}
        BY <2>1, <2>3, <3>2 DEF QueryEdges
      <3>. QED
        BY <2>1, <3>2, <3>3
    <2>4. ASSUME NEW l \in Labels, NEW t \in Related(l, p)
          PROVE  t \in QueryEdges(p) /\ t \in RecordedFor({p})
      <3>1. t \in Triples /\ edges[t] # NoJob /\ Project[edges[t]] = p
        BY <2>4 DEF Related
      <3>. QED
        BY <2>1, <3>1 DEF QueryEdges
    <2>. QED
      BY <2>2, <2>3, <2>4
  <1>2. GraphInv => ShownIsOwn
    BY <1>1 DEF ShownIsOwn
  <1>. QED
    BY <1>2, GraphSafety, PTL
-----------------------------------------------------------------------------
(* Sequences: Concat is a recursion over its parts *)

(* Induction up to n, over a set. *)
LEMMA UpTo ==
  ASSUME NEW n \in Nat, NEW T, 0 \in T, \A k \in 1..n : k - 1 \in T => k \in T
  PROVE  \A k \in 0..n : k \in T
  <1>. DEFINE less == OpToRel(<, Nat)
              rest == {k \in 0..n : k \notin T}
  <1>1. SUFFICES ASSUME rest # {} PROVE FALSE
    OBVIOUS
  <1>2. IsWellFoundedOn(less, Nat)
    BY NatLessThanWellFounded
  <1>3. rest \subseteq Nat
    OBVIOUS
  <1>4. \A k \in Nat \ {0} : <<k - 1, k>> \in less
    BY DEF OpToRel
  <1>. HIDE DEF less, rest
  <1>5. PICK k \in rest : \A j \in rest : ~ (<<j, k>> \in less)
    BY <1>1, <1>2, <1>3, WFMin
  <1>6. k \in Nat \ {0} /\ k \in 1..n /\ k \notin T
    BY <1>5 DEF rest
  <1>7. k - 1 \in rest
    BY <1>6 DEF rest
  <1>8. <<k - 1, k>> \in less
    BY <1>4, <1>6
  <1>. QED
    BY <1>5, <1>7, <1>8

(* Every element of s is one of u. *)
Within(s, u) == \A j \in 1..Len(s) : \E k \in 1..Len(u) : u[k] = s[j]

LEMMA WithinTrans ==
  ASSUME NEW s, NEW t, NEW u, Within(s, t), Within(t, u)
  PROVE  Within(s, u)
  BY DEF Within

LEMMA WithinSelf ==
  ASSUME NEW s
  PROVE  Within(s, s)
  BY DEF Within

LEMMA Joined ==
  ASSUME NEW S, NEW s \in Seq(S), NEW t \in Seq(S)
  PROVE  s \o t \in Seq(S) /\ Within(s, s \o t) /\ Within(t, s \o t)
  <1>. DEFINE u == s \o t
  <1>1. /\ u \in Seq(S) /\ Len(u) = Len(s) + Len(t)
        /\ \A j \in 1..Len(s) + Len(t) : u[j] = IF j <= Len(s) THEN s[j] ELSE t[j - Len(s)]
    BY ConcatProperties
  <1>2. Len(s) \in Nat /\ Len(t) \in Nat
    OBVIOUS
  <1>. HIDE DEF u
  <1>3. ASSUME NEW j \in 1..Len(s)
        PROVE  \E k \in 1..Len(u) : u[k] = s[j]
    <2>1. j \in 1..Len(u) /\ u[j] = s[j]
      BY <1>1, <1>2
    <2>. QED
      BY <2>1
  <1>4. ASSUME NEW j \in 1..Len(t)
        PROVE  \E k \in 1..Len(u) : u[k] = t[j]
    <2>1. /\ Len(s) + j \in 1..Len(s) + Len(t)
          /\ ~(Len(s) + j <= Len(s)) /\ (Len(s) + j) - Len(s) = j
      BY <1>2
    <2>2. Len(s) + j \in 1..Len(u) /\ u[Len(s) + j] = t[j]
      BY <1>1, <2>1
    <2>. QED
      BY <2>2
  <1>5. u \in Seq(S) /\ Within(s, u) /\ Within(t, u)
    BY <1>1, <1>3, <1>4 DEF Within
  <1>. QED
    BY <1>5 DEF u

PartsIn(parts, n, S) == \A k \in 1..n : parts[k] \in Seq(S)

(* What Concat's inner function is. *)
Accumulates(f, parts, n) == f[0] = << >> /\ \A k \in 1..n : f[k] = f[k - 1] \o parts[k]

(* It exists: each step of the recursion extends the function so far. *)
LEMMA Accumulator ==
  ASSUME NEW S, NEW parts, NEW n \in Nat, PartsIn(parts, n, S)
  PROVE  \E f \in [0..n -> Seq(S)] : Accumulates(f, parts, n)
  <1>. DEFINE T == {m \in 0..n : \E f \in [0..n -> Seq(S)] : Accumulates(f, parts, m)}
  <1>1. 0 \in T
    <2>. DEFINE f == [k \in 0..n |-> << >>]
    <2>1. << >> \in Seq(S)
      OBVIOUS
    <2>2. f \in [0..n -> Seq(S)] /\ f[0] = << >>
      BY <2>1
    <2>. HIDE DEF f
    <2>3. Accumulates(f, parts, 0)
      BY <2>2 DEF Accumulates
    <2>. QED
      BY <2>2, <2>3
  <1>2. ASSUME NEW m \in 1..n, m - 1 \in T
        PROVE  m \in T
    <2>1. PICK f \in [0..n -> Seq(S)] : Accumulates(f, parts, m - 1)
      BY <1>2
    <2>. DEFINE longer == f[m - 1] \o parts[m]
                g == [f EXCEPT ![m] = longer]
    <2>2. f[m - 1] \in Seq(S) /\ parts[m] \in Seq(S)
      BY DEF PartsIn
    <2>3. longer \in Seq(S)
      BY <2>2
    <2>. HIDE DEF longer
    <2>4. /\ g \in [0..n -> Seq(S)] /\ g[m] = longer
          /\ \A k \in 0..m - 1 : g[k] = f[k]
      BY <2>3
    <2>. HIDE DEF g
    <2>5. Accumulates(g, parts, m)
      <3>1. g[0] = << >>
        BY <2>1, <2>4 DEF Accumulates
      <3>2. ASSUME NEW k \in 1..m
            PROVE  g[k] = g[k - 1] \o parts[k]
        <4>1. CASE k = m
          <5>1. g[k - 1] = f[m - 1]
            BY <2>4, <4>1
          <5>. QED
            BY <2>4, <4>1, <5>1 DEF longer
        <4>2. CASE k # m
          <5>1. k \in 1..m - 1 /\ k \in 0..m - 1 /\ k - 1 \in 0..m - 1
            BY <4>2
          <5>2. g[k] = f[k] /\ g[k - 1] = f[k - 1]
            BY <2>4, <5>1
          <5>3. f[k] = f[k - 1] \o parts[k]
            BY <2>1, <5>1 DEF Accumulates
          <5>. QED
            BY <5>2, <5>3
        <4>. QED
          BY <4>1, <4>2
      <3>. QED
        BY <3>1, <3>2 DEF Accumulates
    <2>. QED
      BY <2>4, <2>5
  <1>3. \A m \in 1..n : m - 1 \in T => m \in T
    BY <1>2
  <1>. HIDE DEF T
  <1>4. \A m \in 0..n : m \in T
    BY <1>1, <1>3, UpTo
  <1>. QED
    BY <1>4 DEF T

LEMMA AccumulatesAll ==
  ASSUME NEW S, NEW parts, NEW n \in Nat, PartsIn(parts, n, S),
         NEW f, Accumulates(f, parts, n)
  PROVE  f[n] \in Seq(S) /\ \A k \in 1..n : Within(parts[k], f[n])
  <1>1. f[0] = << >>
    BY DEF Accumulates
  <1>2. \A k \in 1..n : f[k] = f[k - 1] \o parts[k] /\ parts[k] \in Seq(S)
    BY DEF Accumulates, PartsIn
  <1>3. \A m \in 0..n : f[m] \in Seq(S)
    <2>. DEFINE T == {m \in 0..n : f[m] \in Seq(S)}
    <2>1. 0 \in T
      <3>1. << >> \in Seq(S)
        OBVIOUS
      <3>2. f[0] \in Seq(S)
        BY <1>1, <3>1
      <3>. QED
        BY <3>2
    <2>2. ASSUME NEW m \in 1..n, m - 1 \in T
          PROVE  m \in T
      <3>1. f[m - 1] \o parts[m] \in Seq(S)
        BY <1>2, <2>2, ConcatProperties
      <3>2. f[m] \in Seq(S)
        BY <1>2, <3>1
      <3>3. m \in 0..n
        OBVIOUS
      <3>. QED
        BY <3>2, <3>3
    <2>3. \A m \in 1..n : m - 1 \in T => m \in T
      BY <2>2
    <2>. HIDE DEF T
    <2>4. \A m \in 0..n : m \in T
      BY <2>1, <2>3, UpTo
    <2>. QED
      BY <2>4 DEF T
  <1>4. ASSUME NEW m \in 1..n
        PROVE  Within(f[m - 1], f[m]) /\ Within(parts[m], f[m])
    <2>1. m - 1 \in 0..n
      OBVIOUS
    <2>2. f[m - 1] \in Seq(S) /\ parts[m] \in Seq(S) /\ f[m] = f[m - 1] \o parts[m]
      BY <1>2, <1>3, <2>1
    <2>. QED
      BY <2>2, Joined
  <1>5. ASSUME NEW k \in 1..n
        PROVE  Within(parts[k], f[n])
    <2>. DEFINE T == {m \in 0..n : m < k \/ Within(parts[k], f[m])}
    <2>1. 0 \in T
      OBVIOUS
    <2>2. ASSUME NEW m \in 1..n, m - 1 \in T
          PROVE  m \in T
      <3>1. CASE m < k
        BY <3>1
      <3>2. CASE m = k
        BY <1>4, <3>2
      <3>3. CASE m > k
        <4>1. Within(parts[k], f[m - 1]) /\ Within(f[m - 1], f[m])
          BY <1>4, <2>2, <3>3
        <4>. QED
          BY <4>1, WithinTrans
      <3>. QED
        BY <3>1, <3>2, <3>3
    <2>3. \A m \in 1..n : m - 1 \in T => m \in T
      BY <2>2
    <2>. HIDE DEF T
    <2>4. \A m \in 0..n : m \in T
      BY <2>1, <2>3, UpTo
    <2>. QED
      BY <2>4 DEF T
  <1>6. n \in 0..n
    OBVIOUS
  <1>. QED
    BY <1>3, <1>5, <1>6

(* Concat is a sequence of what its parts are sequences of, and drops none. *)
LEMMA ConcatHolds ==
  ASSUME NEW S, NEW parts \in Seq(Seq(S))
  PROVE  /\ Concat(parts) \in Seq(S)
         /\ \A k \in 1..Len(parts) : Within(parts[k], Concat(parts))
  <1>. DEFINE n == Len(parts)
              Step(f, k) == IF k = 0 THEN << >> ELSE f[k - 1] \o parts[k]
  <1>1. n \in Nat /\ PartsIn(parts, n, S)
    BY DEF PartsIn
  <1>. HIDE DEF n
  <1>2. PICK f \in [0..n -> Seq(S)] : Accumulates(f, parts, n)
    BY <1>1, Accumulator
  <1>3. \A k \in 0..n : f[k] = Step(f, k)
    <2>1. f[0] = << >> /\ \A k \in 1..n : f[k] = f[k - 1] \o parts[k]
      BY <1>2 DEF Accumulates
    <2>2. ASSUME NEW k \in 0..n, k # 0
          PROVE  f[k] = f[k - 1] \o parts[k]
      <3>1. k \in 1..n
        BY <1>1, <2>2
      <3>. QED
        BY <2>1, <3>1
    <2>. QED
      BY <2>1, <2>2
  <1>. DEFINE upTo == CHOOSE g : g = [k \in 0..n |-> Step(g, k)]
  <1>4. f = [k \in 0..n |-> Step(f, k)]
    <2>. HIDE DEF Step
    <2>. QED
      BY <1>3
  <1>5. upTo = [k \in 0..n |-> Step(upTo, k)]
    BY <1>4
  <1>6. Concat(parts) = upTo[n]
    BY DEF Concat, n
  <1>. HIDE DEF upTo
  <1>7. \A k \in 0..n : upTo[k] = Step(upTo, k)
    <2>. HIDE DEF Step
    <2>. QED
      BY <1>5
  <1>8. Accumulates(upTo, parts, n)
    <2>1. 0 \in 0..n
      BY <1>1
    <2>2. ASSUME NEW k \in 1..n
          PROVE  upTo[k] = upTo[k - 1] \o parts[k]
      <3>1. k \in 0..n /\ k # 0
        BY <1>1
      <3>. QED
        BY <1>7, <3>1
    <2>. QED
      BY <1>7, <2>1, <2>2 DEF Accumulates
  <1>9. upTo[n] \in Seq(S) /\ \A k \in 1..n : Within(parts[k], upTo[n])
    BY <1>1, <1>8, AccumulatesAll
  <1>. QED
    BY <1>6, <1>9 DEF n

(* So does Those: it keeps what is in the set. *)
LEMMA ThoseHolds ==
  ASSUME NEW S, NEW list \in Seq(S), NEW set
  PROVE  /\ Those(list, set) \in Seq(S \cap set)
         /\ \A k \in 1..Len(list) : list[k] \in set =>
              \E j \in 1..Len(Those(list, set)) : Those(list, set)[j] = list[k]
  <1>. DEFINE parts == [k \in 1..Len(list) |-> IF list[k] \in set THEN <<list[k]>> ELSE << >>]
              kept == Concat(parts)
  <1>1. Len(list) \in Nat /\ \A k \in 1..Len(list) : list[k] \in S
    OBVIOUS
  <1>2. \A k \in 1..Len(list) : (IF list[k] \in set THEN <<list[k]>> ELSE << >>) \in Seq(S \cap set)
    <2>1. << >> \in Seq(S \cap set)
      OBVIOUS
    <2>2. ASSUME NEW k \in 1..Len(list), list[k] \in set
          PROVE  <<list[k]>> \in Seq(S \cap set)
      BY <1>1, <2>2
    <2>. QED
      BY <2>1, <2>2
  <1>3. parts \in Seq(Seq(S \cap set)) /\ Len(parts) = Len(list)
    BY <1>1, <1>2
  <1>4. ASSUME NEW k \in 1..Len(list), list[k] \in set
        PROVE  Len(parts[k]) = 1 /\ parts[k][1] = list[k]
    BY <1>4
  <1>. HIDE DEF parts
  <1>5. kept \in Seq(S \cap set) /\ \A k \in 1..Len(list) : Within(parts[k], kept)
    BY <1>3, ConcatHolds
  <1>6. Those(list, set) = kept
    BY DEF Those, parts
  <1>. HIDE DEF kept
  <1>7. ASSUME NEW k \in 1..Len(list), list[k] \in set
        PROVE  \E j \in 1..Len(kept) : kept[j] = list[k]
    <2>1. Within(parts[k], kept)
      BY <1>5
    <2>. QED
      BY <1>4, <1>7, <2>1 DEF Within
  <1>. QED
    BY <1>5, <1>6, <1>7
-----------------------------------------------------------------------------
(* What is exported *)

(* Messages with a text to keep. *)
Readable == {m \in Messages : CleanContent(m) # NoText}

(* walk() finds the first of the parts that have a text. *)
LEMMA FirstPart ==
  ASSUME NEW n \in Nat, NEW found \in SUBSET (1..n), found # {}
  PROVE  LET first == CHOOSE k \in found : \A j \in found : k <= j
         IN first \in found
  <1>. DEFINE less == OpToRel(<, Nat)
  <1>1. IsWellFoundedOn(less, Nat)
    BY NatLessThanWellFounded
  <1>2. found \subseteq Nat
    OBVIOUS
  <1>3. \A j \in Nat : \A k \in Nat : j < k => <<j, k>> \in less
    BY DEF OpToRel
  <1>. HIDE DEF less
  <1>4. PICK k \in found : \A j \in found : ~ (<<j, k>> \in less)
    BY <1>1, <1>2, WFMin
  <1>5. \A j \in found : k <= j
    <2>. SUFFICES ASSUME NEW j \in found PROVE k <= j
      OBVIOUS
    <2>1. j \in Nat /\ k \in Nat /\ ~(j < k)
      BY <1>2, <1>3, <1>4
    <2>. QED
      BY <2>1
  <1>. QED
    BY <1>5

LEMMA CleanContentType ==
  ASSUME NEW m \in Messages
  PROVE  CleanContent(m) \in Texts \cup {NoText}
  <1>. DEFINE found == {k \in 1..Len(Parts[m]) : Parts[m][k] \notin {"envelope", "unknown"}}
              first == CHOOSE k \in found : \A j \in found : k <= j
  <1>1. Raw[m] \in Texts \cup {NoText} /\ Parts[m] \in Seq(PartKinds)
    BY HermesAssumption
  <1>2. ASSUME found # {}
        PROVE  Parts[m][first] \in Texts \cup {"blank"}
    <2>1. Len(Parts[m]) \in Nat /\ found \in SUBSET (1..Len(Parts[m]))
      BY <1>1
    <2>2. first \in found
      <3>. HIDE DEF found
      <3>. QED
        BY <1>2, <2>1, FirstPart
    <2>3. Parts[m][first] \in PartKinds /\ Parts[m][first] \notin {"envelope", "unknown"}
      <3>1. first \in 1..Len(Parts[m])
        BY <2>2
      <3>. HIDE DEF first
      <3>. QED
        BY <1>1, <2>2, <3>1 DEF found
    <2>. QED
      BY <2>3 DEF PartKinds
  <1>. QED
    BY <1>1, <1>2 DEF CleanContent

(* Speech is never skipped. *)
LEMMA SpeechIsKept ==
  ASSUME NEW m \in Messages, IsSpeech(m)
  PROVE  Where(m) /\ ~Skipped(m)
  <1>. DEFINE found == {k \in 1..Len(Parts[m]) : Parts[m][k] \notin {"envelope", "unknown"}}
              first == CHOOSE k \in found : \A j \in found : k <= j
  <1>1. Raw[m] \in Texts \cup {NoText} /\ Parts[m] \in Seq(PartKinds)
    BY HermesAssumption
  <1>2. CASE m \notin Structured
    BY <1>2 DEF IsSpeech, Skipped
  <1>3. CASE m \in Structured
    <2>1. \A k \in 1..Len(Parts[m]) : Parts[m][k] \notin {"envelope", "blank"}
      BY <1>3 DEF IsSpeech
    <2>2. CASE found = {}
      <3>1. CleanContent(m) = Raw[m]
        BY <1>3, <2>1, <2>2 DEF CleanContent
      <3>. QED
        BY <1>3, <3>1, HermesAssumption DEF IsSpeech, Skipped
    <2>3. CASE found # {}
      <3>1. Len(Parts[m]) \in Nat /\ found \in SUBSET (1..Len(Parts[m]))
        BY <1>1
      <3>2. first \in found
        <4>. HIDE DEF found
        <4>. QED
          BY <2>3, <3>1, FirstPart
      <3>3. CleanContent(m) = IF Parts[m][first] = "blank" THEN NoText ELSE Parts[m][first]
        BY <1>3, <2>3 DEF CleanContent
      <3>. HIDE DEF first
      <3>4. Parts[m][first] \in PartKinds /\ Parts[m][first] \notin {"envelope", "unknown", "blank"}
        BY <1>1, <2>1, <3>2 DEF found
      <3>5. CleanContent(m) \in Texts
        BY <3>3, <3>4 DEF PartKinds
      <3>. QED
        BY <3>5, HermesAssumption DEF IsSpeech, Skipped
    <2>. QED
      BY <2>2, <2>3
  <1>. QED
    BY <1>2, <1>3

(* The lines of an export are messages with a text; without a LIMIT every     *)
(* message of its snapshot that is asked for and not skipped is among them.  *)
LEMMA WrittenHolds ==
  ASSUME NEW db \in SUBSET Messages
  PROVE  /\ Written[db] \in Seq(Readable)
         /\ ScanLimit = 0 =>
              \A m \in db : Where(m) /\ ~Skipped(m) =>
                \E k \in 1..Len(Written[db]) : Written[db][k] = m
  <1>. DEFINE asked == {m \in db : Where(m)}
              kept == {m \in Messages : ~Skipped(m)}
              list == Those(ByTime, asked)
              scanned == Scanned(db)
  <1>1. ByTime \in Seq(Messages) /\ ScanLimit \in Nat
    BY HermesAssumption
  <1>2. scanned = IF ScanLimit = 0 \/ ScanLimit > Len(list) THEN list ELSE SubSeq(list, 1, ScanLimit)
    BY DEF Scanned
  <1>3. Written[db] = Those(scanned, kept)
    BY DEF Written
  <1>4. Messages \cap kept = kept /\ kept \subseteq Readable
    BY DEF Skipped, Readable
  <1>. HIDE DEF asked, kept
  <1>5. /\ list \in Seq(Messages \cap asked)
        /\ \A k \in 1..Len(ByTime) : ByTime[k] \in asked =>
             \E j \in 1..Len(list) : list[j] = ByTime[k]
    BY <1>1, ThoseHolds
  <1>. HIDE DEF list, scanned
  <1>6. list \in Seq(Messages) /\ Len(list) \in Nat
    BY <1>5
  <1>7. scanned \in Seq(Messages)
    BY <1>1, <1>2, <1>6
  <1>8. /\ Written[db] \in Seq(kept)
        /\ \A k \in 1..Len(scanned) : scanned[k] \in kept =>
             \E j \in 1..Len(Written[db]) : Written[db][j] = scanned[k]
    BY <1>3, <1>4, <1>7, ThoseHolds
  <1>9. Written[db] \in Seq(Readable)
    BY <1>4, <1>8
  <1>10. ASSUME ScanLimit = 0, NEW m \in db, Where(m), ~Skipped(m)
         PROVE  \E k \in 1..Len(Written[db]) : Written[db][k] = m
    <2>1. m \in asked /\ m \in kept
      BY <1>10 DEF asked, kept
    <2>2. PICK k \in 1..Len(ByTime) : ByTime[k] = m
      BY HermesAssumption
    <2>3. PICK j \in 1..Len(scanned) : scanned[j] = m
      BY <1>2, <1>5, <1>10, <2>1, <2>2
    <2>. QED
      BY <1>8, <2>1, <2>3
  <1>. QED
    BY <1>9, <1>10
-----------------------------------------------------------------------------
(* What a run writes *)

Write == {Row(s) : s \in Segments} \cup {Concept(s) : s \in Segments} \cup {Edge(j) : j \in Jobs}

LEMMA PiecesType ==
  ASSUME NEW length \in Nat \ {0}
  PROVE  Pieces(length) \in Nat
  <1>1. (length - 1) \div MaxChars \in Nat
    BY CuratorAssumption, Z3
  <1>. QED
    BY <1>1, CuratorAssumption DEF Pieces

LEMMA SegmentsType ==
  ASSUME NEW t \in Texts
  PROVE  SegmentsOf(t) \in Seq(Segments)
  <1>. DEFINE cut(s) == [n \in 1..Pieces(Length[s]) |-> <<s, n>>]
              parts == [k \in 1..Len(Sentences[t]) |-> cut(Sentences[t][k])]
  <1>1. Sentences[t] \in Seq(DOMAIN Length)
    BY CuratorAssumption
  <1>2. ASSUME NEW s \in DOMAIN Length
        PROVE  cut(s) \in Seq(Segments)
    <2>1. Pieces(Length[s]) \in Nat
      BY CuratorAssumption, PiecesType
    <2>2. \A n \in 1..Pieces(Length[s]) : <<s, n>> \in Segments
      BY DEF Segments
    <2>. QED
      BY <2>1, <2>2
  <1>3. SegmentsOf(t) = Concat(parts)
    BY DEF SegmentsOf
  <1>. HIDE DEF cut
  <1>4. Len(Sentences[t]) \in Nat /\ \A k \in 1..Len(Sentences[t]) : Sentences[t][k] \in DOMAIN Length
    BY <1>1
  <1>5. parts \in Seq(Seq(Segments))
    BY <1>2, <1>4
  <1>. HIDE DEF parts
  <1>. QED
    BY <1>3, <1>5, ConcatHolds

LEMMA SegmentWrites ==
  ASSUME NEW s \in Segments
  PROVE  WritesOfSegment(s) \in Seq(Write)
  <1>1. Relations[s] \in Seq(Jobs)
    BY RelationsAssumption
  <1>2. Row(s) \in Write /\ Concept(s) \in Write /\ \A j \in Jobs : Edge(j) \in Write
    BY DEF Write
  <1>. HIDE DEF Write
  <1>3. <<Row(s)>> \in Seq(Write) /\ <<Concept(s)>> \in Seq(Write)
    BY <1>2
  <1>4. [k \in 1..Len(Relations[s]) |-> Edge(Relations[s][k])] \in Seq(Write)
    <2>1. Len(Relations[s]) \in Nat /\ \A k \in 1..Len(Relations[s]) : Relations[s][k] \in Jobs
      BY <1>1
    <2>2. \A k \in 1..Len(Relations[s]) : Edge(Relations[s][k]) \in Write
      BY <1>2, <2>1
    <2>. QED
      BY <2>1, <2>2
  <1>5. CASE ~IsExperience(s)
    BY <1>3, <1>5 DEF WritesOfSegment
  <1>6. CASE IsExperience(s) /\ Relations[s] = << >>
    BY <1>3, <1>6 DEF WritesOfSegment
  <1>7. CASE IsExperience(s) /\ Relations[s] # << >>
    BY <1>4, <1>7 DEF WritesOfSegment
  <1>. QED
    BY <1>5, <1>6, <1>7

LEMMA MessageWrites ==
  ASSUME NEW m \in Readable
  PROVE  WritesOf[m] \in Seq(Write)
  <1>. DEFINE segments == SegmentsOf(CleanContent(m))
              parts == [k \in 1..Len(segments) |-> WritesOfSegment(segments[k])]
  <1>1. CleanContent(m) \in Texts
    BY CleanContentType DEF Readable
  <1>2. segments \in Seq(Segments)
    BY <1>1, SegmentsType
  <1>3. WritesOf[m] = IF Role[m] \in SkipRoles THEN << >> ELSE Concat(parts)
    BY DEF WritesOf, Readable
  <1>. HIDE DEF segments, Write
  <1>4. Len(segments) \in Nat /\ \A k \in 1..Len(segments) : segments[k] \in Segments
    BY <1>2
  <1>5. \A k \in 1..Len(segments) : WritesOfSegment(segments[k]) \in Seq(Write)
    BY <1>4, SegmentWrites
  <1>6. parts \in Seq(Seq(Write))
    BY <1>4, <1>5
  <1>. HIDE DEF parts
  <1>7. Concat(parts) \in Seq(Write)
    BY <1>6, ConcatHolds
  <1>8. << >> \in Seq(Write)
    OBVIOUS
  <1>. QED
    BY <1>3, <1>7, <1>8

(* The writes of a run are those of its messages. *)
LEMMA WritesHold ==
  ASSUME NEW messages \in Seq(Readable)
  PROVE  /\ Writes(messages) \in Seq(Write)
         /\ \A k \in 1..Len(messages) : Within(WritesOf[messages[k]], Writes(messages))
  <1>. DEFINE parts == [k \in 1..Len(messages) |-> WritesOf[messages[k]]]
  <1>1. Len(messages) \in Nat /\ \A k \in 1..Len(messages) : messages[k] \in Readable
    OBVIOUS
  <1>2. Writes(messages) = Concat(parts)
    BY DEF Writes
  <1>. HIDE DEF Write, Readable
  <1>3. \A k \in 1..Len(messages) : WritesOf[messages[k]] \in Seq(Write)
    BY <1>1, MessageWrites
  <1>4. parts \in Seq(Seq(Write)) /\ Len(parts) = Len(messages)
    BY <1>1, <1>3
  <1>5. \A k \in 1..Len(messages) : parts[k] = WritesOf[messages[k]]
    OBVIOUS
  <1>. HIDE DEF parts
  <1>6. Concat(parts) \in Seq(Write) /\ \A k \in 1..Len(messages) : Within(parts[k], Concat(parts))
    BY <1>4, ConcatHolds
  <1>. QED
    BY <1>2, <1>5, <1>6
-----------------------------------------------------------------------------
(* Runs *)

(* The writes of these messages that come before the n-th are stored. *)
StoredUpTo(messages, n) ==
  \A k \in 1..Len(Writes(messages)) : k < n => IsStored(Writes(messages)[k])

(* A run has stored all the writes before its place; one that is inside      *)
(* add_edge() is so for the write at its place, and finds the edge in the    *)
(* end, whoever inserted it.                                                *)
RunInv(c) ==
  /\ input[c] \in Seq(Readable)
  /\ place[c] \in Nat /\ place[c] <= Len(Writes(input[c])) + 1
  /\ StoredUpTo(input[c], place[c])
  /\ pc[c] # "idle" =>
       /\ place[c] \in 1..Len(Writes(input[c]))
       /\ Writes(input[c])[place[c]] = Edge(job[c])
  /\ pc[c] = "select" => edges[Triple(job[c])] # NoJob

(* Exported without a LIMIT. *)
Exported(m) == ScanLimit = 0 /\ Where(m) /\ ~Skipped(m)

(* What a complete file promised is in the run that read it, and among what  *)
(* was curated when that run has ended.                                     *)
PromiseInv ==
  /\ \A c \in Curators : \A m \in whole[c] : Exported(m) =>
       \E k \in 1..Len(input[c]) : input[c][k] = m
  /\ \A m \in promised : Exported(m) => m \in curated

HistoryTypes ==
  /\ input \in [Curators -> Seq(Readable)]
  /\ whole \in [Curators -> SUBSET Messages]
  /\ place \in [Curators -> Nat]
  /\ curated \subseteq Readable /\ promised \subseteq Messages

ConversationInv ==
  /\ GraphInv /\ HermesTypeOK /\ HistoryTypes
  /\ \A c \in Curators : RunInv(c)
  /\ PromiseInv /\ CompletedIsStored
-----------------------------------------------------------------------------
(* Nothing stored is lost *)

StoresGrow ==
  /\ rows \subseteq rows' /\ concepts \subseteq concepts'
  /\ \A t \in Triples : edges[t] # NoJob => edges'[t] # NoJob

LEMMA WriteKinds ==
  ASSUME NEW w \in Write
  PROVE  \/ w.to = "rows" \/ w.to = "concepts"
         \/ w.to = "edges" /\ w.what \in Jobs /\ w = Edge(w.what) /\ Triple(w.what) \in Triples
  BY GraphAssumption DEF Write, Row, Concept, Edge, Triple, Triples

LEMMA StoredStays ==
  ASSUME StoresGrow, NEW w \in Write, IsStored(w)
  PROVE  IsStored(w)'
  <1>1. CASE w.to = "rows"
    BY <1>1 DEF IsStored, StoresGrow
  <1>2. CASE w.to = "concepts"
    BY <1>2 DEF IsStored, StoresGrow
  <1>3. CASE w.to = "edges" /\ Triple(w.what) \in Triples
    BY <1>3 DEF IsStored, StoresGrow, Triple
  <1>. QED
    BY <1>1, <1>2, <1>3, WriteKinds

LEMMA NextGrows ==
  ASSUME GraphInv, [CINext]_ciVars
  PROVE  StoresGrow
  <1>1. ASSUME NEW w \in Writers, InsertEdge(w)
        PROVE  \A t \in Triples : edges[t] # NoJob => edges'[t] # NoJob
    <2>1. job[w] \in Jobs /\ NoJob \notin Jobs
      BY <1>1, GraphAssumption DEF GraphInv, WriterInv, InsertEdge
    <2>. QED
      BY <1>1, <2>1 DEF GraphInv, TypeOK, InsertEdge
  <1>2. CASE Export
    BY <1>2 DEF Export, vars, curatorVars, StoresGrow
  <1>3. ASSUME NEW w \in Writers, CommitStep(w)
        PROVE  StoresGrow
    <2>1. UNCHANGED <<rows, concepts>>
      BY <1>3 DEF CommitStep, curatorVars
    <2>2. CASE AddSource(w) \/ AddTarget(w)
      BY <2>1, <2>2 DEF AddSource, AddTarget, StoresGrow
    <2>3. CASE InsertEdge(w)
      BY <1>1, <2>1, <2>3 DEF StoresGrow
    <2>. QED
      BY <1>3, <2>2, <2>3 DEF CommitStep
  <1>4. ASSUME NEW w \in Writers \ Curators, WorkerStep(w)
        PROVE  StoresGrow
    BY <1>4 DEF WorkerStep, Begin, SelectEdge, Abandon, curatorVars, StoresGrow
  <1>5. ASSUME NEW c \in Curators, ReadLog(c) \/ StoreRow(c) \/ StoreConcept(c) \/ FinishLog(c)
        PROVE  StoresGrow
    BY <1>5 DEF ReadLog, StoreRow, StoreConcept, FinishLog, vars, StoresGrow
  <1>6. ASSUME NEW c \in Curators, BeginRelation(c) \/ EndRelation(c) \/ AbandonLog(c)
        PROVE  StoresGrow
    BY <1>6 DEF BeginRelation, EndRelation, AbandonLog, Begin, SelectEdge, Abandon, curatorVars, vars, StoresGrow
  <1>7. CASE UNCHANGED ciVars
    BY <1>7 DEF ciVars, vars, curatorVars, StoresGrow
  <1>. QED
    BY <1>2, <1>3, <1>4, <1>5, <1>6, <1>7 DEF CINext

LEMMA UpToStays ==
  ASSUME StoresGrow, NEW list \in Seq(Readable), NEW n, StoredUpTo(list, n)
  PROVE  StoredUpTo(list, n)'
  <1>. DEFINE writes == Writes(list)
  <1>1. writes \in Seq(Write)
    BY WritesHold
  <1>2. ASSUME NEW k \in 1..Len(writes), k < n
        PROVE  IsStored(writes[k])'
    <2>. DEFINE w == writes[k]
    <2>1. IsStored(w)
      BY <1>2 DEF StoredUpTo
    <2>2. w \in Write
      <3>. HIDE DEF writes, Write
      <3>. QED
        BY <1>1
    <2>. HIDE DEF w
    <2>3. IsStored(w)'
      BY <2>1, <2>2, StoredStays
    <2>. QED
      BY <2>3 DEF w
  <1>. QED
    BY <1>2 DEF StoredUpTo

(* A run is not disturbed by what others do. *)
LEMMA RunStays ==
  ASSUME StoresGrow, NEW c \in Curators, RunInv(c), pc[c] # "idle" => job[c] \in Jobs,
         input'[c] = input[c], place'[c] = place[c], pc'[c] = pc[c], job'[c] = job[c]
  PROVE  RunInv(c)'
  <1>. PICK list : list = input[c]
    OBVIOUS
  <1>. PICK n : n = place[c]
    OBVIOUS
  <1>. PICK j : j = job[c]
    OBVIOUS
  <1>1. /\ list \in Seq(Readable)
        /\ n \in Nat /\ n <= Len(Writes(list)) + 1
        /\ StoredUpTo(list, n)
        /\ pc[c] # "idle" => n \in 1..Len(Writes(list)) /\ Writes(list)[n] = Edge(j)
    BY DEF RunInv
  <1>2. StoredUpTo(list, n)'
    BY <1>1, UpToStays
  <1>3. StoredUpTo(input[c], place[c])'
    BY <1>2
  <1>4. pc[c] = "select" => edges'[Triple(job[c])] # NoJob
    BY GraphAssumption DEF RunInv, StoresGrow, Triple, Triples
  <1>. QED
    BY <1>1, <1>3, <1>4 DEF RunInv, Edge, Triple
-----------------------------------------------------------------------------
(* The steps of a run *)

(* The write at its place is stored, by whichever statement. *)
LEMMA RunAdvances ==
  ASSUME StoresGrow, NEW c \in Curators, RunInv(c),
         NEW list, list = input[c], NEW n, n = place[c],
         n \in 1..Len(Writes(list)), IsStored(Writes(list)[n])',
         input'[c] = list, place'[c] = n + 1, pc'[c] = "idle"
  PROVE  RunInv(c)'
  <1>1. list \in Seq(Readable) /\ n \in Nat /\ StoredUpTo(list, n)
    BY DEF RunInv
  <1>2. Len(Writes(list)) \in Nat
    <2>1. Writes(list) \in Seq(Write)
      BY <1>1, WritesHold
    <2>. QED
      BY <2>1
  <1>3. StoredUpTo(list, n)'
    BY <1>1, UpToStays
  <1>4. StoredUpTo(list, n + 1)'
    <2>1. \A k \in 1..Len(Writes(list)) : k < n + 1 => k < n \/ k = n
      BY <1>1, <1>2
    <2>. QED
      BY <1>3, <2>1 DEF StoredUpTo
  <1>5. StoredUpTo(input[c], place[c])'
    BY <1>4
  <1>. QED
    BY <1>1, <1>2, <1>5 DEF RunInv

(* It begins, or it ends, in whatever way. *)
LEMMA RunAnew ==
  ASSUME NEW c \in Curators, NEW list \in Seq(Readable), NEW n \in {0, 1},
         input'[c] = list, place'[c] = n, pc'[c] = "idle"
  PROVE  RunInv(c)'
  <1>1. Len(Writes(list)) \in Nat
    <2>1. Writes(list) \in Seq(Write)
      BY WritesHold
    <2>. QED
      BY <2>1
  <1>2. StoredUpTo(list, n)'
    BY <1>1 DEF StoredUpTo
  <1>3. StoredUpTo(input[c], place[c])'
    BY <1>2
  <1>. QED
    BY <1>1, <1>3 DEF RunInv

(* A run that is not inside add_edge() stores a row, or a concept. *)
LEMMA StoreWriteRun ==
  ASSUME ConversationInv, StoresGrow, NEW c \in Curators, StoreRow(c) \/ StoreConcept(c)
  PROVE  RunInv(c)'
  <1>. PICK list : list = input[c]
    OBVIOUS
  <1>. PICK n : n = place[c]
    OBVIOUS
  <1>1. c \in Writers /\ RunInv(c)
    BY CuratorAssumption DEF ConversationInv
  <1>2. /\ n \in 1..Len(Writes(list))
        /\ Writes(list)[n].to \in {"rows", "concepts"}
        /\ Writes(list)[n].to = "rows" => Writes(list)[n].what \in rows'
        /\ Writes(list)[n].to = "concepts" => Writes(list)[n].what \in concepts'
    <2>1. CASE StoreRow(c)
      BY <2>1 DEF StoreRow, AtWrite, Current
    <2>2. CASE StoreConcept(c)
      BY <2>2 DEF StoreConcept, AtWrite, Current
    <2>. QED
      BY <2>1, <2>2
  <1>3. IsStored(Writes(list)[n])'
    BY <1>2 DEF IsStored
  <1>4. pc[c] = "idle"
    BY <1>1, <1>2 DEF RunInv, Edge
  <1>5. input'[c] = list /\ place'[c] = n + 1 /\ pc'[c] = "idle"
    BY <1>4 DEF StoreRow, StoreConcept, vars, ConversationInv, HistoryTypes
  <1>. QED
    BY <1>1, <1>2, <1>3, <1>5, RunAdvances

(* add_edge() returns, and has found the edge. *)
LEMMA EndRelationRun ==
  ASSUME ConversationInv, StoresGrow, NEW c \in Curators, EndRelation(c)
  PROVE  RunInv(c)'
  <1>. PICK list : list = input[c]
    OBVIOUS
  <1>. PICK n : n = place[c]
    OBVIOUS
  <1>. PICK j : j = job[c]
    OBVIOUS
  <1>1. c \in Writers /\ RunInv(c) /\ pc[c] = "select"
    BY CuratorAssumption DEF ConversationInv, EndRelation, SelectEdge
  <1>2. /\ n \in 1..Len(Writes(list)) /\ Writes(list)[n] = Edge(j)
        /\ edges[Triple(j)] # NoJob
    BY <1>1 DEF RunInv
  <1>3. edges' = edges
    BY DEF EndRelation, SelectEdge
  <1>4. IsStored(Edge(j))'
    BY <1>2, <1>3 DEF IsStored, Edge, Triple
  <1>5. IsStored(Writes(list)[n])'
    BY <1>2, <1>4
  <1>6. input'[c] = list /\ place'[c] = n + 1 /\ pc'[c] = "idle"
    BY <1>1 DEF EndRelation, SelectEdge, ConversationInv, HistoryTypes, GraphInv, TypeOK
  <1>. QED
    BY <1>1, <1>2, <1>5, <1>6, RunAdvances

LEMMA BeginRelationRun ==
  ASSUME ConversationInv, StoresGrow, NEW c \in Curators, BeginRelation(c)
  PROVE  RunInv(c)'
  <1>. PICK list : list = input[c]
    OBVIOUS
  <1>. PICK n : n = place[c]
    OBVIOUS
  <1>1. c \in Writers /\ RunInv(c)
    BY CuratorAssumption DEF ConversationInv
  <1>2. PICK j \in Jobs : j = Writes(list)[n].what /\ Begin(c, j)
    BY DEF BeginRelation, Current
  <1>3. n \in 1..Len(Writes(list)) /\ Writes(list)[n].to = "edges"
    BY DEF BeginRelation, AtWrite
  <1>4. list \in Seq(Readable) /\ n \in Nat /\ n <= Len(Writes(list)) + 1 /\ StoredUpTo(list, n)
    BY <1>1 DEF RunInv
  <1>5. Writes(list)[n] = Edge(j)
    <2>. DEFINE writes == Writes(list)
    <2>1. writes \in Seq(Write)
      BY <1>4, WritesHold
    <2>2. writes[n] \in Write
      <3>. HIDE DEF writes, Write
      <3>. QED
        BY <1>3, <2>1 DEF writes
    <2>. QED
      BY <1>2, <1>3, <2>2, WriteKinds
  <1>6. StoredUpTo(list, n)'
    BY <1>4, UpToStays
  <1>7. input'[c] = list /\ place'[c] = n /\ pc'[c] = "source" /\ job'[c] = j
    BY <1>1, <1>2 DEF BeginRelation, Begin, curatorVars, ConversationInv, GraphInv, TypeOK
  <1>8. StoredUpTo(input[c], place[c])'
    BY <1>6, <1>7
  <1>. QED
    BY <1>3, <1>4, <1>5, <1>7, <1>8 DEF RunInv, Edge

(* The three commits of its add_edge(). *)
LEMMA CommitRun ==
  ASSUME ConversationInv, StoresGrow, NEW c \in Curators, CommitStep(c)
  PROVE  RunInv(c)'
  <1>. PICK list : list = input[c]
    OBVIOUS
  <1>. PICK n : n = place[c]
    OBVIOUS
  <1>. PICK j : j = job[c]
    OBVIOUS
  <1>1. c \in Writers /\ RunInv(c) /\ pc[c] \in {"source", "target", "edge"}
    BY CuratorAssumption DEF ConversationInv, CommitStep, AddSource, AddTarget, InsertEdge
  <1>2. /\ list \in Seq(Readable) /\ n \in Nat /\ n <= Len(Writes(list)) + 1 /\ StoredUpTo(list, n)
        /\ n \in 1..Len(Writes(list)) /\ Writes(list)[n] = Edge(j)
    BY <1>1 DEF RunInv
  <1>3. StoredUpTo(list, n)'
    BY <1>2, UpToStays
  <1>4. input'[c] = list /\ place'[c] = n /\ job'[c] = j
    BY DEF CommitStep, AddSource, AddTarget, InsertEdge, curatorVars
  <1>5. pc'[c] = "select" => edges'[Triple(j)] # NoJob
    <2>1. j \in Jobs /\ NoJob \notin Jobs /\ Triple(j) \in Triples
      BY <1>1, GraphAssumption DEF ConversationInv, GraphInv, WriterInv, Triple, Triples
    <2>2. CASE AddSource(c) \/ AddTarget(c)
      BY <1>1, <2>2 DEF AddSource, AddTarget, ConversationInv, GraphInv, TypeOK
    <2>3. CASE InsertEdge(c)
      BY <2>1, <2>3 DEF InsertEdge, ConversationInv, GraphInv, TypeOK
    <2>. QED
      BY <2>2, <2>3 DEF CommitStep
  <1>6. StoredUpTo(input[c], place[c])'
    BY <1>3, <1>4
  <1>. QED
    BY <1>2, <1>4, <1>5, <1>6 DEF RunInv, Edge, Triple
-----------------------------------------------------------------------------
(* Everybody's steps *)

LEMMA NextHermesType ==
  ASSUME HermesTypeOK, HermesNext \/ UNCHANGED hermesVars
  PROVE  HermesTypeOK'
  <1>1. ASSUME NEW db \in SUBSET Messages
        PROVE  Len(Written[db]) \in Nat
    <2>1. Written[db] \in Seq(Readable)
      BY WrittenHolds
    <2>. QED
      BY <2>1
  <1>2. snapshot \in SUBSET Messages /\ sent \in SUBSET Messages
    BY DEF HermesTypeOK
  <1>3. ASSUME NEW m \in Messages, Send(m)
        PROVE  HermesTypeOK'
    BY <1>3 DEF Send, HermesTypeOK, Written, Scanned
  <1>4. CASE OpenOut
    <2>1. Len(Written[sent]) \in Nat
      BY <1>1, <1>2
    <2>2. Len(Written[snapshot'])= Len(Written[sent])
      BY <1>4 DEF OpenOut
    <2>3. flushed' \in 0..Len(Written[snapshot'])
      BY <1>4, <2>1, <2>2 DEF OpenOut
    <2>4. Written' = Written
      BY DEF Written, Scanned
    <2>. QED
      BY <1>4, <2>3, <2>4 DEF OpenOut, HermesTypeOK
  <1>5. CASE Flush
    <2>1. Len(Written[snapshot]) \in Nat
      BY <1>1, <1>2
    <2>2. flushed' \in 0..Len(Written[snapshot])
      BY <1>5, <2>1 DEF Flush, HermesTypeOK
    <2>3. torn' \in BOOLEAN
      BY <1>5, Zenon DEF Flush
    <2>4. Written' = Written
      BY DEF Written, Scanned
    <2>5. UNCHANGED <<sent, snapshot, exporting>>
      BY <1>5 DEF Flush
    <2>6. sent' \subseteq Messages /\ snapshot' \subseteq sent' /\ exporting' \in {"never", "open", "ended"}
      BY <2>5 DEF HermesTypeOK
    <2>7. flushed' \in 0..Len(Written[snapshot])'
      BY <2>2, <2>4, <2>5
    <2>. QED
      BY <2>3, <2>6, <2>7 DEF HermesTypeOK
  <1>6. CASE CloseOut
    <2>1. Len(Written[snapshot]) \in Nat
      BY <1>1, <1>2
    <2>2. flushed' \in 0..Len(Written[snapshot])
      BY <1>6, <2>1 DEF CloseOut
    <2>3. Written' = Written
      BY DEF Written, Scanned
    <2>. QED
      BY <1>6, <2>2, <2>3 DEF CloseOut, HermesTypeOK
  <1>7. CASE ExportDies
    BY <1>7 DEF ExportDies, HermesTypeOK
  <1>8. CASE UNCHANGED hermesVars
    BY <1>8 DEF hermesVars, HermesTypeOK
  <1>. QED
    BY <1>3, <1>4, <1>5, <1>6, <1>7, <1>8 DEF HermesNext

(* The messages in the file. *)
LEMMA LinesRead ==
  ASSUME HermesTypeOK
  PROVE  LET lines == SubSeq(Written[snapshot], 1, flushed)
         IN  /\ lines \in Seq(Readable)
             /\ Complete => \A m \in snapshot : Exported(m) => \E k \in 1..Len(lines) : lines[k] = m
  <1>. DEFINE all == Written[snapshot]
              lines == SubSeq(all, 1, flushed)
  <1>1. snapshot \in SUBSET Messages /\ flushed \in 0..Len(all)
    BY DEF HermesTypeOK
  <1>2. /\ all \in Seq(Readable)
        /\ ScanLimit = 0 => \A m \in snapshot : Where(m) /\ ~Skipped(m) =>
             \E k \in 1..Len(all) : all[k] = m
    BY <1>1, WrittenHolds
  <1>3. Complete => flushed = Len(all)
    BY DEF Complete
  <1>. HIDE DEF all
  <1>4. lines \in Seq(Readable)
    BY <1>1, <1>2
  <1>5. Complete => lines = all
    BY <1>2, <1>3, SubSeqFull
  <1>. QED
    BY <1>2, <1>4, <1>5 DEF Exported, all

LEMMA ReadLogRun ==
  ASSUME ConversationInv, NEW c \in Curators, ReadLog(c)
  PROVE  RunInv(c)'
  <1>. PICK list : list = SubSeq(Written[snapshot], 1, flushed)
    OBVIOUS
  <1>1. list \in Seq(Readable)
    BY LinesRead DEF ConversationInv
  <1>2. pc[c] = "idle"
    <2>1. RunInv(c)
      BY DEF ConversationInv
    <2>. QED
      BY <2>1 DEF RunInv, ReadLog
  <1>3. input'[c] = list /\ place'[c] = 1 /\ pc'[c] = "idle"
    BY <1>2 DEF ReadLog, vars, ConversationInv, HistoryTypes
  <1>. QED
    BY <1>1, <1>3, RunAnew

LEMMA LeaveRun ==
  ASSUME ConversationInv, NEW c \in Curators, FinishLog(c) \/ AbandonLog(c)
  PROVE  RunInv(c)'
  <1>1. c \in Writers /\ RunInv(c)
    BY CuratorAssumption DEF ConversationInv
  <1>2. << >> \in Seq(Readable)
    OBVIOUS
  <1>3. pc'[c] = "idle"
    <2>1. CASE FinishLog(c)
      <3>1. Len(Writes(input[c])) \in Nat
        <4>1. Writes(input[c]) \in Seq(Write)
          BY <1>1, WritesHold DEF RunInv
        <4>. QED
          BY <4>1
      <3>2. pc[c] = "idle"
        BY <1>1, <2>1, <3>1 DEF RunInv, FinishLog
      <3>. QED
        BY <2>1, <3>2 DEF FinishLog, vars
    <2>2. CASE AbandonLog(c)
      BY <1>1, <2>2 DEF AbandonLog, Abandon, vars, ConversationInv, GraphInv, TypeOK
    <2>. QED
      BY <2>1, <2>2
  <1>4. input'[c] = << >> /\ place'[c] = 0
    BY DEF FinishLog, AbandonLog, ConversationInv, HistoryTypes
  <1>. QED
    BY <1>2, <1>3, <1>4, RunAnew

LEMMA NextRunInv ==
  ASSUME ConversationInv, [CINext]_ciVars, NEW c \in Curators
  PROVE  RunInv(c)'
  <1>1. StoresGrow
    BY NextGrows DEF ConversationInv
  <1>2. c \in Writers /\ RunInv(c) /\ (pc[c] # "idle" => job[c] \in Jobs)
    BY CuratorAssumption DEF ConversationInv, GraphInv, WriterInv
  <1>3. /\ pc \in [Writers -> {"idle", "source", "target", "edge", "select"}]
        /\ job \in [Writers -> Jobs \cup {NoJob}]
    BY DEF ConversationInv, GraphInv, TypeOK
  <1>10. /\ input \in [Curators -> Seq(Readable)] /\ place \in [Curators -> Nat]
    BY DEF ConversationInv, HistoryTypes
  <1>. DEFINE Same == input'[c] = input[c] /\ place'[c] = place[c] /\ pc'[c] = pc[c] /\ job'[c] = job[c]
  <1>4. CASE Same
    BY <1>1, <1>2, <1>4, RunStays
  <1>5. CASE Export \/ UNCHANGED ciVars
    BY <1>4, <1>5 DEF Export, ciVars, vars, curatorVars
  <1>6. ASSUME NEW w \in Writers, CommitStep(w)
        PROVE  RunInv(c)'
    <2>1. CASE w = c
      BY <1>1, <1>6, <2>1, CommitRun
    <2>2. CASE w # c
      <3>1. pc'[c] = pc[c] /\ job'[c] = job[c]
        BY <1>2, <1>3, <1>6, <2>2 DEF CommitStep, AddSource, AddTarget, InsertEdge
      <3>2. input'[c] = input[c] /\ place'[c] = place[c]
        BY <1>6 DEF CommitStep, curatorVars
      <3>. QED
        BY <1>4, <3>1, <3>2
    <2>. QED
      BY <2>1, <2>2
  <1>7. ASSUME NEW w \in Writers \ Curators, WorkerStep(w)
        PROVE  RunInv(c)'
    <2>1. w \in Writers /\ w # c
      OBVIOUS
    <2>2. pc'[c] = pc[c] /\ job'[c] = job[c]
      <3>1. CASE \E j \in Artefacts : Begin(w, j)
        BY <1>2, <1>3, <2>1, <3>1 DEF Begin
      <3>2. CASE SelectEdge(w) \/ Abandon(w)
        BY <1>2, <1>3, <2>1, <3>2 DEF SelectEdge, Abandon
      <3>. QED
        BY <1>7, <3>1, <3>2 DEF WorkerStep
    <2>3. input'[c] = input[c] /\ place'[c] = place[c]
      BY <1>7 DEF WorkerStep, curatorVars
    <2>. QED
      BY <1>4, <2>2, <2>3
  <1>8. ASSUME NEW d \in Curators, d # c,
               \/ ReadLog(d) \/ StoreRow(d) \/ StoreConcept(d)
               \/ BeginRelation(d) \/ EndRelation(d)
               \/ FinishLog(d) \/ AbandonLog(d)
        PROVE  RunInv(c)'
    <2>. USE <1>3, <1>10, <1>8
    <2>1. CASE ReadLog(d) \/ StoreRow(d) \/ StoreConcept(d)
      BY <1>4, <2>1 DEF ReadLog, StoreRow, StoreConcept, vars
    <2>. d \in Writers
      BY CuratorAssumption
    <2>2. CASE BeginRelation(d) \/ EndRelation(d)
      <3>1. pc'[c] = pc[c] /\ job'[c] = job[c]
        BY <1>2, <2>2 DEF BeginRelation, EndRelation, Begin, SelectEdge
      <3>2. input'[c] = input[c] /\ place'[c] = place[c]
        BY <2>2 DEF BeginRelation, EndRelation, curatorVars
      <3>. QED
        BY <1>4, <3>1, <3>2
    <2>3. CASE FinishLog(d)
      BY <1>4, <2>3 DEF FinishLog, vars
    <2>4. CASE AbandonLog(d)
      <3>1. pc'[c] = pc[c] /\ job'[c] = job[c]
        BY <1>2, <2>4 DEF AbandonLog, Abandon, vars
      <3>2. input'[c] = input[c] /\ place'[c] = place[c]
        BY <2>4 DEF AbandonLog
      <3>. QED
        BY <1>4, <3>1, <3>2
    <2>. QED
      BY <2>1, <2>2, <2>3, <2>4
  <1>9. CASE \/ ReadLog(c) \/ StoreRow(c) \/ StoreConcept(c)
             \/ BeginRelation(c) \/ EndRelation(c)
             \/ FinishLog(c) \/ AbandonLog(c)
    BY <1>1, <1>9, ReadLogRun, StoreWriteRun, BeginRelationRun, EndRelationRun, LeaveRun
  <1>. QED
    BY <1>5, <1>6, <1>7, <1>8, <1>9 DEF CINext
-----------------------------------------------------------------------------
(* The history of the runs *)

LEMMA RememberedStays ==
  ASSUME StoresGrow, NEW m \in Readable, Remembered(m)
  PROVE  Remembered(m)'
  <1>. DEFINE writes == WritesOf[m]
  <1>1. writes \in Seq(Write)
    BY MessageWrites
  <1>2. ASSUME NEW k \in 1..Len(writes)
        PROVE  IsStored(writes[k])'
    <2>. DEFINE w == writes[k]
    <2>1. IsStored(w)
      BY DEF Remembered
    <2>2. w \in Write
      <3>. HIDE DEF writes, Write
      <3>. QED
        BY <1>1
    <2>. HIDE DEF w
    <2>3. IsStored(w)'
      BY <2>1, <2>2, StoredStays
    <2>. QED
      BY <2>3 DEF w
  <1>3. WritesOf' = WritesOf
    BY DEF WritesOf
  <1>. QED
    BY <1>2, <1>3 DEF Remembered

(* A run at its end has stored every message that it read. *)
LEMMA FinishedIsRemembered ==
  ASSUME ConversationInv, NEW c \in Curators, FinishLog(c), NEW k \in 1..Len(input[c])
  PROVE  input[c][k] \in Readable /\ Remembered(input[c][k])
  <1>. DEFINE m == input[c][k]
              writes == Writes(input[c])
  <1>1. RunInv(c) /\ place[c] > Len(writes)
    BY DEF ConversationInv, FinishLog
  <1>2. input[c] \in Seq(Readable)
    BY <1>1 DEF RunInv
  <1>3. m \in Readable
    <2>. HIDE DEF Readable
    <2>. QED
      BY <1>2
  <1>4. writes \in Seq(Write) /\ Within(WritesOf[m], writes)
    BY <1>2, WritesHold
  <1>5. \A i \in 1..Len(writes) : IsStored(writes[i])
    <2>1. Len(writes) \in Nat /\ place[c] \in Nat
      BY <1>1, <1>4 DEF RunInv
    <2>2. \A i \in 1..Len(writes) : i < place[c]
      <3>. HIDE DEF writes
      <3>. QED
        BY <1>1, <2>1
    <2>. QED
      BY <1>1, <2>2 DEF RunInv, StoredUpTo
  <1>. HIDE DEF m, writes
  <1>6. Remembered(m)
    BY <1>4, <1>5 DEF Within, Remembered
  <1>. QED
    BY <1>3, <1>6 DEF m

(* Only the end of a run adds to the history. *)
LEMMA NextHistory ==
  ASSUME [CINext]_ciVars
  PROVE  \/ UNCHANGED <<curated, promised>>
         \/ \E c \in Curators : FinishLog(c)
  BY DEF CINext, ciVars, Export, CommitStep, WorkerStep, ReadLog, StoreRow, StoreConcept,
         BeginRelation, EndRelation, AbandonLog, curatorVars

LEMMA NextCompleted ==
  ASSUME ConversationInv, [CINext]_ciVars
  PROVE  CompletedIsStored' /\ curated' \subseteq Readable
  <1>1. StoresGrow
    BY NextGrows DEF ConversationInv
  <1>2. \A m \in curated : m \in Readable /\ Remembered(m)
    BY DEF ConversationInv, HistoryTypes, CompletedIsStored
  <1>3. \A m \in Readable : Remembered(m) => Remembered(m)'
    BY <1>1, RememberedStays
  <1>4. \A m \in curated' : m \in Readable /\ Remembered(m)
    <2>1. CASE UNCHANGED <<curated, promised>>
      BY <1>2, <2>1
    <2>2. ASSUME NEW c \in Curators, FinishLog(c)
          PROVE  \A m \in curated' : m \in Readable /\ Remembered(m)
      <3>1. curated' = curated \cup {input[c][k] : k \in 1..Len(input[c])}
        BY <2>2 DEF FinishLog
      <3>2. \A k \in 1..Len(input[c]) : input[c][k] \in Readable /\ Remembered(input[c][k])
        BY <2>2, FinishedIsRemembered
      <3>. HIDE DEF Readable
      <3>. QED
        BY <1>2, <3>1, <3>2
    <2>. QED
      BY <2>1, <2>2, NextHistory
  <1>. HIDE DEF Readable
  <1>. QED
    BY <1>3, <1>4 DEF CompletedIsStored

LEMMA NextHistoryTypes ==
  ASSUME ConversationInv, [CINext]_ciVars
  PROVE  HistoryTypes'
  <1>1. /\ input \in [Curators -> Seq(Readable)] /\ place \in [Curators -> Nat]
        /\ whole \in [Curators -> SUBSET Messages] /\ promised \in SUBSET Messages
    BY DEF ConversationInv, HistoryTypes
  <1>2. curated' \subseteq Readable
    BY NextCompleted
  <1>3. << >> \in Seq(Readable) /\ SubSeq(Written[snapshot], 1, flushed) \in Seq(Readable)
    BY LinesRead DEF ConversationInv
  <1>4. snapshot \in SUBSET Messages
    BY DEF ConversationInv, HermesTypeOK
  <1>. DEFINE Lines == Seq(Readable)
  <1>. HIDE DEF Lines
  <1>5. /\ input \in [Curators -> Lines]
        /\ << >> \in Lines /\ SubSeq(Written[snapshot], 1, flushed) \in Lines
    BY <1>1, <1>3 DEF Lines
  <1>6. /\ input' \in [Curators -> Lines] /\ place' \in [Curators -> Nat]
        /\ whole' \in [Curators -> SUBSET Messages] /\ promised' \in SUBSET Messages
    <2>1. CASE Export \/ UNCHANGED ciVars \/ (\E v \in Writers : CommitStep(v))
                \/ \E w \in Writers \ Curators : WorkerStep(w)
      BY <1>1, <1>5, <2>1 DEF Export, ciVars, CommitStep, WorkerStep, curatorVars
    <2>2. ASSUME NEW c \in Curators, ReadLog(c)
          PROVE  /\ input' \in [Curators -> Lines] /\ place' \in [Curators -> Nat]
                 /\ whole' \in [Curators -> SUBSET Messages] /\ promised' \in SUBSET Messages
      BY <1>1, <1>4, <1>5, <2>2 DEF ReadLog
    <2>3. ASSUME NEW c \in Curators, StoreRow(c) \/ StoreConcept(c) \/ EndRelation(c) \/ BeginRelation(c)
          PROVE  /\ input' \in [Curators -> Lines] /\ place' \in [Curators -> Nat]
                 /\ whole' \in [Curators -> SUBSET Messages] /\ promised' \in SUBSET Messages
      <3>1. input' = input /\ whole' = whole /\ promised' = promised
        BY <2>3 DEF StoreRow, StoreConcept, EndRelation, BeginRelation, curatorVars
      <3>2. place' = place \/ place' = [place EXCEPT ![c] = @ + 1]
        BY <2>3 DEF StoreRow, StoreConcept, EndRelation, BeginRelation, curatorVars
      <3>3. place' \in [Curators -> Nat]
        BY <1>1, <3>2
      <3>. QED
        BY <1>1, <1>5, <3>1, <3>3
    <2>4. ASSUME NEW c \in Curators, FinishLog(c) \/ AbandonLog(c)
          PROVE  /\ input' \in [Curators -> Lines] /\ place' \in [Curators -> Nat]
                 /\ whole' \in [Curators -> SUBSET Messages] /\ promised' \in SUBSET Messages
      <3>1. /\ input' = [input EXCEPT ![c] = << >>]
            /\ place' = [place EXCEPT ![c] = 0]
            /\ whole' = [whole EXCEPT ![c] = {}]
            /\ promised' = promised \/ promised' = promised \cup whole[c]
        BY <2>4 DEF FinishLog, AbandonLog
      <3>2. input' \in [Curators -> Lines]
        BY <1>5, <3>1
      <3>3. place' \in [Curators -> Nat] /\ whole' \in [Curators -> SUBSET Messages]
        BY <1>1, <3>1
      <3>4. promised' \in SUBSET Messages
        BY <1>1, <3>1
      <3>. QED
        BY <3>2, <3>3, <3>4
    <2>. QED
      BY <2>1, <2>2, <2>3, <2>4 DEF CINext
  <1>. QED
    BY <1>2, <1>6 DEF HistoryTypes, Lines

LEMMA NextPromiseInv ==
  ASSUME ConversationInv, [CINext]_ciVars
  PROVE  PromiseInv'
  <1>1. /\ \A c \in Curators : \A m \in whole[c] : Exported(m) => \E k \in 1..Len(input[c]) : input[c][k] = m
        /\ \A m \in promised : Exported(m) => m \in curated
    BY DEF ConversationInv, PromiseInv
  <1>2. input \in [Curators -> Seq(Readable)] /\ whole \in [Curators -> SUBSET Messages]
    BY DEF ConversationInv, HistoryTypes
  <1>3. \A m \in promised' : Exported(m) => m \in curated'
    <2>1. CASE UNCHANGED <<curated, promised>>
      BY <1>1, <2>1
    <2>2. ASSUME NEW c \in Curators, FinishLog(c)
          PROVE  \A m \in promised' : Exported(m) => m \in curated'
      BY <1>1, <2>2 DEF FinishLog
    <2>. QED
      BY <2>1, <2>2, NextHistory
  <1>4. ASSUME NEW c \in Curators
        PROVE  \A m \in whole'[c] : Exported(m) => \E k \in 1..Len(input'[c]) : input'[c][k] = m
    <2>1. CASE whole'[c] = {}
      BY <2>1
    <2>2. CASE whole'[c] = whole[c] /\ input'[c] = input[c]
      BY <1>1, <2>2
    <2>3. CASE ReadLog(c)
      <3>1. input'[c] = SubSeq(Written[snapshot], 1, flushed)
        BY <1>2, <2>3 DEF ReadLog
      <3>2. (whole'[c] = snapshot /\ Complete) \/ whole'[c] = {}
        BY <1>2, <2>3 DEF ReadLog
      <3>3. Complete => \A m \in snapshot : Exported(m) => \E k \in 1..Len(input'[c]) : input'[c][k] = m
        BY <3>1, LinesRead DEF ConversationInv
      <3>. QED
        BY <3>2, <3>3
    <2>4. CASE FinishLog(c) \/ AbandonLog(c)
      BY <1>2, <2>1, <2>4 DEF FinishLog, AbandonLog
    <2>5. CASE Export \/ UNCHANGED ciVars \/ (\E v \in Writers : CommitStep(v))
               \/ \E w \in Writers \ Curators : WorkerStep(w)
      BY <2>2, <2>5 DEF Export, ciVars, CommitStep, WorkerStep, curatorVars
    <2>6. ASSUME NEW d \in Curators,
                 StoreRow(d) \/ StoreConcept(d) \/ EndRelation(d) \/ BeginRelation(d)
          PROVE  whole'[c] = whole[c] /\ input'[c] = input[c]
      BY <2>6 DEF StoreRow, StoreConcept, EndRelation, BeginRelation, curatorVars
    <2>7. ASSUME NEW d \in Curators, d # c, ReadLog(d) \/ FinishLog(d) \/ AbandonLog(d)
          PROVE  whole'[c] = whole[c] /\ input'[c] = input[c]
      BY <1>2, <2>7 DEF ReadLog, FinishLog, AbandonLog
    <2>. QED
      BY <2>2, <2>3, <2>4, <2>5, <2>6, <2>7 DEF CINext
  <1>5. \A m : Exported(m)' = Exported(m)
    BY DEF Exported, Where, Skipped, CleanContent
  <1>. QED
    BY <1>3, <1>4, <1>5 DEF PromiseInv
-----------------------------------------------------------------------------
(* Theorems about the conversation ingest *)

LEMMA InitConversationInv == CIInit => ConversationInv
  <1>. SUFFICES ASSUME CIInit PROVE ConversationInv
    OBVIOUS
  <1>1. GraphInv
    BY InitGraphInv DEF CIInit
  <1>2. HermesTypeOK
    <2>1. Written[{}] \in Seq(Readable)
      BY WrittenHolds
    <2>2. Len(Written[{}]) \in Nat
      BY <2>1
    <2>3. 0 \in 0..Len(Written[{}])
      BY <2>2
    <2>. QED
      BY <2>3, HermesAssumption DEF CIInit, HermesInit, HermesTypeOK
  <1>3. HistoryTypes
    BY DEF CIInit, HistoryTypes
  <1>4. ASSUME NEW c \in Curators
        PROVE  RunInv(c)
    <2>1. << >> \in Seq(Readable)
      OBVIOUS
    <2>2. Len(Writes(<< >>)) \in Nat
      <3>1. Writes(<< >>) \in Seq(Write)
        BY <2>1, WritesHold
      <3>. QED
        BY <3>1
    <2>3. input[c] = << >> /\ place[c] = 0 /\ pc[c] = "idle"
      BY CuratorAssumption DEF CIInit, Init
    <2>. QED
      BY <2>1, <2>2, <2>3 DEF RunInv, StoredUpTo
  <1>5. PromiseInv /\ CompletedIsStored
    BY DEF CIInit, PromiseInv, CompletedIsStored
  <1>. QED
    BY <1>1, <1>2, <1>3, <1>4, <1>5 DEF ConversationInv

(* The inductive invariant, with what each run has stored so far. *)
THEOREM ConversationSafety == CISpec => []ConversationInv
  <1>1. ConversationInv /\ [CINext]_ciVars => ConversationInv'
    <2>. SUFFICES ASSUME ConversationInv, [CINext]_ciVars
                  PROVE  ConversationInv'
      OBVIOUS
    <2>1. GraphInv'
      BY NextGraphInv DEF ConversationInv
    <2>2. HermesTypeOK'
      <3>1. HermesNext \/ UNCHANGED hermesVars
        BY DEF CINext, ciVars, Export, CommitStep, WorkerStep, ReadLog, StoreRow, StoreConcept,
               BeginRelation, EndRelation, FinishLog, AbandonLog, hermesVars
      <3>. QED
        BY <3>1, NextHermesType DEF ConversationInv
    <2>3. \A c \in Curators : RunInv(c)'
      BY NextRunInv
    <2>. QED
      BY <2>1, <2>2, <2>3, NextHistoryTypes, NextPromiseInv, NextCompleted DEF ConversationInv
  <1>. QED
    BY <1>1, InitConversationInv, PTL DEF CISpec

(* Every variable of the graph, the export and the runs stays in its type;   *)
(* the position of a run stays within what it has to write.                 *)
THEOREM CITypeCorrect == CISpec => []CITypeOK
  <1>1. ConversationInv => CITypeOK
    <2>. SUFFICES ASSUME ConversationInv PROVE CITypeOK
      OBVIOUS
    <2>1. TypeOK /\ HermesTypeOK
      BY DEF ConversationInv, GraphInv
    <2>2. ASSUME NEW c \in Curators
          PROVE  place[c] \in 0..Len(Writes(input[c])) + 1 /\ (pc[c] # "idle" => place[c] > 0)
      <3>1. RunInv(c)
        BY DEF ConversationInv
      <3>2. Len(Writes(input[c])) \in Nat
        <4>1. Writes(input[c]) \in Seq(Write)
          BY <3>1, WritesHold DEF RunInv
        <4>. QED
          BY <4>1
      <3>. QED
        BY <3>1, <3>2 DEF RunInv
    <2>3. input \in [Curators -> Seq(Messages)]
      <3>1. Seq(Readable) \subseteq Seq(Messages)
        BY DEF Readable
      <3>. HIDE DEF Readable
      <3>. QED
        BY <3>1 DEF ConversationInv, HistoryTypes
    <2>4. /\ whole \in [Curators -> SUBSET Messages]
          /\ curated \subseteq Messages /\ promised \subseteq Messages
      BY DEF ConversationInv, HistoryTypes, Readable
    <2>. QED
      BY <2>1, <2>2, <2>3, <2>4 DEF CITypeOK
  <1>. QED
    BY <1>1, ConversationSafety, PTL

(* memory_curator.py, ingest(): a run that returns its report has every       *)
(* segment of every message it read in the stores, for any curators and     *)
(* workers beside it, any of which may die between any two commits.          *)
THEOREM CompletedIsStoredAlways == CISpec => []CompletedIsStored
  <1>1. ConversationInv => CompletedIsStored
    BY DEF ConversationInv
  <1>. QED
    BY <1>1, ConversationSafety, PTL

(* ingest_hermes.py and memory_curator.py: what people and agents had said at *)
(* a complete export is in memory once a run that read it has ended.        *)
THEOREM ExportedIsRememberedAlways == CISpec => []ExportedIsRemembered
  <1>1. ConversationInv => ExportedIsRemembered
    <2>. SUFFICES ASSUME ConversationInv, ScanLimit = 0, NEW m \in promised, IsSpeech(m)
                  PROVE  m \in curated /\ Remembered(m)
      BY DEF ExportedIsRemembered
    <2>1. m \in Messages
      BY DEF ConversationInv, HistoryTypes
    <2>2. Exported(m)
      BY <2>1, SpeechIsKept DEF Exported
    <2>3. m \in curated
      BY <2>2 DEF ConversationInv, PromiseInv
    <2>. QED
      BY <2>3 DEF ConversationInv, CompletedIsStored
  <1>. QED
    BY <1>1, ConversationSafety, PTL
=============================================================================
