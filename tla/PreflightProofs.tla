-------------------------- MODULE PreflightProofs --------------------------
(***************************************************************************)
(* For any memories, axes, prompts, projects and limits: what a preflight    *)
(* answer may leave out of an agent's prompt and what it may not show, while *)
(* the worker stores and the administrator approves between its reads.  The  *)
(* first lemmas are about order: a ranked list cut at k.                     *)
(***************************************************************************)
EXTENDS Preflight, FunctionTheorems, FiniteSetTheorems, SequenceTheorems, TLAPS

(* A strict total order on S, as the set of its pairs. *)
StrictOrder(S, R) ==
  /\ \A a \in S : <<a, a>> \notin R
  /\ \A a, b, c \in S : <<a, b>> \in R /\ <<b, c>> \in R => <<a, c>> \in R
  /\ \A a, b \in S : a = b \/ <<a, b>> \in R \/ <<b, a>> \in R

(* How many come before an element. *)
Before(S, R, a) == {b \in S : <<b, a>> \in R}
Rank(S, R) == [a \in S |-> Cardinality(Before(S, R, a))]

(* Those with fewer than k before them. *)
First(S, R, k) == {a \in S : Cardinality(Before(S, R, a)) < k}

-----------------------------------------------------------------------------
(* Ranks *)

LEMMA RankIsBijection ==
  ASSUME NEW S, IsFiniteSet(S), NEW R, StrictOrder(S, R)
  PROVE  /\ Rank(S, R) \in Bijection(S, 0..Cardinality(S) - 1)
         /\ \A a, b \in S : <<a, b>> \in R <=> Rank(S, R)[a] < Rank(S, R)[b]
  <1>. DEFINE n == Cardinality(S)
              f == Rank(S, R)
  <1>1. n \in Nat
    BY FS_CardinalityType
  <1>2. \A a \in S : IsFiniteSet(Before(S, R, a)) /\ f[a] = Cardinality(Before(S, R, a)) /\ f[a] \in 0..n - 1
    <2>. SUFFICES ASSUME NEW a \in S
                  PROVE  IsFiniteSet(Before(S, R, a)) /\ f[a] = Cardinality(Before(S, R, a)) /\ f[a] \in 0..n - 1
      OBVIOUS
    <2>1. Before(S, R, a) \in SUBSET (S \ {a})
      BY DEF Before, StrictOrder
    <2>2. IsFiniteSet(S \ {a}) /\ Cardinality(S \ {a}) = n - 1
      BY FS_RemoveElement
    <2>3. /\ IsFiniteSet(Before(S, R, a)) /\ Cardinality(Before(S, R, a)) <= n - 1
          /\ Cardinality(Before(S, R, a)) \in Nat
      BY <2>1, <2>2, FS_Subset, FS_CardinalityType
    <2>. QED
      BY <1>1, <2>3 DEF Rank
  <1>3. \A a, b \in S : <<a, b>> \in R => f[a] < f[b]
    <2>. SUFFICES ASSUME NEW a \in S, NEW b \in S, <<a, b>> \in R
                  PROVE  f[a] < f[b]
      OBVIOUS
    <2>1. Before(S, R, a) \in SUBSET Before(S, R, b)
      BY DEF Before, StrictOrder
    <2>2. Before(S, R, a) # Before(S, R, b)
      BY DEF Before, StrictOrder
    <2>3. Cardinality(Before(S, R, a)) <= Cardinality(Before(S, R, b))
          /\ Cardinality(Before(S, R, a)) # Cardinality(Before(S, R, b))
      BY <1>2, <2>1, <2>2, FS_Subset
    <2>. QED
      BY <1>1, <1>2, <2>3
  <1>4. f \in [S -> 0..n - 1]
    BY <1>2 DEF Rank
  <1>. HIDE DEF f
  <1>5. \A a, b \in S : a = b \/ f[a] < f[b] \/ f[b] < f[a]
    BY <1>3 DEF StrictOrder
  <1>6. \A a \in S : f[a] \in Int
    BY <1>2
  <1>7. \A a, b \in S : f[a] = f[b] => a = b
    BY <1>5, <1>6
  <1>8. f \in Injection(S, 0..n - 1)
    BY <1>4, <1>7, Fun_IsInj
  <1>9. IsFiniteSet(0..n - 1) /\ Cardinality(0..n - 1) = n
    BY <1>1, FS_Interval
  <1>10. f \in Bijection(S, 0..n - 1)
    BY <1>8, <1>9, FS_Injection DEF Bijection
  <1>11. ASSUME NEW a \in S, NEW b \in S, f[a] < f[b]
         PROVE  <<a, b>> \in R
    <2>1. a # b /\ ~(f[b] < f[a])
      BY <1>6, <1>11
    <2>. QED
      BY <1>3, <2>1 DEF StrictOrder
  <1>. QED
    BY <1>3, <1>10, <1>11 DEF f

(* The first k of a finite set are k of them, or all there are; and they are *)
(* before all others.                                                       *)
LEMMA FirstOfRank ==
  ASSUME NEW S, IsFiniteSet(S), NEW R, StrictOrder(S, R), NEW k \in Nat
  PROVE  /\ First(S, R, k) \in SUBSET S /\ IsFiniteSet(First(S, R, k))
         /\ Cardinality(First(S, R, k)) = Smaller(k, Cardinality(S))
         /\ \A a \in S \ First(S, R, k) : \A b \in First(S, R, k) : <<b, a>> \in R
  <1>. DEFINE T == First(S, R, k)
              n == Cardinality(S)
              f == Rank(S, R)
              l == Smaller(k, n)
              g == Restrict(f, T)
  <1>1. /\ n \in Nat /\ l \in Nat
        /\ l = IF k < n THEN k ELSE n
    BY FS_CardinalityType DEF Smaller
  <1>2. /\ f \in Bijection(S, 0..n - 1)
        /\ \A a, b \in S : <<a, b>> \in R <=> f[a] < f[b]
    BY RankIsBijection
  <1>3. T = {a \in S : f[a] < k}
    BY DEF Rank, First
  <1>. HIDE DEF f, T
  <1>4. /\ f \in [S -> 0..n - 1]
        /\ \A a, b \in S : f[a] = f[b] => a = b
        /\ \A i \in 0..n - 1 : \E a \in S : f[a] = i
    <2>. DEFINE I == 0..n - 1
    <2>1. f \in Bijection(S, I)
      BY <1>2
    <2>. HIDE DEF I
    <2>2. /\ f \in [S -> I]
          /\ \A a, b \in S : f[a] = f[b] => a = b
          /\ \A i \in I : \E a \in S : f[a] = i
      BY <2>1, Fun_BijectionProperties
    <2>. QED
      BY <2>2 DEF I
  <1>5. T \in SUBSET S /\ IsFiniteSet(T)
    BY <1>3, FS_Subset
  <1>6. \A a \in T : f[a] \in 0..l - 1
    BY <1>1, <1>3, <1>4
  <1>7. g \in [T -> 0..l - 1] /\ \A a \in T : g[a] = f[a]
    BY <1>6 DEF Restrict
  <1>8. \A i \in 0..l - 1 : \E a \in T : g[a] = i
    BY <1>1, <1>3, <1>4, <1>7
  <1>9. \A a, b \in T : g[a] = g[b] => a = b
    BY <1>4, <1>5, <1>7
  <1>. HIDE DEF g, l
  <1>10. g \in Bijection(T, 0..l - 1)
    BY <1>7, <1>8, <1>9, Fun_IsBij
  <1>11. Cardinality(0..l - 1) = Cardinality(T)
    BY <1>5, <1>10, FS_Bijection, Fun_ExistsBij
  <1>12. Cardinality(0..l - 1) = l
    <2>1. 0 \in Int /\ l - 1 \in Int
      BY <1>1
    <2>2. Cardinality(0..l - 1) = IF 0 > l - 1 THEN 0 ELSE (l - 1) - 0 + 1
      BY <2>1, FS_Interval
    <2>. QED
      BY <1>1, <2>2
  <1>13. \A a \in S \ T : \A b \in T : <<b, a>> \in R
    BY <1>1, <1>2, <1>3, <1>4
  <1>. QED
    BY <1>5, <1>11, <1>12, <1>13 DEF l, T

(* _rank() of both stores: Top() takes the highest scores, and as many as     *)
(* there are or fit.                                                        *)
LEMMA TopProperties ==
  ASSUME NEW S \in SUBSET Nat, IsFiniteSet(S), NEW score, \A m \in S : score[m] \in Nat, NEW k \in Nat
  PROVE  /\ Top(S, score, k) \in SUBSET S /\ IsFiniteSet(Top(S, score, k))
         /\ Cardinality(Top(S, score, k)) = Smaller(k, Cardinality(S))
         /\ \A m \in S \ Top(S, score, k) : \A n \in Top(S, score, k) : score[n] >= score[m]
  <1>. DEFINE R == {p \in S \X S : \/ score[p[1]] > score[p[2]]
                                   \/ score[p[1]] = score[p[2]] /\ p[1] < p[2]}
              T == Top(S, score, k)
  <1>1. \A m, n \in S : <<m, n>> \in R <=> score[m] > score[n] \/ (score[m] = score[n] /\ m < n)
    OBVIOUS
  <1>. HIDE DEF R
  <1>2. StrictOrder(S, R)
    BY <1>1 DEF StrictOrder
  <1>3. \A m \in S : Before(S, R, m) = {n \in S : score[n] > score[m] \/ (score[n] = score[m] /\ n < m)}
    BY <1>1 DEF Before
  <1>4. T = First(S, R, k)
    BY <1>3 DEF Top, First
  <1>. HIDE DEF T
  <1>5. /\ T \in SUBSET S /\ IsFiniteSet(T)
        /\ Cardinality(T) = Smaller(k, Cardinality(S))
        /\ \A a \in S \ T : \A b \in T : <<b, a>> \in R
    BY <1>2, <1>4, FirstOfRank
  <1>6. ASSUME NEW m \in S \ T, NEW n \in T
        PROVE  score[n] >= score[m]
    <2>1. n \in S /\ <<n, m>> \in R
      BY <1>5
    <2>2. score[n] > score[m] \/ score[n] = score[m]
      BY <1>1, <2>1
    <2>. QED
      BY <2>1, <2>2
  <1>. QED
    BY <1>5, <1>6 DEF T
-----------------------------------------------------------------------------
(* Axes *)

LEMMA Scaled ==
  ASSUME NEW a \in Nat, NEW b \in Nat, NEW c \in Nat, a <= b
  PROVE  c * a <= c * b /\ a * c <= b * c /\ c * a \in Nat /\ a * c \in Nat
  BY Z3

LEMMA MaxBlendedIsNat == MaxBlended \in Nat
  <1>1. MaxScore \in Nat /\ Unit \in Nat
    BY PreflightAssumption, RoutingAssumption
  <1>2. MaxScore * 2 \in Nat
    BY <1>1
  <1>3. (MaxScore * 2) * Unit \in Nat
    <2>. DEFINE a == MaxScore * 2
    <2>. HIDE DEF a
    <2>. QED
      BY <1>1, <1>2, Z3 DEF a
  <1>. QED
    BY <1>3 DEF MaxBlended

(* weight * hits / (hits + saturation): no number of keywords makes an axis   *)
(* more confident than its weight.                                          *)
LEMMA ConfidenceSaturates ==
  ASSUME NEW axis \in Axes, NEW hits \in Nat
  PROVE  Confidence(axis, hits) \in 0..Weight[axis]
  <1>. DEFINE w == Weight[axis]
              a == w * hits
              b == hits + Saturation
              q == a \div b
  <1>1. w \in Nat /\ Saturation \in Nat /\ Saturation > 0
    BY RoutingAssumption
  <1>2. a \in Nat /\ b \in Nat /\ b > 0 /\ w * b \in Nat /\ a <= w * b
    <2>. HIDE DEF w
    <2>. QED
      BY <1>1, Scaled
  <1>. HIDE DEF w, a, b
  <1>3. a = b * q + (a % b) /\ 0 <= a % b /\ a % b < b /\ q \in Int
    BY <1>2, Z3
  <1>4. q >= 0
    BY <1>2, <1>3, Z3
  <1>5. q <= w
    BY <1>1, <1>2, <1>3, <1>4, Z3
  <1>. QED
    BY <1>1, <1>3, <1>4, <1>5 DEF Confidence, w, a, b

LEMMA AxesFinite == IsFiniteSet(Axes)
  <1>1. AxesByName \in Seq(Axes)
    BY RoutingAssumption
  <1>2. Len(AxesByName) \in Nat /\ AxesByName \in [1..Len(AxesByName) -> Axes]
    BY <1>1, LenProperties
  <1>3. AxesByName \in Surjection(1..Len(AxesByName), Axes)
    BY <1>2, Fun_IsSurj DEF Axes
  <1>. QED
    BY <1>2, <1>3, FS_Interval, FS_Surjection

Passing(scores) == {a \in DOMAIN scores : scores[a] >= MinConfidence}

(* active_axes(): every axis that passes, once, and nothing else. *)
LEMMA ActiveAxesList ==
  ASSUME NEW scores, DOMAIN scores \in SUBSET Axes, \A a \in DOMAIN scores : scores[a] \in Nat
  PROVE  /\ ActiveAxes(scores) \in Seq(Axes)
         /\ Len(ActiveAxes(scores)) = Cardinality(Passing(scores))
         /\ {ActiveAxes(scores)[j] : j \in 1..Len(ActiveAxes(scores))} = Passing(scores)
  <1>. DEFINE P == Passing(scores)
              byName(a) == CHOOSE j \in 1..Len(AxesByName) : AxesByName[j] = a
              before(a, b) == \/ scores[a] > scores[b]
                              \/ scores[a] = scores[b] /\ byName(a) < byName(b)
              R == {p \in P \X P : before(p[1], p[2])}
              n == Cardinality(P)
              f == Rank(P, R)
              s == [j \in 1..n |-> CHOOSE a \in P : Cardinality({b \in P : before(b, a)}) = j - 1]
  <1>1. IsFiniteSet(P) /\ n \in Nat /\ P \in SUBSET Axes
    BY AxesFinite, FS_Subset, FS_CardinalityType DEF Passing
  <1>2. \A a \in P : scores[a] \in Nat
    BY DEF Passing
  <1>3. ActiveAxes(scores) = s
    BY DEF ActiveAxes, Passing
  <1>4. \A a \in Axes : byName(a) \in 1..Len(AxesByName) /\ AxesByName[byName(a)] = a
    BY DEF Axes
  <1>5. \A a \in Axes : byName(a) \in Int
    <2>1. Len(AxesByName) \in Nat
      BY RoutingAssumption, LenProperties
    <2>. QED
      BY <1>4, <2>1
  <1>. HIDE DEF byName
  <1>6. \A a, b \in P : <<a, b>> \in R <=> before(a, b)
    OBVIOUS
  <1>7. \A a, b \in P : a = b \/ byName(a) < byName(b) \/ byName(b) < byName(a)
    BY <1>1, <1>4, <1>5
  <1>. HIDE DEF R, P
  <1>8. StrictOrder(P, R)
    BY <1>1, <1>2, <1>5, <1>6, <1>7 DEF StrictOrder
  <1>9. \A a \in P : f[a] = Cardinality({b \in P : before(b, a)})
    <2>1. \A a \in P : Before(P, R, a) = {b \in P : before(b, a)}
      BY <1>6 DEF Before
    <2>. QED
      BY <2>1 DEF Rank
  <1>. HIDE DEF before
  <1>10. f \in Bijection(P, 0..n - 1)
    BY <1>1, <1>8, RankIsBijection
  <1>11. /\ \A a \in P : f[a] \in 0..n - 1
         /\ \A i \in 0..n - 1 : \E a \in P : f[a] = i
         /\ \A a, b \in P : f[a] = f[b] => a = b
    <2>. DEFINE I == 0..n - 1
    <2>1. f \in Bijection(P, I)
      BY <1>10
    <2>. HIDE DEF I, f
    <2>2. /\ f \in [P -> I]
          /\ \A a, b \in P : f[a] = f[b] => a = b
          /\ \A i \in I : \E a \in P : f[a] = i
      BY <2>1, Fun_BijectionProperties
    <2>. QED
      BY <2>2 DEF I
  <1>. HIDE DEF f, n
  <1>12. \A j \in 1..n : j - 1 \in 0..n - 1
    BY <1>1
  <1>13. \A j \in 1..n : s[j] \in P /\ f[s[j]] = j - 1
    <2>. SUFFICES ASSUME NEW j \in 1..n
                  PROVE  s[j] \in P /\ f[s[j]] = j - 1
      OBVIOUS
    <2>1. \E a \in P : Cardinality({b \in P : before(b, a)}) = j - 1
      BY <1>9, <1>11, <1>12
    <2>2. s[j] \in P /\ Cardinality({b \in P : before(b, s[j])}) = j - 1
      BY <2>1
    <2>. QED
      BY <1>9, <2>2
  <1>14. \A a \in P : \E j \in 1..n : s[j] = a
    <2>. SUFFICES ASSUME NEW a \in P
                  PROVE  \E j \in 1..n : s[j] = a
      OBVIOUS
    <2>1. f[a] \in 0..n - 1
      BY <1>11
    <2>2. f[a] + 1 \in 1..n /\ (f[a] + 1) - 1 = f[a]
      BY <1>1, <2>1
    <2>3. s[f[a] + 1] \in P /\ f[s[f[a] + 1]] = f[a]
      BY <1>13, <2>2
    <2>. QED
      BY <1>11, <2>2, <2>3
  <1>15. s \in Seq(P) /\ s \in Seq(Axes) /\ Len(s) = n
    <2>1. s \in [1..n -> P] /\ s \in [1..n -> Axes]
      BY <1>1, <1>13
    <2>. HIDE DEF s
    <2>. QED
      BY <1>1, <2>1
  <1>16. {s[j] : j \in 1..n} = P
    BY <1>13, <1>14
  <1>. HIDE DEF s
  <1>. QED
    BY <1>3, <1>15, <1>16 DEF P, n
-----------------------------------------------------------------------------
(* The inductive invariant *)

(* Rows stay, with their kind; a status changes by an approval only. *)
SinceInv ==
  /\ Len(since) <= Len(memories)
  /\ \A m \in 1..Len(since) :
       /\ memories[m][1] = since[m][1]
       /\ \/ memories[m][2] = since[m][2]
          \/ since[m][2] = "proposed" /\ memories[m][2] = "approved"

(* A candidate is a stored memory within the project's scope, and no boost    *)
(* has more than doubled its score.                                         *)
BestInv ==
  \A m \in Ids : best[m] > 0 =>
    /\ m \in Stored
    /\ InScope(m, request[1])
    /\ best[m] <= Score[Kind(m)] * (2 * Unit)

Candidates(side) == {m \in Stored : best[m] > 0 /\ Side[Kind(m)] = side}

(* What the plain global query had to choose from when the request came in. *)
Floor(side) == Matches(side, AnyAxis, request[1]) \cap 1..Len(since)

(* After the floor's query of a store, a memory is a candidate with at least *)
(* its own similarity, or TopK others of that similarity are.               *)
FloorDone(side) ==
  \A m \in Floor(side) :
    \/ best[m] >= Score[Kind(m)] * Unit
    \/ \E H \in SUBSET Candidates(side) :
         Cardinality(H) = TopK /\ \A h \in H : best[h] >= Score[Kind(m)] * Unit

FloorInv ==
  /\ stage # "idle" => \A side \in {"knowledge", "experience"} :
       (\E j \in 1..Len(todo) : todo[j] = <<side, AnyAxis>>) \/ FloorDone(side)
  /\ Retrieved => todo = <<>>

(* Whatever an answer lists is stored and of the project. *)
ListedInv ==
  \A m \in shown \cup decisions \cup tasks :
    m \in Stored /\ (request[1] # NoProject => Project[Kind(m)] \in {request[1], NoProject})

PreflightInv == TypeOK /\ SinceInv /\ BestInv /\ FloorInv /\ ListedInv /\ ApprovedAreListed
-----------------------------------------------------------------------------
(* The operators of the handler *)

LEMMA StoredTypes ==
  ASSUME TypeOK
  PROVE  /\ Len(memories) \in Nat /\ Stored \in SUBSET Nat /\ Stored \in SUBSET Ids /\ IsFiniteSet(Stored)
         /\ \A m \in Stored : /\ Kind(m) \in Kinds /\ StatusOf(m) \in VALID_STATUSES
                              /\ Score[Kind(m)] \in Nat /\ Score[Kind(m)] <= MaxScore
                              /\ RawScore[m] = Score[Kind(m)]
  <1>1. memories \in Seq(Kinds \X VALID_STATUSES) /\ Len(memories) <= MaxMemories
    BY DEF TypeOK
  <1>2. Len(memories) \in Nat /\ \A m \in 1..Len(memories) : memories[m] \in Kinds \X VALID_STATUSES
    BY <1>1, LenProperties, ElementOfSeq
  <1>3. IsFiniteSet(Stored)
    BY <1>2, FS_Interval DEF Stored
  <1>4. Stored \in SUBSET Nat /\ Stored \in SUBSET Ids
    BY <1>1, <1>2, PreflightAssumption DEF Stored, Ids
  <1>5. \A m \in Stored : Kind(m) \in Kinds /\ StatusOf(m) \in VALID_STATUSES
    BY <1>2 DEF Stored, Kind, StatusOf
  <1>6. \A m \in Stored : Score[Kind(m)] \in Nat /\ Score[Kind(m)] <= MaxScore
    BY <1>5, PreflightAssumption
  <1>. QED
    BY <1>2, <1>3, <1>4, <1>5, <1>6 DEF RawScore

(* VectorStore.query() and GraphStore.query(): the TopK most similar. *)
LEMMA QueryRanks ==
  ASSUME TypeOK, NEW side, NEW axis, NEW project
  PROVE  /\ QueryStore(side, axis, project) \in SUBSET Matches(side, axis, project)
         /\ IsFiniteSet(Matches(side, axis, project))
         /\ Cardinality(QueryStore(side, axis, project))
              = Smaller(TopK, Cardinality(Matches(side, axis, project)))
         /\ \A m \in Matches(side, axis, project) \ QueryStore(side, axis, project) :
              \A n \in QueryStore(side, axis, project) : Score[Kind(n)] >= Score[Kind(m)]
  <1>. DEFINE M == Matches(side, axis, project)
  <1>1. M \in SUBSET Stored
    BY DEF Matches
  <1>2. M \in SUBSET Nat /\ IsFiniteSet(M)
    BY <1>1, StoredTypes, FS_Subset
  <1>3. \A m \in M : RawScore[m] \in Nat /\ RawScore[m] = Score[Kind(m)]
    BY <1>1, StoredTypes
  <1>. HIDE DEF M
  <1>4. /\ Top(M, RawScore, TopK) \in SUBSET M
        /\ Cardinality(Top(M, RawScore, TopK)) = Smaller(TopK, Cardinality(M))
        /\ \A m \in M \ Top(M, RawScore, TopK) : \A n \in Top(M, RawScore, TopK) :
             RawScore[n] >= RawScore[m]
    BY <1>2, <1>3, TopProperties, PreflightAssumption
  <1>. QED
    BY <1>2, <1>3, <1>4 DEF M, QueryStore

(* _blend(): a routed hit gains at most what it has. *)
LEMMA BlendedBounds ==
  ASSUME TypeOK, NEW m \in Stored, NEW axis \in Axes \cup {AnyAxis}
  PROVE  /\ Blended(m, axis) \in Nat /\ Score[Kind(m)] * Unit \in Nat
         /\ Score[Kind(m)] * (2 * Unit) \in 0..MaxBlended
         /\ Score[Kind(m)] * Unit <= Blended(m, axis)
         /\ Blended(m, axis) <= Score[Kind(m)] * (2 * Unit)
  <1>. DEFINE s == Score[Kind(m)]
              b == IF axis = AnyAxis THEN Unit ELSE Unit + Confidence(axis, Asked[request[2]][axis])
  <1>1. s \in Nat /\ s <= MaxScore /\ MaxScore \in Nat
    BY StoredTypes, PreflightAssumption
  <1>2. Unit \in Nat /\ Unit > 0
    BY RoutingAssumption
  <1>3. b \in Nat /\ Unit <= b /\ b <= 2 * Unit
    <2>1. CASE axis = AnyAxis
      BY <1>2, <2>1
    <2>2. CASE axis # AnyAxis
      <3>1. Asked[request[2]][axis] \in Nat
        BY <2>2, PreflightAssumption DEF TypeOK, Requests
      <3>2. Weight[axis] \in Nat /\ Weight[axis] <= Unit
        BY <2>2, RoutingAssumption
      <3>3. Confidence(axis, Asked[request[2]][axis]) \in 0..Weight[axis]
        BY <2>2, <3>1, ConfidenceSaturates
      <3>. QED
        BY <1>2, <2>2, <3>2, <3>3
    <2>. QED
      BY <2>1, <2>2
  <1>4. Blended(m, axis) = s * b
    BY DEF Blended
  <1>. HIDE DEF s, b
  <1>5. /\ s * b \in Nat /\ s * Unit \in Nat /\ s * Unit <= s * b /\ s * b <= s * (2 * Unit)
        /\ 2 * Unit \in Nat
    BY <1>1, <1>2, <1>3, Scaled
  <1>6. s * (2 * Unit) \in Nat /\ s * (2 * Unit) <= MaxScore * (2 * Unit)
    BY <1>1, <1>5, Scaled
  <1>7. MaxBlended = MaxScore * (2 * Unit) /\ MaxBlended \in Nat
    BY <1>1, <1>2, <1>5, Scaled, Z3 DEF MaxBlended
  <1>. QED
    BY <1>4, <1>5, <1>6, <1>7 DEF s

(* build_context(): the queries of a request end with the floor's two. *)
LEMMA QueriesEndWithFloor ==
  ASSUME NEW p \in Prompts
  PROVE  /\ Queries(Routing[p]) \in Seq({"knowledge", "experience"} \X (Axes \cup {AnyAxis}))
         /\ \A side \in {"knowledge", "experience"} :
              \E j \in 1..Len(Queries(Routing[p])) : Queries(Routing[p])[j] = <<side, AnyAxis>>
  <1>. DEFINE scores == ScoreAxes(Asked[p], "none")
              axes == Append(Routing[p], AnyAxis)
              n == Len(axes)
              q == [j \in 1..2 * n |->
                     <<IF j % 2 = 1 THEN "knowledge" ELSE "experience", axes[(j + 1) \div 2]>>]
  <1>1. DOMAIN scores \in SUBSET Axes /\ \A a \in DOMAIN scores : scores[a] \in Nat
    <2>1. DOMAIN scores \in SUBSET Axes
      BY DEF ScoreAxes
    <2>2. ASSUME NEW a \in DOMAIN scores
          PROVE  scores[a] \in Nat
      <3>1. a \in Axes /\ Asked[p][a] \in Nat /\ Weight[a] \in Nat
        BY <2>1, PreflightAssumption, RoutingAssumption
      <3>2. scores[a] = Confidence(a, Asked[p][a])
        BY DEF ScoreAxes
      <3>3. Confidence(a, Asked[p][a]) \in 0..Weight[a]
        BY <3>1, ConfidenceSaturates
      <3>. QED
        BY <3>1, <3>2, <3>3
    <2>. QED
      BY <2>1, <2>2
  <1>2. Routing[p] \in Seq(Axes)
    <2>1. Routing[p] = ActiveAxes(scores)
      BY DEF Routing
    <2>. HIDE DEF scores
    <2>. QED
      BY <1>1, <2>1, ActiveAxesList
  <1>3. /\ axes \in Seq(Axes \cup {AnyAxis}) /\ n \in Nat /\ n > 0 /\ axes[n] = AnyAxis
        /\ \A j \in 1..n : axes[j] \in Axes \cup {AnyAxis}
    <2>. DEFINE r == Routing[p]
    <2>. HIDE DEF r
    <2>1. r \in Seq(Axes \cup {AnyAxis})
      BY <1>2 DEF r
    <2>2. /\ Append(r, AnyAxis) \in Seq(Axes \cup {AnyAxis})
          /\ Len(Append(r, AnyAxis)) = Len(r) + 1 /\ Len(r) \in Nat
          /\ Append(r, AnyAxis)[Len(r) + 1] = AnyAxis
      BY <2>1
    <2>. QED
      BY <2>2, ElementOfSeq DEF r
  <1>4. Queries(Routing[p]) = q
    BY DEF Queries
  <1>. HIDE DEF axes, n
  <1>5. \A j \in 1..2 * n : (j + 1) \div 2 \in 1..n
    BY <1>3
  <1>6. q \in [1..2 * n -> {"knowledge", "experience"} \X (Axes \cup {AnyAxis})]
    BY <1>3, <1>5
  <1>7. q \in Seq({"knowledge", "experience"} \X (Axes \cup {AnyAxis})) /\ Len(q) = 2 * n
    <2>1. 2 * n \in Nat
      BY <1>3
    <2>. HIDE DEF q
    <2>. QED
      BY <1>6, <2>1
  <1>8. q[2 * n - 1] = <<"knowledge", AnyAxis>> /\ q[2 * n] = <<"experience", AnyAxis>>
    <2>1. /\ 2 * n - 1 \in 1..2 * n /\ 2 * n \in 1..2 * n
          /\ (2 * n - 1) % 2 = 1 /\ (2 * n) % 2 = 0
          /\ ((2 * n - 1) + 1) \div 2 = n /\ (2 * n + 1) \div 2 = n
      BY <1>3
    <2>. QED
      BY <1>3, <2>1
  <1>9. 2 * n - 1 \in 1..2 * n /\ 2 * n \in 1..2 * n
    BY <1>3
  <1>. HIDE DEF q
  <1>. QED
    BY <1>4, <1>7, <1>8, <1>9
-----------------------------------------------------------------------------
(* Others, between two reads *)

(* A row is added, or a proposal approved. *)
Grows ==
  /\ memories' \in Seq(Kinds \X VALID_STATUSES) /\ Len(memories') <= MaxMemories
  /\ Len(memories) <= Len(memories')
  /\ \A m \in Stored :
       /\ memories'[m][1] = memories[m][1]
       /\ \/ memories'[m][2] = memories[m][2]
          \/ memories[m][2] = "proposed" /\ memories'[m][2] = "approved"

LEMMA StoreGrows ==
  ASSUME TypeOK, NEW k \in Kinds, Store(k)
  PROVE  Grows
  <1>1. <<k, Status[k]>> \in Kinds \X VALID_STATUSES
    BY PreflightAssumption
  <1>2. /\ memories \in Seq(Kinds \X VALID_STATUSES) /\ Len(memories) \in Nat
        /\ Len(memories) + 1 <= MaxMemories /\ memories' = Append(memories, <<k, Status[k]>>)
    BY PreflightAssumption DEF TypeOK, Store
  <1>3. /\ memories' \in Seq(Kinds \X VALID_STATUSES)
        /\ Len(memories') = Len(memories) + 1
        /\ \A m \in 1..Len(memories) : memories'[m] = memories[m]
    BY <1>1, <1>2
  <1>. QED
    BY <1>2, <1>3 DEF Grows, Stored

LEMMA ApproveGrows ==
  ASSUME TypeOK, NEW m \in Stored, Approve(m)
  PROVE  Grows
  <1>1. /\ memories \in Seq(Kinds \X VALID_STATUSES) /\ Len(memories) <= MaxMemories
        /\ m \in 1..Len(memories) /\ memories[m] \in Kinds \X VALID_STATUSES
    BY ElementOfSeq, LenProperties DEF TypeOK, Stored
  <1>2. memories[m][2] = "proposed" /\ memories' = [memories EXCEPT ![m] = [memories[m] EXCEPT ![2] = "approved"]]
    BY DEF Approve, StatusOf
  <1>3. /\ [memories[m] EXCEPT ![2] = "approved"] \in Kinds \X VALID_STATUSES
        /\ [memories[m] EXCEPT ![2] = "approved"][1] = memories[m][1]
        /\ [memories[m] EXCEPT ![2] = "approved"][2] = "approved"
    BY <1>1 DEF VALID_STATUSES
  <1>4. /\ memories' \in Seq(Kinds \X VALID_STATUSES) /\ Len(memories') = Len(memories)
        /\ \A n \in 1..Len(memories) : n # m => memories'[n] = memories[n]
        /\ memories'[m] = [memories[m] EXCEPT ![2] = "approved"]
    <2>. DEFINE row == [memories[m] EXCEPT ![2] = "approved"]
    <2>1. row \in Kinds \X VALID_STATUSES /\ memories' = [memories EXCEPT ![m] = row]
      BY <1>2, <1>3
    <2>. HIDE DEF row
    <2>2. /\ memories' \in Seq(Kinds \X VALID_STATUSES) /\ Len(memories') = Len(memories)
          /\ \A n \in 1..Len(memories) : n # m => memories'[n] = memories[n]
          /\ memories'[m] = row
      BY <1>1, <2>1
    <2>. QED
      BY <2>2 DEF row
  <1>. QED
    BY <1>1, <1>2, <1>3, <1>4, LenProperties DEF Grows, Stored

(* It changes neither what a row is nor, between "proposed" and "approved",    *)
(* whether a query sees it.                                                 *)
LEMMA GrownRows ==
  ASSUME TypeOK, Grows
  PROVE  /\ Stored \subseteq Stored' /\ Len(memories) \in Nat /\ Len(memories') \in Nat
         /\ \A m \in Stored :
              /\ Kind(m)' = Kind(m)
              /\ StatusOf(m)' = StatusOf(m) \/ (StatusOf(m) = "proposed" /\ StatusOf(m)' = "approved")
              /\ StatusOf(m)' \in ExcludedByDefault <=> StatusOf(m) \in ExcludedByDefault
              /\ \A project : InScope(m, project)' <=> InScope(m, project)
  <1>1. Len(memories) \in Nat /\ Len(memories') \in Nat /\ Len(memories) <= Len(memories')
    BY LenProperties DEF TypeOK, Grows
  <1>2. Stored \subseteq Stored'
    BY <1>1 DEF Stored
  <1>3. ASSUME NEW m \in Stored
        PROVE  /\ Kind(m)' = Kind(m)
               /\ StatusOf(m)' = StatusOf(m) \/ (StatusOf(m) = "proposed" /\ StatusOf(m)' = "approved")
    BY <1>3 DEF Grows, Kind, StatusOf
  <1>. QED
    BY <1>1, <1>2, <1>3 DEF ExcludedByDefault, InScope

LEMMA GrowsInv ==
  ASSUME PreflightInv, Grows, UNCHANGED handlerVars
  PROVE  PreflightInv'
  <1>. USE GrownRows DEF handlerVars
  <1>0. TypeOK /\ Len(since) \in Nat /\ Len(since) <= Len(memories)
    BY LenProperties DEF PreflightInv, TypeOK, SinceInv
  <1>1. \A m \in 1..Len(since) : m \in Stored
    BY <1>0 DEF Stored
  <1>2. TypeOK'
    BY <1>0 DEF TypeOK, Grows, Requests, Ids, MaxBlended
  <1>3. SinceInv'
    BY <1>0, <1>1 DEF PreflightInv, SinceInv, Grows
  <1>4. BestInv'
    BY <1>0 DEF PreflightInv, BestInv, Ids
  <1>5. FloorInv'
    <2>1. ASSUME NEW side \in {"knowledge", "experience"}
          PROVE  FloorDone(side) => FloorDone(side)'
      <3>1. Floor(side)' \subseteq Floor(side)
        BY <1>0, <1>1 DEF Floor, Matches, Tags
      <3>2. Candidates(side) \subseteq Candidates(side)'
        BY <1>0 DEF Candidates
      <3>3. \A m \in Floor(side) : Kind(m)' = Kind(m)
        BY <1>0 DEF Floor, Matches
      <3>4. Floor(side)' \subseteq Stored /\ best' = best
        BY <1>0, <3>1 DEF Floor, Matches
      <3>5. ASSUME NEW m \in Floor(side)', FloorDone(side)
            PROVE  \/ best[m] >= Score[Kind(m)'] * Unit
                   \/ \E H \in SUBSET Candidates(side)' :
                        Cardinality(H) = TopK /\ \A h \in H : best[h] >= Score[Kind(m)'] * Unit
        BY <3>1, <3>2, <3>3, <3>5 DEF FloorDone
      <3>. QED
        BY <3>4, <3>5 DEF FloorDone
    <2>. QED
      BY <2>1 DEF PreflightInv, FloorInv, Retrieved
  <1>6. ListedInv'
    BY <1>0 DEF PreflightInv, ListedInv
  <1>7. ApprovedAreListed'
    <2>. SUFFICES ASSUME stage \in {"tasks", "answered"}
                  PROVE  ApprovedAreListed'
      BY DEF ApprovedAreListed
    <2>1. \A m \in decisions : m \in Stored /\ StatusOf(m)' = "approved" /\ Kind(m)' = Kind(m)
      BY <1>0 DEF PreflightInv, ApprovedAreListed, ListedInv
    <2>2. \A m \in 1..Len(since) : Kind(m)' = Kind(m)
      BY <1>0, <1>1
    <2>. QED
      BY <2>1, <2>2 DEF PreflightInv, ApprovedAreListed
  <1>. QED
    BY <1>2, <1>3, <1>4, <1>5, <1>6, <1>7 DEF PreflightInv
-----------------------------------------------------------------------------
(* The handler's steps *)

LEMMA SameMemories ==
  ASSUME UNCHANGED memories
  PROVE  /\ Stored' = Stored
         /\ \A m : Kind(m)' = Kind(m) /\ StatusOf(m)' = StatusOf(m)
         /\ \A m, project : InScope(m, project)' <=> InScope(m, project)
         /\ \A side, axis, project : Matches(side, axis, project)' = Matches(side, axis, project)
  BY DEF Stored, Kind, StatusOf, InScope, Matches, Tags

LEMMA BeginRequestInv ==
  ASSUME PreflightInv, NEW r \in Requests, BeginRequest(r)
  PROVE  PreflightInv'
  <1>1. /\ request' = r /\ stage' = "retrieve" /\ todo' = Queries(Routing[r[2]])
        /\ best' = [m \in Ids |-> 0] /\ since' = memories /\ memories' = memories
        /\ shown' = {} /\ decisions' = {} /\ tasks' = {} /\ warnings' = {} /\ provenance' = {}
    BY DEF BeginRequest
  <1>2. r[2] \in Prompts
    BY DEF Requests
  <1>3. 0 \in 0..MaxBlended
    BY MaxBlendedIsNat
  <1>4. TypeOK'
    BY <1>1, <1>2, <1>3, QueriesEndWithFloor DEF PreflightInv, TypeOK, Requests, Ids, MaxBlended
  <1>5. SinceInv' /\ BestInv' /\ ListedInv' /\ ApprovedAreListed'
    BY <1>1, LenProperties DEF PreflightInv, TypeOK, SinceInv, BestInv, ListedInv, ApprovedAreListed, Ids
  <1>6. FloorInv'
    BY <1>1, <1>2, QueriesEndWithFloor DEF FloorInv, Retrieved
  <1>. QED
    BY <1>4, <1>5, <1>6 DEF PreflightInv

(* What the floor's query of a store leaves behind. *)
LEMMA FloorQuery ==
  ASSUME PreflightInv, RetrieveNext, NEW side \in {"knowledge", "experience"},
         Head(todo) = <<side, AnyAxis>>
  PROVE  FloorDone(side)'
  <1>. DEFINE M == Matches(side, AnyAxis, request[1])
              hits == QueryStore(side, AnyAxis, request[1])
  <1>1. /\ best' = [m \in Ids |->
             IF m \in hits /\ Blended(m, AnyAxis) > best[m] THEN Blended(m, AnyAxis) ELSE best[m]]
        /\ UNCHANGED <<memories, request, since>>
    BY DEF RetrieveNext
  <1>2. /\ hits \in SUBSET M /\ IsFiniteSet(M) /\ Cardinality(hits) = Smaller(TopK, Cardinality(M))
        /\ \A m \in M \ hits : \A n \in hits : Score[Kind(n)] >= Score[Kind(m)]
    BY QueryRanks DEF PreflightInv
  <1>3. M \in SUBSET Stored /\ \A m \in M : m \in Ids /\ Side[Kind(m)] = side /\ Score[Kind(m)] > 0
    BY StoredTypes DEF PreflightInv, Matches
  <1>. HIDE DEF hits, M
  <1>4. ASSUME NEW m \in hits
        PROVE  /\ best'[m] >= Score[Kind(m)] * Unit /\ best'[m] > 0
               /\ m \in Candidates(side)'
    <2>1. m \in Stored /\ m \in Ids /\ Score[Kind(m)] \in Nat /\ Score[Kind(m)] > 0
      BY <1>2, <1>3, StoredTypes DEF PreflightInv
    <2>2. /\ Blended(m, AnyAxis) \in Nat /\ Score[Kind(m)] * Unit \in Nat
          /\ Score[Kind(m)] * Unit <= Blended(m, AnyAxis)
      BY <2>1, BlendedBounds DEF PreflightInv
    <2>3. best[m] \in Nat
      BY <2>1 DEF PreflightInv, TypeOK
    <2>4. best'[m] >= Blended(m, AnyAxis)
      BY <1>1, <2>1, <2>2, <2>3
    <2>5. Score[Kind(m)] * Unit > 0
      <3>1. Unit \in Nat /\ Unit > 0 /\ 1 <= Score[Kind(m)]
        BY <2>1, RoutingAssumption
      <3>2. 1 * Unit <= Score[Kind(m)] * Unit
        BY <2>1, <3>1, Scaled
      <3>. QED
        BY <2>2, <3>1, <3>2
    <2>6. best'[m] >= Score[Kind(m)] * Unit /\ best'[m] > 0
      BY <1>1, <2>1, <2>2, <2>3, <2>4, <2>5
    <2>7. m \in Candidates(side)'
      BY <1>1, <1>2, <1>3, <2>1, <2>6, SameMemories DEF Candidates
    <2>. QED
      BY <2>6, <2>7
  <1>5. ASSUME NEW m \in M, m \notin hits
        PROVE  Cardinality(hits) = TopK /\ \A h \in hits : best'[h] >= Score[Kind(m)] * Unit
    <2>1. Cardinality(M) # Cardinality(hits)
      BY <1>2, <1>5, FS_Subset
    <2>2. Cardinality(hits) = TopK
      BY <1>2, <2>1 DEF Smaller
    <2>3. ASSUME NEW h \in hits
          PROVE  best'[h] >= Score[Kind(m)] * Unit
      <3>1. /\ Score[Kind(m)] \in Nat /\ Score[Kind(h)] \in Nat /\ Unit \in Nat
            /\ Score[Kind(m)] <= Score[Kind(h)]
        BY <1>2, <1>3, <1>5, StoredTypes, RoutingAssumption DEF PreflightInv
      <3>2. /\ Score[Kind(m)] * Unit <= Score[Kind(h)] * Unit
            /\ Score[Kind(m)] * Unit \in Nat /\ Score[Kind(h)] * Unit \in Nat
        BY <3>1, Scaled
      <3>3. best'[h] >= Score[Kind(h)] * Unit
        BY <1>4
      <3>4. h \in Ids /\ best'[h] \in Int
        <4>1. h \in Ids /\ h \in Stored
          BY <1>2, <1>3
        <4>2. best[h] \in Int /\ Blended(h, AnyAxis) \in Int
          BY <4>1, BlendedBounds DEF PreflightInv, TypeOK
        <4>. QED
          BY <1>1, <4>1, <4>2
      <3>. QED
        BY <3>2, <3>3, <3>4
    <2>. QED
      BY <2>2, <2>3
  <1>6. hits \in SUBSET Candidates(side)'
    BY <1>4
  <1>7. Floor(side)' \subseteq M /\ \A m : Kind(m)' = Kind(m)
    BY <1>1, SameMemories DEF Floor, M
  <1>8. ASSUME NEW m \in Floor(side)'
        PROVE  \/ best'[m] >= Score[Kind(m)'] * Unit
               \/ \E H \in SUBSET Candidates(side)' :
                    Cardinality(H) = TopK /\ \A h \in H : best'[h] >= Score[Kind(m)'] * Unit
    BY <1>4, <1>5, <1>6, <1>7
  <1>. QED
    BY <1>8 DEF FloorDone

LEMMA RetrieveNextInv ==
  ASSUME PreflightInv, RetrieveNext
  PROVE  PreflightInv'
  <1>. DEFINE axis == Head(todo)[2]
              hits == QueryStore(Head(todo)[1], axis, request[1])
  <1>1. /\ stage = "retrieve" /\ todo # <<>> /\ todo' = Tail(todo)
        /\ best' = [m \in Ids |->
             IF m \in hits /\ Blended(m, axis) > best[m] THEN Blended(m, axis) ELSE best[m]]
        /\ UNCHANGED <<memories, request, stage, shown, decisions, tasks, warnings, provenance, since>>
    BY DEF RetrieveNext
  <1>2. /\ Head(todo) \in {"knowledge", "experience"} \X (Axes \cup {AnyAxis})
        /\ Tail(todo) \in Seq({"knowledge", "experience"} \X (Axes \cup {AnyAxis}))
        /\ Head(todo) = todo[1]
        /\ Len(todo) \in Nat /\ Len(todo) >= 1 /\ Len(Tail(todo)) = Len(todo) - 1
        /\ \A j \in 1..Len(todo) : j > 1 => j - 1 \in 1..Len(Tail(todo)) /\ Tail(todo)[j - 1] = todo[j]
    <2>. DEFINE Q == {"knowledge", "experience"} \X (Axes \cup {AnyAxis})
    <2>1. todo \in Seq(Q) /\ todo # <<>>
      BY <1>1 DEF PreflightInv, TypeOK
    <2>. HIDE DEF Q
    <2>2. /\ Head(todo) \in Q /\ Tail(todo) \in Seq(Q) /\ Len(todo) \in Nat /\ Len(todo) >= 1
          /\ Len(Tail(todo)) = Len(todo) - 1
          /\ \A i \in 1..Len(Tail(todo)) : Tail(todo)[i] = todo[i + 1]
      BY <2>1, HeadTailProperties, EmptySeq, LenProperties
    <2>3. Head(todo) = todo[1]
      BY <2>1
    <2>. QED
      BY <2>2, <2>3 DEF Q
  <1>3. \A m \in hits : m \in Stored /\ m \in Ids /\ InScope(m, request[1])
    <2>1. hits \in SUBSET Matches(Head(todo)[1], axis, request[1])
      BY QueryRanks DEF PreflightInv
    <2>. QED
      BY <2>1, StoredTypes DEF PreflightInv, Matches
  <1>4. \A m \in hits : /\ Blended(m, axis) \in 0..MaxBlended
                        /\ Blended(m, axis) <= Score[Kind(m)] * (2 * Unit)
    <2>1. axis \in Axes \cup {AnyAxis} /\ MaxBlended \in Int
      BY <1>2, PreflightAssumption, RoutingAssumption, Scaled DEF MaxBlended
    <2>. SUFFICES ASSUME NEW m \in hits
                  PROVE  /\ Blended(m, axis) \in 0..MaxBlended
                         /\ Blended(m, axis) <= Score[Kind(m)] * (2 * Unit)
      OBVIOUS
    <2>. HIDE DEF axis, hits
    <2>2. /\ Blended(m, axis) \in Nat /\ Score[Kind(m)] * (2 * Unit) \in 0..MaxBlended
          /\ Blended(m, axis) <= Score[Kind(m)] * (2 * Unit)
      BY <1>3, <2>1, BlendedBounds DEF PreflightInv
    <2>. QED
      BY <2>1, <2>2
  <1>5. best \in [Ids -> 0..MaxBlended]
    BY DEF PreflightInv, TypeOK
  <1>. HIDE DEF axis, hits
  <1>6. best' \in [Ids -> 0..MaxBlended] /\ \A m \in Ids : best'[m] >= best[m]
    <2>1. ASSUME NEW m \in Ids
          PROVE  best'[m] \in 0..MaxBlended /\ best'[m] >= best[m]
      BY <1>1, <1>4, <1>5
    <2>. QED
      BY <1>1, <2>1
  <1>7. TypeOK'
    BY <1>1, <1>2, <1>6 DEF PreflightInv, TypeOK, Requests, Ids, MaxBlended
  <1>8. SinceInv' /\ ListedInv' /\ ApprovedAreListed'
    BY <1>1 DEF PreflightInv, SinceInv, ListedInv, ApprovedAreListed, Stored, Kind
  <1>9. BestInv'
    <2>1. ASSUME NEW m \in Ids, best'[m] > 0
          PROVE  m \in Stored /\ InScope(m, request[1]) /\ best'[m] <= Score[Kind(m)] * (2 * Unit)
      BY <1>1, <1>3, <1>4, <2>1 DEF PreflightInv, BestInv
    <2>. QED
      BY <1>1, <2>1, SameMemories DEF BestInv, Ids
  <1>10. FloorInv'
    <2>1. ASSUME NEW side \in {"knowledge", "experience"}, FloorDone(side)
          PROVE  FloorDone(side)'
      <3>1. Floor(side)' = Floor(side) /\ \A m : Kind(m)' = Kind(m)
        BY <1>1, SameMemories DEF Floor
      <3>2. \A m \in Ids : best[m] \in Nat /\ best'[m] \in Nat /\ best'[m] >= best[m]
        BY <1>5, <1>6
      <3>3. \A m \in Stored : m \in Ids
        BY StoredTypes DEF PreflightInv
      <3>4. Candidates(side) \subseteq Candidates(side)'
        BY <1>1, <3>2, <3>3, SameMemories DEF Candidates
      <3>5. \A m \in Floor(side) \cup Candidates(side) : m \in Ids
        BY <3>3 DEF Floor, Matches, Candidates
      <3>6. \A m \in Floor(side) : Score[Kind(m)] * Unit \in Nat
        BY StoredTypes, RoutingAssumption, Scaled DEF PreflightInv, Floor, Matches
      <3>7. ASSUME NEW m \in Floor(side), best[m] >= Score[Kind(m)] * Unit
            PROVE  best'[m] >= Score[Kind(m)] * Unit
        BY <3>2, <3>5, <3>6, <3>7
      <3>8. ASSUME NEW m \in Floor(side), NEW H \in SUBSET Candidates(side), Cardinality(H) = TopK,
                   \A h \in H : best[h] >= Score[Kind(m)] * Unit
            PROVE  /\ H \in SUBSET Candidates(side)'
                   /\ \A h \in H : best'[h] >= Score[Kind(m)] * Unit
        BY <3>2, <3>4, <3>5, <3>6, <3>8
      <3>9. ASSUME NEW m \in Floor(side)
            PROVE  \/ best'[m] >= Score[Kind(m)] * Unit
                   \/ \E H \in SUBSET Candidates(side)' :
                        Cardinality(H) = TopK /\ \A h \in H : best'[h] >= Score[Kind(m)] * Unit
        BY <2>1, <3>7, <3>8 DEF FloorDone
      <3>. QED
        BY <3>1, <3>9 DEF FloorDone
    <2>2. ASSUME NEW side \in {"knowledge", "experience"}
          PROVE  (\E j \in 1..Len(Tail(todo)) : Tail(todo)[j] = <<side, AnyAxis>>) \/ FloorDone(side)'
      <3>1. CASE FloorDone(side)
        BY <2>1, <3>1
      <3>2. CASE ~FloorDone(side)
        <4>1. PICK j \in 1..Len(todo) : todo[j] = <<side, AnyAxis>>
          BY <1>1, <3>2 DEF PreflightInv, FloorInv
        <4>2. CASE j = 1
          BY <1>2, <4>1, <4>2, FloorQuery
        <4>3. CASE j # 1
          <5>1. j - 1 \in 1..Len(Tail(todo)) /\ Tail(todo)[j - 1] = <<side, AnyAxis>>
            BY <1>2, <4>1, <4>3
          <5>. QED
            BY <5>1
        <4>. QED
          BY <4>2, <4>3
      <3>. QED
        BY <3>1, <3>2
    <2>. QED
      BY <1>1, <2>2 DEF FloorInv, Retrieved
  <1>. QED
    BY <1>7, <1>8, <1>9, <1>10 DEF PreflightInv

(* What merge() starts from: the TopK best candidates of a store. *)
LEMMA PoolRanks ==
  ASSUME TypeOK, NEW side
  PROVE  /\ Pool(side) \in SUBSET Candidates(side) /\ Candidates(side) \in SUBSET Stored
         /\ IsFiniteSet(Candidates(side))
         /\ Cardinality(Pool(side)) = Smaller(TopK, Cardinality(Candidates(side)))
         /\ \A m \in Candidates(side) \ Pool(side) : \A n \in Pool(side) : best[n] >= best[m]
  <1>. DEFINE C == Candidates(side)
  <1>1. C \in SUBSET Stored
    BY DEF Candidates
  <1>2. C \in SUBSET Nat /\ IsFiniteSet(C) /\ C \in SUBSET Ids
    BY <1>1, StoredTypes, FS_Subset
  <1>3. \A m \in C : best[m] \in Nat
    BY <1>2 DEF TypeOK
  <1>4. Pool(side) = Top(C, best, TopK)
    BY DEF Pool, Candidates
  <1>. HIDE DEF C
  <1>5. TopK \in Nat
    BY PreflightAssumption
  <1>6. /\ Top(C, best, TopK) \in SUBSET C
        /\ Cardinality(Top(C, best, TopK)) = Smaller(TopK, Cardinality(C))
        /\ \A m \in C \ Top(C, best, TopK) : \A n \in Top(C, best, TopK) : best[n] >= best[m]
    BY <1>2, <1>3, <1>5, TopProperties
  <1>. QED
    BY <1>1, <1>2, <1>4, <1>6 DEF C

(* Whatever the budget leaves of the merged list is within the scope. *)
LEMMA MergeInv ==
  ASSUME PreflightInv, Merge
  PROVE  PreflightInv'
  <1>1. /\ stage = "retrieve" /\ stage' = "decisions" /\ todo = <<>>
        /\ UNCHANGED <<memories, request, todo, best, decisions, tasks, warnings, provenance, since>>
    BY DEF Merge
  <1>2. \A m \in shown' : \E side \in {"knowledge", "experience"} : m \in Candidates(side)
    <2>1. \A m \in shown' : m \in Pool("knowledge") \cup Pool("experience")
      BY DEF Merge, Merged
    <2>. QED
      BY <2>1, PoolRanks DEF PreflightInv
  <1>3. ASSUME NEW m \in shown'
        PROVE  m \in Stored /\ m \in Ids /\ InScope(m, request[1])
    <2>1. m \in Stored /\ best[m] > 0
      BY <1>2 DEF Candidates
    <2>2. m \in Ids
      BY <2>1, StoredTypes DEF PreflightInv
    <2>. QED
      BY <2>1, <2>2 DEF PreflightInv, BestInv
  <1>4. TypeOK'
    BY <1>1, <1>3 DEF PreflightInv, TypeOK, Requests, Ids, MaxBlended
  <1>5. SinceInv' /\ BestInv'
    BY <1>1 DEF PreflightInv, SinceInv, BestInv, Ids, Stored, InScope, Kind
  <1>6. FloorInv'
    BY <1>1 DEF PreflightInv, FloorInv, Retrieved, FloorDone, Floor, Candidates, Matches, Stored, Kind,
                StatusOf, InScope, Tags
  <1>7. ListedInv'
    BY <1>1, <1>3 DEF PreflightInv, ListedInv, InScope, Stored, Kind
  <1>8. ApprovedAreListed'
    BY <1>1 DEF ApprovedAreListed
  <1>. QED
    BY <1>4, <1>5, <1>6, <1>7, <1>8 DEF PreflightInv

(* The rows that _structured() asks for. *)
Rows(type, status, project) ==
  {m \in Stored : Type[Kind(m)] = type /\ StatusOf(m) = status /\ project \in {NoProject, Project[Kind(m)]}}

LEMMA FoundRanks ==
  ASSUME TypeOK, NEW type, NEW status, NEW project
  PROVE  /\ Found(type, status, project) \in SUBSET Rows(type, status, project)
         /\ \A m \in Rows(type, status, project) \ Found(type, status, project) :
              /\ Cardinality(Found(type, status, project)) = Limit
              /\ \A n \in Found(type, status, project) : Score[Kind(n)] >= Score[Kind(m)]
  <1>. DEFINE M == Rows(type, status, project)
              T == Found(type, status, project)
  <1>1. M \in SUBSET Stored
    BY DEF Rows
  <1>2. M \in SUBSET Nat /\ IsFiniteSet(M)
    BY <1>1, StoredTypes, FS_Subset
  <1>3. \A m \in M : RawScore[m] \in Nat /\ RawScore[m] = Score[Kind(m)]
    BY <1>1, StoredTypes
  <1>4. T = Top(M, RawScore, Limit)
    BY DEF Found, Rows
  <1>. HIDE DEF M, T
  <1>5. Limit \in Nat
    BY PreflightAssumption
  <1>6. /\ T \in SUBSET M /\ Cardinality(T) = Smaller(Limit, Cardinality(M))
        /\ \A m \in M \ T : \A n \in T : RawScore[n] >= RawScore[m]
    BY <1>2, <1>3, <1>4, <1>5, TopProperties
  <1>7. ASSUME NEW m \in M \ T
        PROVE  Cardinality(T) = Limit
    <2>1. Cardinality(T) # Cardinality(M)
      BY <1>2, <1>6, <1>7, FS_Subset
    <2>. QED
      BY <1>6, <2>1 DEF Smaller
  <1>. QED
    BY <1>3, <1>6, <1>7 DEF M, T

(* _structured() returns rows of the asked type, status and project: those    *)
(* found, or none with a warning.                                           *)
LEMMA StructuredAnswers ==
  ASSUME TypeOK, NEW type, NEW status, NEW project, NEW answer \in Structured(type, status, project)
  PROVE  /\ answer.warned \subseteq {type}
         /\ \A m \in answer.rows : /\ m \in Stored /\ m \in Ids /\ StatusOf(m) = status
                                   /\ project \in {NoProject, Project[Kind(m)]}
         /\ \A m \in Rows(type, status, project) \ answer.rows :
              \/ answer.warned = {type}
              \/ /\ Cardinality(answer.rows) = Limit
                 /\ \A n \in answer.rows : Score[Kind(n)] >= Score[Kind(m)]
  <1>. DEFINE F == Found(type, status, project)
  <1>1. /\ F \in SUBSET Rows(type, status, project)
        /\ \A m \in Rows(type, status, project) \ F :
             Cardinality(F) = Limit /\ \A n \in F : Score[Kind(n)] >= Score[Kind(m)]
    BY FoundRanks
  <1>2. \/ answer.rows = F /\ answer.warned = {}
        \/ answer.rows = {} /\ answer.warned = {type}
    BY DEF Structured
  <1>3. \A m \in Rows(type, status, project) :
          /\ m \in Stored /\ m \in Ids /\ StatusOf(m) = status
          /\ project \in {NoProject, Project[Kind(m)]}
    BY StoredTypes DEF Rows
  <1>. HIDE DEF F
  <1>. QED
    BY <1>1, <1>2, <1>3

(* A decision that was approved when the request came in still is, so the    *)
(* lookup's rows hold it, unless the lookup failed and the answer says so.   *)
LEMMA LookUpDecisionsInv ==
  ASSUME PreflightInv, LookUpDecisions
  PROVE  PreflightInv'
  <1>. DEFINE R == Rows("decision", "approved", request[1])
  <1>1. PICK answer \in Structured("decision", "approved", request[1]) :
          decisions' = answer.rows /\ warnings' = warnings \cup answer.warned
    BY DEF LookUpDecisions
  <1>2. /\ stage = "decisions" /\ stage' = "tasks"
        /\ UNCHANGED <<memories, request, todo, best, shown, tasks, provenance, since>>
    BY DEF LookUpDecisions
  <1>3. /\ warnings' = warnings \cup answer.warned /\ answer.warned \subseteq {"decision"}
        /\ \A m \in decisions' : /\ m \in Stored /\ m \in Ids /\ StatusOf(m) = "approved"
                                 /\ request[1] \in {NoProject, Project[Kind(m)]}
        /\ \A m \in R \ decisions' :
             \/ answer.warned = {"decision"}
             \/ Cardinality(decisions') = Limit /\ \A n \in decisions' : Score[Kind(n)] >= Score[Kind(m)]
    BY <1>1, StructuredAnswers DEF PreflightInv
  <1>4. TypeOK'
    BY <1>2, <1>3 DEF PreflightInv, TypeOK, Requests, Ids, MaxBlended
  <1>5. SinceInv' /\ BestInv'
    BY <1>2 DEF PreflightInv, SinceInv, BestInv, Ids, Stored, InScope, Kind
  <1>6. FloorInv'
    BY <1>2 DEF PreflightInv, FloorInv, Retrieved, FloorDone, Floor, Candidates, Matches, Stored, Kind,
                StatusOf, InScope, Tags
  <1>7. ListedInv'
    BY <1>2, <1>3 DEF PreflightInv, ListedInv, Stored, Kind
  <1>8. ApprovedAreListed'
    <2>1. ASSUME NEW m \in 1..Len(since), Type[Kind(m)] = "decision", since[m][2] = "approved",
                 Project[Kind(m)] = request[1]
          PROVE  m \in R
      <3>1. m \in Stored
        BY LenProperties DEF PreflightInv, TypeOK, SinceInv, Stored
      <3>2. StatusOf(m) = "approved"
        BY <2>1 DEF PreflightInv, SinceInv, StatusOf
      <3>. QED
        BY <2>1, <3>1, <3>2 DEF Rows
    <2>2. answer.warned = {"decision"} => "decision" \in warnings'
      BY <1>3
    <2>. HIDE DEF R
    <2>3. \A m : Kind(m)' = Kind(m) /\ StatusOf(m)' = StatusOf(m)
      BY <1>2, SameMemories
    <2>. QED
      BY <1>2, <1>3, <2>1, <2>2, <2>3 DEF ApprovedAreListed
  <1>. QED
    BY <1>4, <1>5, <1>6, <1>7, <1>8 DEF PreflightInv

LEMMA LookUpTasksInv ==
  ASSUME PreflightInv, LookUpTasks
  PROVE  PreflightInv'
  <1>1. PICK answer \in Structured("task", "proposed", request[1]) :
          tasks' = answer.rows /\ warnings' = warnings \cup answer.warned
    BY DEF LookUpTasks
  <1>2. /\ stage = "tasks" /\ stage' = "answered"
        /\ provenance' = (shown \cup decisions) \X {"approved"} \cup tasks' \X {"proposed"}
        /\ UNCHANGED <<memories, request, todo, best, shown, decisions, since>>
    BY DEF LookUpTasks
  <1>3. /\ warnings' = warnings \cup answer.warned /\ answer.warned \subseteq {"task"}
        /\ \A m \in tasks' : m \in Stored /\ m \in Ids /\ request[1] \in {NoProject, Project[Kind(m)]}
    BY <1>1, StructuredAnswers DEF PreflightInv
  <1>4. shown' \cup decisions' \cup tasks' \subseteq Ids /\ warnings' \subseteq {"decision", "task"}
    BY <1>2, <1>3 DEF PreflightInv, TypeOK
  <1>5. provenance' \subseteq Ids \X VALID_STATUSES
    <2>1. {"approved", "proposed"} \subseteq VALID_STATUSES
      BY DEF VALID_STATUSES
    <2>. QED
      BY <1>2, <1>3, <1>4, <2>1
  <1>6. TypeOK'
    BY <1>2, <1>4, <1>5 DEF PreflightInv, TypeOK, Requests, Ids, MaxBlended
  <1>7. SinceInv' /\ BestInv'
    BY <1>2 DEF PreflightInv, SinceInv, BestInv, Ids, Stored, InScope, Kind
  <1>8. FloorInv'
    BY <1>2 DEF PreflightInv, FloorInv, Retrieved, FloorDone, Floor, Candidates, Matches, Stored, Kind,
                StatusOf, InScope, Tags
  <1>9. ListedInv'
    BY <1>2, <1>3 DEF PreflightInv, ListedInv, Stored, Kind
  <1>10. ApprovedAreListed'
    <2>1. \A m : Kind(m)' = Kind(m) /\ StatusOf(m)' = StatusOf(m)
      BY <1>2, SameMemories
    <2>. QED
      BY <1>2, <1>3, <2>1 DEF PreflightInv, ApprovedAreListed
  <1>. QED
    BY <1>6, <1>7, <1>8, <1>9, <1>10 DEF PreflightInv

LEMMA FailRequestInv ==
  ASSUME PreflightInv, FailRequest
  PROVE  PreflightInv'
  <1>1. /\ stage' = "idle" /\ todo' = <<>> /\ best' = [m \in Ids |-> 0] /\ since' = <<>>
        /\ shown' = {} /\ decisions' = {} /\ tasks' = {} /\ warnings' = {}
        /\ UNCHANGED <<memories, request, provenance>>
    BY DEF FailRequest
  <1>2. 0 \in 0..MaxBlended
    BY MaxBlendedIsNat
  <1>3. MaxMemories \in Nat
    BY PreflightAssumption
  <1>4. TypeOK'
    BY <1>1, <1>2, <1>3 DEF PreflightInv, TypeOK, Requests, Ids, MaxBlended
  <1>5. Len(memories') \in Nat
    BY <1>1, LenProperties DEF PreflightInv, TypeOK
  <1>6. SinceInv' /\ BestInv' /\ FloorInv' /\ ListedInv' /\ ApprovedAreListed'
    BY <1>1, <1>5 DEF SinceInv, BestInv, FloorInv, Retrieved, ListedInv, ApprovedAreListed, Ids
  <1>. QED
    BY <1>4, <1>6 DEF PreflightInv

LEMMA InitPreflightInv == Init => PreflightInv
  <1>. SUFFICES ASSUME Init
                PROVE  PreflightInv
    OBVIOUS
  <1>1. 0 \in 0..MaxBlended /\ MaxMemories \in Nat
    BY MaxBlendedIsNat, PreflightAssumption
  <1>2. TypeOK
    BY <1>1 DEF Init, TypeOK, Ids
  <1>3. SinceInv /\ BestInv /\ FloorInv /\ ListedInv /\ ApprovedAreListed
    BY DEF Init, SinceInv, BestInv, FloorInv, ListedInv, ApprovedAreListed, Retrieved, Ids
  <1>. QED
    BY <1>2, <1>3 DEF PreflightInv

LEMMA NextPreflightInv == PreflightInv /\ [Next]_vars => PreflightInv'
  <1>. SUFFICES ASSUME PreflightInv, [Next]_vars
                PROVE  PreflightInv'
    OBVIOUS
  <1>0. TypeOK
    BY DEF PreflightInv
  <1>1. ASSUME NEW k \in Kinds, Store(k)
        PROVE  PreflightInv'
    BY <1>0, <1>1, StoreGrows, GrowsInv DEF Store
  <1>2. ASSUME NEW m \in Stored, Approve(m)
        PROVE  PreflightInv'
    BY <1>0, <1>2, ApproveGrows, GrowsInv DEF Approve
  <1>3. CASE UNCHANGED vars
    <2>1. memories \in Seq(Kinds \X VALID_STATUSES) /\ Len(memories) <= MaxMemories /\ Len(memories) \in Nat
      BY LenProperties DEF PreflightInv, TypeOK
    <2>2. Grows /\ UNCHANGED handlerVars
      BY <1>3, <2>1 DEF vars, Grows
    <2>. QED
      BY <2>2, GrowsInv
  <1>. QED
    BY <1>1, <1>2, <1>3, BeginRequestInv, RetrieveNextInv, MergeInv, LookUpDecisionsInv, LookUpTasksInv,
       FailRequestInv DEF Next

(* The inductive invariant of a preflight. *)
THEOREM PreflightSafety == Spec => []PreflightInv
  BY InitPreflightInv, NextPreflightInv, PTL DEF Spec

(* Every score stays within twice the highest similarity, whatever the axes,  *)
(* their weights and the keywords (context_builder._blend()).               *)
THEOREM TypeCorrect == Spec => []TypeOK
  <1>1. PreflightInv => TypeOK
    BY DEF PreflightInv
  <1>. QED
    BY <1>1, PreflightSafety, PTL

(* No memory of another project reaches a prompt whose project is resolved   *)
(* (the project filter of query() and search()).                            *)
THEOREM NoForeignProjectAlways == Spec => []NoForeignProject
  <1>1. PreflightInv => NoForeignProject
    BY DEF PreflightInv, ListedInv, NoForeignProject
  <1>. QED
    BY <1>1, PreflightSafety, PTL

(* relevant_decisions holds the project's approved decisions, or Limit that   *)
(* rank no lower, although admin approvals happen between the reads; it may  *)
(* be short only in an answer that warns of a failed lookup.                 *)
THEOREM ApprovedAreListedAlways == Spec => []ApprovedAreListed
  <1>1. PreflightInv => ApprovedAreListed
    BY DEF PreflightInv
  <1>. QED
    BY <1>1, PreflightSafety, PTL

(* A memory of the floor has some similarity, so it is a candidate once it    *)
(* has that score.                                                          *)
LEMMA FloorIsPositive ==
  ASSUME TypeOK, NEW side, NEW m \in Floor(side)
  PROVE  /\ m \in Stored /\ m \in Ids /\ Side[Kind(m)] = side
         /\ Score[Kind(m)] \in Nat /\ Score[Kind(m)] * Unit \in Nat /\ Score[Kind(m)] * Unit > 0
         /\ Unit \in Nat /\ Unit > 0
  <1>1. /\ m \in Stored /\ Side[Kind(m)] = side /\ Score[Kind(m)] > 0
        /\ m \in Ids /\ Score[Kind(m)] \in Nat
    BY StoredTypes DEF Floor, Matches
  <1>2. Unit \in Nat /\ Unit > 0 /\ 1 <= Score[Kind(m)]
    BY <1>1, RoutingAssumption
  <1>3. 1 * Unit <= Score[Kind(m)] * Unit /\ Score[Kind(m)] * Unit \in Nat
    BY <1>1, <1>2, Scaled
  <1>. QED
    BY <1>1, <1>2, <1>3

(* The global recall floor of build_context(): retrieval returns at least as *)
(* many memories of a store as the plain query would have, whatever the      *)
(* prompt routes to.                                                        *)
THEOREM RecallFloorAlways == Spec => []RecallFloor
  <1>1. ASSUME PreflightInv, Retrieved, NEW side \in {"knowledge", "experience"}
        PROVE  Cardinality(Pool(side)) >= Smaller(TopK, Cardinality(Floor(side)))
    <2>. DEFINE C == Candidates(side)
                F == Floor(side)
    <2>0. TypeOK
      BY <1>1 DEF PreflightInv
    <2>1. FloorDone(side)
      <3>1. todo = <<>> /\ stage # "idle"
        BY <1>1 DEF PreflightInv, FloorInv, Retrieved
      <3>. QED
        BY <1>1, <3>1 DEF PreflightInv, FloorInv
    <2>2. IsFiniteSet(C) /\ Cardinality(Pool(side)) = Smaller(TopK, Cardinality(C))
      BY <2>0, PoolRanks
    <2>3. IsFiniteSet(F)
      BY <2>0, StoredTypes, FS_Subset DEF Floor, Matches
    <2>4. \A m \in F : best[m] > 0 => m \in C
      BY <2>0, FloorIsPositive DEF Candidates
    <2>5. \A m \in F : m \in Ids /\ best[m] \in Nat /\ Score[Kind(m)] * Unit \in Nat /\ Score[Kind(m)] * Unit > 0
      BY <2>0, FloorIsPositive DEF TypeOK
    <2>6. CASE \A m \in F : best[m] >= Score[Kind(m)] * Unit
      <3>1. \A m \in F : best[m] > 0
        BY <2>5, <2>6
      <3>2. F \in SUBSET C
        BY <2>4, <3>1
      <3>. HIDE DEF C, F
      <3>3. Cardinality(F) <= Cardinality(C) /\ Cardinality(F) \in Nat /\ Cardinality(C) \in Nat
        BY <2>2, <3>2, FS_Subset, FS_CardinalityType
      <3>. QED
        BY <2>2, <3>3, PreflightAssumption DEF Smaller, F
    <2>7. CASE \E H \in SUBSET C : Cardinality(H) = TopK
      <3>. HIDE DEF C, F
      <3>1. TopK <= Cardinality(C) /\ Cardinality(C) \in Nat /\ Cardinality(F) \in Nat
        BY <2>2, <2>3, <2>7, FS_Subset, FS_CardinalityType
      <3>. QED
        BY <2>2, <3>1, PreflightAssumption DEF Smaller, F
    <2>. QED
      BY <2>1, <2>6, <2>7 DEF FloorDone
  <1>2. PreflightInv => RecallFloor
    BY <1>1 DEF RecallFloor, Floor
  <1>. QED
    BY <1>2, PreflightSafety, PTL

(* _blend() and merge(): what is left out of a store's pool is outranked by  *)
(* no memory less than half as similar, for any number of boosted axes.     *)
THEOREM BoundedTiltAlways == Spec => []BoundedTilt
  <1>1. ASSUME PreflightInv, Retrieved, NEW side \in {"knowledge", "experience"},
               NEW m \in Floor(side) \ Pool(side), NEW n \in Pool(side)
        PROVE  2 * Score[Kind(n)] >= Score[Kind(m)]
    <2>. DEFINE C == Candidates(side)
                P == Pool(side)
    <2>0. TypeOK
      BY <1>1 DEF PreflightInv
    <2>1. FloorDone(side)
      <3>1. todo = <<>> /\ stage # "idle"
        BY <1>1 DEF PreflightInv, FloorInv, Retrieved
      <3>. QED
        BY <1>1, <3>1 DEF PreflightInv, FloorInv
    <2>2. /\ P \in SUBSET C /\ IsFiniteSet(C) /\ Cardinality(P) = Smaller(TopK, Cardinality(C))
          /\ \A a \in C \ P : \A b \in P : best[b] >= best[a]
      BY <2>0, PoolRanks
    <2>3. /\ m \in Ids /\ m \in Stored /\ Side[Kind(m)] = side /\ Score[Kind(m)] \in Nat
          /\ Score[Kind(m)] * Unit \in Nat /\ Score[Kind(m)] * Unit > 0
          /\ Unit \in Nat /\ Unit > 0
      BY <1>1, <2>0, FloorIsPositive
    <2>4. \A a \in C : a \in Ids /\ best[a] \in Nat /\ best[a] > 0
      BY <2>0, StoredTypes DEF Candidates, TypeOK
    <2>5. best[m] \in Nat /\ (best[m] > 0 => m \in C)
      BY <2>0, <2>3 DEF Candidates, TypeOK
    <2>. HIDE DEF C, P
    <2>6. best[n] >= Score[Kind(m)] * Unit
      <3>1. CASE best[m] >= Score[Kind(m)] * Unit
        <4>1. m \in C \ P /\ n \in P /\ n \in C
          BY <1>1, <2>2, <2>3, <2>5, <3>1 DEF P
        <4>. QED
          BY <2>2, <2>3, <2>4, <2>5, <3>1, <4>1
      <3>2. ASSUME NEW H \in SUBSET C, Cardinality(H) = TopK, \A h \in H : best[h] >= Score[Kind(m)] * Unit
            PROVE  best[n] >= Score[Kind(m)] * Unit
        <4>1. n \in P /\ n \in C
          BY <1>1, <2>2 DEF P
        <4>2. CASE H \subseteq P
          <5>1. IsFiniteSet(P) /\ Cardinality(P) \in Nat /\ Cardinality(C) \in Nat
            BY <2>2, FS_Subset, FS_CardinalityType
          <5>2. Cardinality(H) <= Cardinality(P) /\ (Cardinality(H) = Cardinality(P) => H = P)
            BY <4>2, <5>1, FS_Subset
          <5>3. Cardinality(P) <= TopK
            BY <2>2, <5>1, PreflightAssumption DEF Smaller
          <5>4. H = P
            <6>1. TopK \in Nat
              BY PreflightAssumption
            <6>2. Cardinality(H) = Cardinality(P)
              BY <3>2, <5>1, <5>2, <5>3, <6>1
            <6>. QED
              BY <5>2, <6>2
          <5>. QED
            BY <3>2, <4>1, <5>4
        <4>3. CASE ~(H \subseteq P)
          <5>1. PICK h \in H : h \notin P
            BY <4>3
          <5>2. best[n] >= best[h] /\ best[h] >= Score[Kind(m)] * Unit
            BY <2>2, <3>2, <4>1, <5>1
          <5>3. best[n] \in Nat /\ best[h] \in Nat
            BY <2>4, <4>1, <5>1
          <5>. QED
            BY <2>3, <5>2, <5>3
        <4>. QED
          BY <4>2, <4>3
      <3>. QED
        BY <1>1, <2>1, <3>1, <3>2 DEF FloorDone, C
    <2>7. /\ n \in Ids /\ n \in Stored /\ Score[Kind(n)] \in Nat /\ best[n] \in Nat
          /\ best[n] <= Score[Kind(n)] * (2 * Unit)
      <3>1. n \in C
        BY <1>1, <2>2 DEF P
      <3>2. n \in Ids /\ best[n] \in Nat /\ best[n] > 0
        BY <2>4, <3>1
      <3>. QED
        BY <1>1, <2>0, <3>2, StoredTypes DEF PreflightInv, BestInv
    <2>8. Score[Kind(m)] * Unit <= (2 * Score[Kind(n)]) * Unit
      <3>. DEFINE a == Score[Kind(m)]
                  b == Score[Kind(n)]
      <3>1. a \in Nat /\ b \in Nat /\ a * Unit <= best[n] /\ best[n] <= b * (2 * Unit)
            /\ best[n] \in Nat /\ a * Unit \in Nat /\ Unit \in Nat
        BY <2>3, <2>6, <2>7
      <3>. HIDE DEF a, b
      <3>2. b * (2 * Unit) = (2 * b) * Unit /\ b * (2 * Unit) \in Nat
        BY <3>1, Z3
      <3>3. a * Unit <= b * (2 * Unit)
        BY <3>1, <3>2
      <3>. QED
        BY <3>2, <3>3 DEF a, b
    <2>9. ASSUME 2 * Score[Kind(n)] < Score[Kind(m)]
          PROVE  FALSE
      <3>. DEFINE a == Score[Kind(m)]
                  b == 2 * Score[Kind(n)]
      <3>1. a \in Nat /\ b \in Nat /\ b + 1 <= a /\ a * Unit <= b * Unit /\ Unit \in Nat /\ Unit > 0
        BY <2>3, <2>7, <2>8, <2>9
      <3>. HIDE DEF a, b
      <3>2. (b + 1) * Unit <= a * Unit /\ (b + 1) * Unit \in Nat /\ b * Unit \in Nat /\ a * Unit \in Nat
        BY <3>1, Scaled
      <3>3. (b + 1) * Unit = b * Unit + Unit
        BY <3>1, Z3
      <3>. QED
        BY <3>1, <3>2, <3>3
    <2>. QED
      BY <2>3, <2>7, <2>9
  <1>2. PreflightInv => BoundedTilt
    BY <1>1 DEF BoundedTilt, Floor
  <1>. QED
    BY <1>2, PreflightSafety, PTL
=============================================================================
