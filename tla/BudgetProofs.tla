---------------------------- MODULE BudgetProofs ----------------------------
(***************************************************************************)
(* For every limit, threshold and list of memories: an answer fits its       *)
(* budget, and nothing is dropped that could have been shown.                *)
(***************************************************************************)
EXTENDS MemoryBudget, TLAPS

(* What truncate() leaves of a text is at most what it was asked for, and    *)
(* includes the marker when there is room for it.                            *)
LEMMA CutFits ==
  ASSUME NEW l \in Nat, NEW c \in CutLengths(l)
  PROVE  c \in Nat /\ c <= l /\ (l > Marker => c >= Marker)
<1>1. CASE l <= Marker
  <2>1. CutLengths(l) = {l}
    BY <1>1 DEF CutLengths
  <2> QED
    BY <1>1, <2>1, BudgetAssumption
<1>2. CASE l > Marker
  BY <1>2, BudgetAssumption DEF CutLengths
<1> QED
  BY <1>1, <1>2, BudgetAssumption

(* The limit of a request exceeds neither the configured cap nor its own budget. *)
LEMMA LimitFits ==
  ASSUME NEW b \in TokenBudgets \cup {NoBudget}
  PROVE  LimitOf(b) \in 0..MemoryLimit /\ (b # NoBudget => LimitOf(b) <= b)
BY BudgetAssumption DEF LimitOf, Smaller

(* What did not fit, and was not worth a cut, still does not when more is used. *)
LEMMA StaysTooLarge ==
  ASSUME NEW l \in Nat, NEW u \in Nat, NEW v \in Nat, NEW b \in Nat, NEW m \in Nat,
         u <= v, u + b > l, l - u < m
  PROVE  v + b > l /\ l - v < m
OBVIOUS

(* A request starts with nothing used. *)
LEMMA InitInv == Init => BudgetInv
<1> SUFFICES ASSUME Init PROVE BudgetInv
  OBVIOUS
<1>1. PICK n \in 0..MaxItems : items \in [1..n -> Lengths]
  BY DEF Init
<1>2. items \in Seq(Lengths) /\ Len(items) \in Nat
  BY <1>1, BudgetAssumption
<1>3. limit \in 0..MemoryLimit
  BY LimitFits DEF Init
<1>4. /\ budget \in TokenBudgets \cup {NoBudget} /\ limit = LimitOf(budget)
      /\ next = 1 /\ whole = {} /\ clip = 0 /\ used = 0
      /\ full = 0 /\ digest = 0 /\ intact = 0 /\ warned = FALSE /\ phase = "admit"
  BY DEF Init
<1>5. next \in 1..Len(items) + 1 /\ whole \subseteq 1..Len(items) /\ clip \in 0..Len(items)
  BY <1>2, <1>4
<1>6. used \in Nat /\ full \in Nat /\ digest \in Nat /\ intact \in Nat
  BY <1>4
<1>7. warned \in BOOLEAN
  BY <1>4
<1>8. TypeOK
  BY <1>2, <1>3, <1>4, <1>5, <1>6, <1>7, Zenon DEF TypeOK
<1>9. next - 1 = 0 /\ (1..next - 1) \ whole = {} /\ whole \subseteq 1..next - 1
  BY <1>4
<1>10. used <= limit
  BY <1>3, <1>4, BudgetAssumption
<1> QED
  BY <1>4, <1>8, <1>9, <1>10 DEF BudgetInv

(* The loop preserves the invariant: what was dropped stays too large as the *)
(* used part only grows.                                                    *)
LEMMA LoopInv ==
  ASSUME BudgetInv, Admit \/ Clip \/ Skip \/ EndOfItems
  PROVE  BudgetInv'
<1>a. items \in Seq(Lengths) /\ Len(items) \in Nat
  BY DEF BudgetInv, TypeOK
<1>b. \A i \in 1..Len(items) : items[i] \in Lengths
  BY <1>a
<1>0. Len(items) \in Nat /\ \A i \in 1..Len(items) : items[i] \in Nat
  BY <1>a, <1>b, BudgetAssumption
<1> USE BudgetAssumption, ThresholdAssumption DEF BudgetInv, TypeOK
<1>1. CASE Admit
  <2>1. Bullet(next) \in Nat /\ next \in 1..Len(items)
    BY <1>0, <1>1 DEF Admit, Bullet
  <2>2. used' \in Nat /\ used' <= limit' /\ used <= used'
    BY <1>1, <2>1 DEF Admit, Fits
  <2>3. (1..next' - 1) \ whole' = (1..next - 1) \ whole
    BY <1>0, <1>1, <2>1 DEF Admit
  <2>4. \A i \in (1..next - 1) \ whole : items[i] \in Nat
    BY <1>0
  <2>5. \A i \in (1..next' - 1) \ whole' : used' + Bullet(i)' > limit' /\ limit' - used' < MinRemaining
    <3> SUFFICES ASSUME NEW i \in (1..next - 1) \ whole
                 PROVE  used' + Bullet(i)' > limit' /\ limit' - used' < MinRemaining
      BY <2>3
    <3>1. used + (items[i] + Overhead) > limit /\ limit - used < MinRemaining
      BY <1>1 DEF Admit, Bullet
    <3>2. items[i] \in Nat /\ items' = items /\ limit' = limit
      BY <1>1, <2>4 DEF Admit
    <3>3. limit \in Nat /\ used \in Nat
      OBVIOUS
    <3>4. items[i] + Overhead \in Nat
      BY <3>2
    <3>5. Bullet(i)' = items[i] + Overhead
      BY <3>2 DEF Bullet
    <3>6. used' + (items[i] + Overhead) > limit /\ limit - used' < MinRemaining
      BY <2>2, <3>1, <3>3, <3>4, StaysTooLarge
    <3> QED
      BY <3>2, <3>5, <3>6
  <2> QED
    BY <1>0, <1>1, <2>1, <2>2, <2>5 DEF Admit
<1>2. CASE Clip
  <2>1. next \in 1..Len(items) /\ limit - used - Overhead \in Nat
    BY <1>0, <1>2 DEF Clip, WorthACut
  <2>2. PICK c \in CutLengths(limit - used - Overhead) : used' = used + c + Overhead
    BY <1>2 DEF Clip
  <2>3. c \in Nat /\ c <= limit - used - Overhead
    BY <2>1, <2>2, CutFits
  <2>4. used' \in Nat /\ used' <= limit'
    BY <1>2, <2>2, <2>3 DEF Clip
  <2> QED
    BY <1>0, <1>2, <2>1, <2>4 DEF Clip
<1>3. CASE Skip
  <2>1. limit - used < MinRemaining
    BY <1>3 DEF Skip, WorthACut
  <2>2. used + Bullet(next) > limit
    BY <1>0, <1>3 DEF Skip, Fits, Bullet
  <2>3. (1..next' - 1) \ whole' \subseteq ((1..next - 1) \ whole) \cup {next}
    BY <1>0, <1>3 DEF Skip
  <2> QED
    BY <1>0, <1>3, <2>1, <2>2, <2>3 DEF Skip, Bullet
<1>4. CASE EndOfItems
  <2>1. next = Len(items) + 1 /\ clip = 0
    BY <1>0, <1>4 DEF EndOfItems
  <2>2. UNCHANGED <<items, budget, limit, next, whole, clip, used, full, digest, intact, warned>>
        /\ phase' = "render"
    BY <1>4 DEF EndOfItems
  <2>3. TypeOK'
    BY <2>2
  <2>4. \A i \in (1..next' - 1) \ whole' : used' + Bullet(i)' > limit' /\ limit' - used' < MinRemaining
    BY <2>1, <2>2 DEF Bullet
  <2> QED
    BY <2>1, <2>2, <2>3, <2>4
<1> QED
  BY <1>1, <1>2, <1>3, <1>4

(* The digest is cut to its cap, and the memories are left as they are. *)
LEMMA RenderInv ==
  ASSUME BudgetInv, Render
  PROVE  BudgetInv'
<1> USE BudgetAssumption DEF BudgetInv, TypeOK
<1>1. full' \in Nat
  BY DEF Render
<1>2. DigestCap \in Nat /\ (budget # NoBudget => DigestCap = limit)
  BY DEF DigestCap
<1>3. digest' \in Nat /\ intact' \in Nat /\ digest' <= DigestCap
  <2>1. CASE full' <= DigestCap
    BY <1>1, <1>2, <2>1 DEF Render
  <2>2. CASE ~(full' <= DigestCap)
    <3>1. PICK c \in CutLengths(DigestCap) :
            digest' = c /\ intact' = IF DigestCap <= Marker THEN c ELSE c - Marker
      BY <2>2 DEF Render
    <3>2. c \in Nat /\ c <= DigestCap /\ (DigestCap > Marker => c >= Marker)
      BY <1>2, <3>1, CutFits
    <3> QED
      BY <1>2, <3>1, <3>2
  <2> QED
    BY <2>1, <2>2
<1>4. warned' \in BOOLEAN
  BY DEF Render, Warns
<1> QED
  BY <1>1, <1>2, <1>3, <1>4 DEF Render, Bullet

(* The invariant holds in every reachable state. *)
THEOREM BudgetSafety == Spec => []BudgetInv
<1>1. Init => BudgetInv
  BY InitInv
<1>2. BudgetInv /\ [Next]_vars => BudgetInv'
  <2> SUFFICES ASSUME BudgetInv, [Next]_vars PROVE BudgetInv'
    OBVIOUS
  <2>1. CASE Admit \/ Clip \/ Skip \/ EndOfItems
    BY <2>1, LoopInv
  <2>2. CASE Render
    BY <2>2, RenderInv
  <2>3. CASE UNCHANGED vars
    BY <2>3 DEF vars, BudgetInv, TypeOK, Bullet
  <2> QED
    BY <2>1, <2>2, <2>3 DEF Next
<1> QED
  BY <1>1, <1>2, PTL DEF Spec

(* No answer exceeds its budget: the memories stay within their limit, and a  *)
(* digest within the caller's token budget and the configured cap.           *)
THEOREM AnswersFit == Spec => []WithinBudget
<1>1. BudgetInv => WithinBudget
  <2> SUFFICES ASSUME BudgetInv PROVE WithinBudget
    OBVIOUS
  <2>1. budget # NoBudget => limit <= budget
    BY LimitFits DEF BudgetInv, TypeOK
  <2>2. budget # NoBudget => budget \in Nat
    BY BudgetAssumption DEF BudgetInv, TypeOK
  <2> QED
    BY <2>1, <2>2, BudgetAssumption DEF BudgetInv, TypeOK, WithinBudget
<1> QED
  BY <1>1, BudgetSafety, PTL

(* A memory is dropped only when it does not fit beside what was admitted    *)
(* and the rest of the budget is not worth a cut.                           *)
THEOREM NoRoomIsWasted == Spec => []WellFilled
<1>1. BudgetInv => WellFilled
  <2> SUFFICES ASSUME BudgetInv, phase # "admit", clip = 0
               PROVE  /\ Dropped = (1..Len(items)) \ whole
                      /\ \A i \in Dropped : used + Bullet(i) > limit /\ limit - used < MinRemaining
    BY DEF WellFilled
  <2>1. next - 1 = Len(items) /\ 0 \notin 1..Len(items)
    BY DEF BudgetInv, TypeOK
  <2>2. Dropped = (1..next - 1) \ whole
    BY <2>1 DEF Dropped
  <2> QED
    BY <2>1, <2>2 DEF BudgetInv
<1> QED
  BY <1>1, BudgetSafety, PTL

(* Nothing is used while the loop is at the first item; with room for a cut   *)
(* the loop does not get past it without admitting it; and the loop ends at   *)
(* the item it cuts.                                                        *)
FirstInv ==
  /\ phase = "admit" /\ next = 1 => used = 0
  /\ (limit >= MinRemaining /\ next > 1) => 1 \in whole
  /\ clip \in {0, next}

LEMMA FirstStep == BudgetInv /\ FirstInv /\ [Next]_vars => FirstInv'
<1> SUFFICES ASSUME BudgetInv, FirstInv, [Next]_vars PROVE FirstInv'
  OBVIOUS
<1>1. /\ next \in 1..Len(items) + 1 /\ Len(items) \in Nat /\ limit \in Nat
      /\ (phase = "admit" => clip = 0)
  BY BudgetAssumption DEF BudgetInv, TypeOK
<1>2. CASE Admit
  <2>1. /\ next' = next + 1 /\ whole' = whole \cup {next} /\ limit' = limit /\ clip' = clip
        /\ clip = 0
    BY <1>1, <1>2 DEF Admit
  <2>2. next' # 1 /\ (next = 1 \/ next > 1)
    BY <1>1, <2>1
  <2> QED
    BY <2>1, <2>2 DEF FirstInv
<1>3. CASE Clip
  BY <1>3 DEF Clip, FirstInv
<1>4. CASE Skip
  <2>1. /\ next' = next + 1 /\ whole' = whole /\ limit' = limit /\ clip' = clip
        /\ clip = 0 /\ ~WorthACut /\ phase = "admit"
    BY <1>1, <1>4 DEF Skip
  <2>2. ASSUME limit >= MinRemaining
        PROVE  next # 1
    <3>1. (limit - 0 >= MinRemaining /\ limit - 0 - Overhead >= MinText)
      BY <1>1, <2>2, BudgetAssumption, ThresholdAssumption
    <3> QED
      BY <2>1, <3>1 DEF FirstInv, WorthACut
  <2>3. next' # 1 /\ (next = 1 \/ next > 1)
    BY <1>1, <2>1
  <2> QED
    BY <2>1, <2>2, <2>3 DEF FirstInv
<1>5. CASE EndOfItems
  BY <1>5 DEF EndOfItems, FirstInv
<1>6. CASE Render
  BY <1>6 DEF Render, FirstInv
<1>7. CASE UNCHANGED vars
  BY <1>7 DEF vars, FirstInv
<1> QED
  BY <1>2, <1>3, <1>4, <1>5, <1>6, <1>7 DEF Next

(* apply_budget(): the best memory is shown, whole or cut, whenever the limit *)
(* has room for a cut, for every list of memories and every other threshold. *)
THEOREM BestIsShownAlways == Spec => []BestIsShown
<1>1. Init => FirstInv
  BY DEF Init, FirstInv
<1>2. BudgetInv /\ FirstInv => BestIsShown
  <2> SUFFICES ASSUME BudgetInv, FirstInv, phase # "admit", items # <<>>, limit >= MinRemaining
               PROVE  1 \in whole \/ clip = 1
    BY DEF BestIsShown
  <2>1. items \in Seq(Lengths) /\ Len(items) \in Nat /\ next \in 1..Len(items) + 1
    BY DEF BudgetInv, TypeOK
  <2>2. Len(items) > 0
    BY <2>1
  <2>3. CASE clip = 0
    BY <2>1, <2>2, <2>3 DEF BudgetInv, FirstInv
  <2>4. CASE clip = next
    BY <2>1, <2>4 DEF FirstInv
  <2> QED
    BY <2>3, <2>4 DEF FirstInv
<1> QED
  BY <1>1, <1>2, FirstStep, BudgetSafety, PTL DEF Spec
=============================================================================
