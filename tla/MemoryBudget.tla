---------------------------- MODULE MemoryBudget ----------------------------
(***************************************************************************)
(* How a preflight answer is made to fit.  apply_budget() takes the merged   *)
(* memories, best first, into memory_char_limit or the caller's smaller      *)
(* token budget; _render_digest() puts them after Tier 0 and the structured  *)
(* sections; the digest is then cut to the hard cap.                        *)
(*                                                                          *)
(* Texts are their lengths.  What a word boundary does to a cut is left      *)
(* open within the bounds of truncate().                                    *)
(***************************************************************************)
EXTENDS Integers, Sequences

CONSTANTS
  MemoryLimit,   \* memory_char_limit
  UserLimit,     \* user_char_limit
  Frame,         \* what _digest_limit() adds for headings
  Overhead,      \* of a bullet: "- [K] " and the newline
  MinRemaining,  \* 80: the least rest of the budget that is worth a cut
  MinText,       \* 40: the least text that is
  Marker,        \* length of " ...[truncated]"
  Lengths,       \* the lengths of memory texts
  TokenBudgets,  \* the token budgets of callers, in characters
  NoBudget,
  Authority,     \* length of the digest up to the end of its authority lines
  Sections,      \* lengths of Tier 0, decisions, tasks and headings together
  MaxItems       \* merged_max_items

ASSUME BudgetAssumption ==
  /\ MemoryLimit \in Nat /\ UserLimit \in Nat /\ Frame \in Nat /\ Overhead \in Nat
  /\ MinRemaining \in Nat /\ MinText \in Nat /\ Marker \in Nat /\ MaxItems \in Nat
  /\ Lengths \subseteq Nat /\ TokenBudgets \subseteq Nat /\ Sections \subseteq Nat
  /\ NoBudget \notin Nat
  /\ Authority \in Nat

(* A rest that is worth a cut leaves room for a text that is.  80 - 7 >= 40. *)
ASSUME ThresholdAssumption == MinRemaining >= Overhead + MinText

VARIABLES
  items,     \* the merged memories, best first: their lengths
  budget,    \* token_budget, in characters
  limit,     \* the limit of apply_budget() for this request
  next,      \* the item that is looked at
  whole,     \* the items admitted whole
  clip,      \* the item admitted in part, or 0
  used,      \* chars_used
  full,      \* length of the rendered digest
  digest,    \* length of context_markdown
  intact,    \* how many of its characters are the first ones of the full digest
  warned,    \* the warning "context_truncated_to_token_budget"
  phase

vars == <<items, budget, limit, next, whole, clip, used, full, digest, intact, warned, phase>>

Smaller(a, b) == IF a < b THEN a ELSE b

TypeOK ==
  /\ items \in Seq(Lengths)
  /\ budget \in TokenBudgets \cup {NoBudget}
  /\ limit \in 0..MemoryLimit
  /\ next \in 1..Len(items) + 1
  /\ whole \subseteq 1..Len(items)
  /\ clip \in 0..Len(items)
  /\ used \in Nat /\ full \in Nat /\ digest \in Nat /\ intact \in Nat
  /\ warned \in BOOLEAN
  /\ phase \in {"admit", "render", "done"}

(* Mutant: the caller's budget wins over the configured cap. *)
LimitOf_CallerWins(b) == IF b = NoBudget THEN MemoryLimit ELSE b

(* The configured cap wins over a larger token budget. *)
LimitOf(b) == IF b = NoBudget THEN MemoryLimit ELSE Smaller(MemoryLimit, b)

Init ==
  /\ items \in UNION {[1..n -> Lengths] : n \in 0..MaxItems}
  /\ budget \in TokenBudgets \cup {NoBudget}
  /\ limit = LimitOf(budget)
  /\ next = 1
  /\ whole = {} /\ clip = 0 /\ used = 0
  /\ full = 0 /\ digest = 0 /\ intact = 0 /\ warned = FALSE
  /\ phase = "admit"

-----------------------------------------------------------------------------
(* apply_budget() *)

Bullet(i) == items[i] + Overhead

(* Mutant: the text is counted, not the bullet. *)
Fits_TextOnly(i) == used + items[i] <= limit

Fits(i) == used + Bullet(i) <= limit

(* Mutant: the two thresholds swapped. *)
WorthACut_Swapped == limit - used >= MinText /\ limit - used - Overhead >= MinRemaining

WorthACut == limit - used >= MinRemaining /\ limit - used - Overhead >= MinText

(* truncate(): the lengths that a text of n > l characters is cut to: at l,  *)
(* or at a word boundary in the last two fifths of what the marker leaves.  *)
CutLengths(l) ==
  IF l <= Marker THEN {l}
  ELSE {l} \cup {c + Marker : c \in {d \in 0..l - Marker : 10 * d > 6 * (l - Marker)}}

Admit ==
  /\ phase = "admit"
  /\ next <= Len(items)
  /\ Fits(next)
  /\ whole' = whole \cup {next}
  /\ used' = used + Bullet(next)
  /\ next' = next + 1
  /\ UNCHANGED <<items, budget, limit, clip, full, digest, intact, warned, phase>>

(* The first item that neither fits nor is dropped ends the loop. *)
Clip ==
  /\ phase = "admit"
  /\ next <= Len(items)
  /\ ~Fits(next)
  /\ WorthACut
  /\ clip' = next
  /\ \E c \in CutLengths(limit - used - Overhead) : used' = used + c + Overhead
  /\ phase' = "render"
  /\ UNCHANGED <<items, budget, limit, next, whole, full, digest, intact, warned>>

(* Mutant: the loop ends at the first item that is dropped. *)
Skip_Ends ==
  /\ phase = "admit"
  /\ next <= Len(items)
  /\ ~Fits(next)
  /\ ~WorthACut
  /\ next' = Len(items) + 1
  /\ UNCHANGED <<items, budget, limit, whole, clip, used, full, digest, intact, warned, phase>>

(* A later, smaller item may still fit. *)
Skip ==
  /\ phase = "admit"
  /\ next <= Len(items)
  /\ ~Fits(next)
  /\ ~WorthACut
  /\ next' = next + 1
  /\ UNCHANGED <<items, budget, limit, whole, clip, used, full, digest, intact, warned, phase>>

EndOfItems ==
  /\ phase = "admit"
  /\ next > Len(items)
  /\ phase' = "render"
  /\ UNCHANGED <<items, budget, limit, next, whole, clip, used, full, digest, intact, warned>>

-----------------------------------------------------------------------------
(* The digest *)

(* _digest_limit(): a token budget counts Tier 0 in. *)
DigestCap == IF budget = NoBudget THEN limit + UserLimit + Frame ELSE limit

Warns == full' > DigestCap

Render ==
  /\ phase = "render"
  /\ \E s \in Sections : full' = s + used
  /\ warned' = Warns
  /\ IF full' <= DigestCap
       THEN digest' = full' /\ intact' = full'
       ELSE \E c \in CutLengths(DigestCap) :
              /\ digest' = c
              /\ intact' = IF DigestCap <= Marker THEN c ELSE c - Marker
  /\ phase' = "done"
  /\ UNCHANGED <<items, budget, limit, next, whole, clip, used>>

Next == Admit \/ Clip \/ Skip \/ EndOfItems \/ Render

Spec == Init /\ [][Next]_vars

-----------------------------------------------------------------------------
(* Properties *)

Dropped == (1..next - 1) \ (whole \cup {clip})

(* The answer never exceeds the budget, neither the admitted memories their  *)
(* limit nor the digest a budget that the caller asked for.                 *)
WithinBudget ==
  /\ used <= limit
  /\ (phase = "done" /\ budget # NoBudget) => (digest <= budget /\ digest <= MemoryLimit)

(* The budget is used up: what is dropped would not have fitted beside what  *)
(* was admitted, and unless the last memory was cut, less is left than is    *)
(* worth a cut.                                                             *)
WellFilled ==
  phase # "admit" =>
    \/ clip # 0
    \/ /\ Dropped = (1..Len(items)) \ whole
       /\ \A i \in Dropped : used + Bullet(i) > limit /\ limit - used < MinRemaining

(* The best memory is never given up for lesser ones: with room for a cut it *)
(* is there, whole or cut.                                                  *)
BestIsShown ==
  (phase # "admit" /\ items # <<>> /\ limit >= MinRemaining) => (1 \in whole \/ clip = 1)

(* The inductive invariant behind WithinBudget and WellFilled: at every item *)
(* of the loop, what was dropped so far does not fit and was dropped for a   *)
(* rest not worth a cut.                                                    *)
BudgetInv ==
  /\ TypeOK
  /\ limit = LimitOf(budget)
  /\ used <= limit
  /\ whole \subseteq 1..next - 1
  /\ phase = "admit" => clip = 0
  /\ (phase # "admit" /\ clip = 0) => next = Len(items) + 1
  /\ clip = 0 => \A i \in (1..next - 1) \ whole : used + Bullet(i) > limit /\ limit - used < MinRemaining
  /\ (phase = "done" /\ budget # NoBudget) => digest <= limit

(* RUNTIME_NOTES section 2b: a tiny budget keeps the authority block. *)
TinyBudgetKeepsAuthority == phase = "done" => intact >= Authority
=============================================================================
