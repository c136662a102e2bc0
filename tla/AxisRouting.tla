---------------------------- MODULE AxisRouting ----------------------------
(***************************************************************************)
(* The one scorer of core/rules.py that decides twice: which expert axes a  *)
(* memory is tagged with when the curator stores it, and which axes a       *)
(* prompt is routed to when the context builder asks.  A text is known by   *)
(* how many keywords of each axis it has; confidences are integers, in the   *)
(* fraction 1/Unit, rounded down where the code keeps six decimals.         *)
(***************************************************************************)
EXTENDS Integers, Sequences, FiniteSets

CONSTANTS
  AxesByName,      \* the configured axes in the order of their names
  ExperienceOnly,  \* those with experience_only
  Weight,          \* axis -> its weight, in Units
  Unit,            \* the confidence 1.0
  Saturation,      \* expert_axes.saturation
  MinConfidence    \* expert_axes.min_confidence, in Units

Axes == {AxesByName[j] : j \in 1..Len(AxesByName)}

ASSUME RoutingAssumption ==
  /\ AxesByName \in Seq(Axes)
  /\ \A i, j \in 1..Len(AxesByName) : AxesByName[i] = AxesByName[j] => i = j
  /\ ExperienceOnly \subseteq Axes
  /\ Unit \in Nat \ {0} /\ Saturation \in Nat \ {0} /\ MinConfidence \in Nat
  /\ Weight \in [Axes -> 0..Unit]

(* Mutant: thirty hits are thirty times as confident. *)
Confidence_Unsaturated(axis, hits) == Weight[axis] * hits

(* weight * hits / (hits + saturation) *)
Confidence(axis, hits) == (Weight[axis] * hits) \div (hits + Saturation)

(* score_axes(): the gate closes an experience_only axis to knowledge; a     *)
(* prompt has no kind and passes.                                           *)
ScoreAxes(hits, kind) ==
  [axis \in {a \in Axes : hits[a] > 0 /\ ~(a \in ExperienceOnly /\ kind = "knowledge")} |->
     Confidence(axis, hits[axis])]

(* active_axes(): the strongest first, equal ones by name. *)
ActiveAxes(scores) ==
  LET passing == {a \in DOMAIN scores : scores[a] >= MinConfidence}
      byName(a) == CHOOSE j \in 1..Len(AxesByName) : AxesByName[j] = a
      before(a, b) ==
        \/ scores[a] > scores[b]
        \/ scores[a] = scores[b] /\ byName(a) < byName(b)
  IN  [j \in 1..Cardinality(passing) |->
         CHOOSE a \in passing : Cardinality({b \in passing : before(b, a)}) = j - 1]
=============================================================================
