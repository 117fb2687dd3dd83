---------------------------- MODULE SourceTrust ----------------------------
(***************************************************************************)
(* The trust in a message source.  Users label its messages helpful,        *)
(* neutral, or noise and misclassified (here: negative); the score and the  *)
(* rates of these labels decide, under a policy the user may change,        *)
(* whether the filter's decisions on its messages are taken down a rank.    *)
(*                                                                          *)
(* Scores and rates are floating-point in the code.  Integers give the same *)
(* scores up to 49 labels; beyond, a score is off by one here and there     *)
(* (29 net of 50), not at the default thresholds.                           *)
(***************************************************************************)
EXTENDS Integers

CONSTANTS
  Policies,   \* policies that may be stored, rates in percent
  MaxLabels   \* bound of the model: labelled messages of the source

ASSUME PoliciesAssumption ==
  /\ MaxLabels \in Nat
  /\ Policies \subseteq [enabled : BOOLEAN, minFeedback : Int, observeMax : Int,
                         ignoreMax : Int, moderate : Int, severe : Int]

VARIABLES
  labels, \* how many messages of the source carry each label
  policy  \* the stored policy

trustVars == <<labels, policy>>

Labels == {"helpful", "neutral", "negative"}
Decisions == {"meeting", "observe", "ignore"}

(* normalizeSourceTrustPolicy, the defaults in place of what makes no sense. *)
OrDefault(n, default) == IF n <= 0 THEN default ELSE n
RateOrDefault(n, default) == IF n <= 0 \/ n > 100 THEN default ELSE n
Normalized(p) ==
  [enabled     |-> p.enabled,
   minFeedback |-> OrDefault(p.minFeedback, 3),
   observeMax  |-> OrDefault(p.observeMax, 45),
   ignoreMax   |-> OrDefault(p.ignoreMax, 25),
   moderate    |-> RateOrDefault(p.moderate, 50),
   severe      |-> RateOrDefault(p.severe, 75)]

Count(l) == l.helpful + l.neutral + l.negative

(* int() cuts off towards zero.                                              *)
CutOff(n, d) == IF n >= 0 THEN n \div d ELSE -((-n) \div d)

TrustScoreOfNet(l) == 50 + 5 * (l.helpful - l.negative)

(* finalizeSourceTrustItem.                                                  *)
TrustScore(l) ==
  IF Count(l) = 0 THEN 50 ELSE 50 + CutOff(50 * (l.helpful - l.negative), Count(l))

NegativeRate(l, percent) == 100 * l.negative >= percent * Count(l)

EnoughRated(l, p) == l.helpful + l.negative >= p.minFeedback
EnoughLabels(l, p) == Count(l) >= p.minFeedback

(* sourceTrustAutoAction: 2 takes down every decision, 1 only meetings.      *)
Severity(l, p) ==
  IF ~(p.enabled /\ EnoughLabels(l, p)) THEN 0
  ELSE IF TrustScore(l) <= p.ignoreMax \/ NegativeRate(l, p.severe) THEN 2
  ELSE IF TrustScore(l) < p.observeMax \/ NegativeRate(l, p.moderate) THEN 1
  ELSE 0

(* sourceTrustDownrankDecision.                                              *)
Downranked(decision, severity) ==
  CASE decision = "meeting" /\ severity > 0 -> "observe"
    [] decision = "observe" /\ severity = 2 -> "ignore"
    [] OTHER -> decision

TrustInit ==
  labels = [l \in Labels |-> 0] /\ policy \in Policies

(* FeedbackMessage: a label for a message without one, or another label.     *)
GivesFeedback ==
  /\ \E new \in Labels :
       \/ Count(labels) < MaxLabels /\ labels' = [labels EXCEPT ![new] = @ + 1]
       \/ \E old \in Labels \ {new} :
            /\ labels[old] > 0
            /\ labels' = [labels EXCEPT ![old] = @ - 1, ![new] = @ + 1]
  /\ UNCHANGED policy

SetsPolicy == policy' \in Policies /\ UNCHANGED labels

TrustNext == GivesFeedback \/ SetsPolicy

TrustSpec == TrustInit /\ [][TrustNext]_trustVars

-----------------------------------------------------------------------------
TrustTypeOK ==
  /\ labels \in [Labels -> 0..MaxLabels] /\ Count(labels) <= MaxLabels
  /\ policy \in Policies /\ TrustScore(labels) \in 0..100

Rank(decision) ==
  CASE decision = "ignore" -> 0 [] decision = "observe" -> 1
    [] decision = "meeting" -> 2

(* The same labels, one of them worse or a negative one more.                *)
Worse(l) ==
  {[l EXCEPT !.negative = @ + 1]} \cup
  {[l EXCEPT ![pair[1]] = @ - 1, ![pair[2]] = @ + 1] :
     pair \in {q \in {<<"helpful", "neutral">>, <<"helpful", "negative">>,
                      <<"neutral", "negative">>} : l[q[1]] > 0}}

(* Under any policy that can be stored, one more negative label, or a label  *)
(* replaced by a worse one, never makes the filter's final decision milder,  *)
(* although the score rounds, the score and the rate have thresholds of      *)
(* their own and no action is taken before there are enough labels.          *)
NegativeNeverSoftens ==
  \A worse \in Worse(labels), decision \in Decisions :
    Rank(Downranked(decision, Severity(worse, Normalized(policy))))
      <= Rank(Downranked(decision, Severity(labels, Normalized(policy))))
=============================================================================
