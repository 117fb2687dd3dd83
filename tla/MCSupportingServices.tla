------------------------ MODULE MCSupportingServices ------------------------
EXTENDS SupportingServices

(* The default policy, and two in which the thresholds overlap: one whose    *)
(* score alone is severe early, one that is switched off.                    *)
StoredPolicies ==
  {[enabled |-> TRUE, minFeedback |-> 0, observeMax |-> 0, ignoreMax |-> 0,
    moderate |-> 0, severe |-> 101],
   [enabled |-> TRUE, minFeedback |-> 1, observeMax |-> 20, ignoreMax |-> 60,
    moderate |-> 80, severe |-> 40],
   [enabled |-> FALSE, minFeedback |-> 1, observeMax |-> 20, ignoreMax |-> 60,
    moderate |-> 80, severe |-> 40]}
=============================================================================
