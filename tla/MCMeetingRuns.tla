---------------------------- MODULE MCMeetingRuns ----------------------------
(* Small instances of MeetingRuns for TLC. *)
EXTENDS MeetingRuns, TLC

CONSTANTS r1, r2, c1, c2

RecoverOnly == {"recover"}
NoUpdates == {"recover", "cancel", "delete"}
AllOps == Ops

RunSymmetry == Permutations(Runs)
=============================================================================
