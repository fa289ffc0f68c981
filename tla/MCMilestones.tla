---------------------------- MODULE MCMilestones ----------------------------
(* Small instances of Milestones: two keys, one with two thresholds in reach *)
(* and one with a single threshold.                                          *)
EXTENDS Milestones

ReportedValues == [k \in Keys |-> IF k = "stars" THEN 0 .. 2 ELSE 0 .. 1]
ConfigRules == {[every |-> 2, at |-> {1}]}

=============================================================================
