----------------------------- MODULE MCPollCycle -----------------------------
(***************************************************************************)
(* Small instances of PollCycle for TLC.  Time is scaled so that the       *)
(* interval is 1 or 2 units and MAX_BACKOFF_SECONDS is 4.                  *)
(***************************************************************************)
EXTENDS PollCycle, TLC

EveryUnit == [p \in Plugins |-> 1]
EveryTwoUnits == [p \in Plugins |-> 2]

Symmetry == Permutations(Plugins)

==============================================================================
