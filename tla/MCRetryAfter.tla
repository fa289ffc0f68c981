----------------------------- MODULE MCRetryAfter ----------------------------
(* A small instance of RetryAfterHistory for TLC. *)
EXTENDS RetryAfterHistory

EveryUnit == [p \in Plugins |-> 1]

==============================================================================
