-------------------------- MODULE RetryAfterHistory --------------------------
(***************************************************************************)
(* PollCycle with a history variable: the time until which the source's    *)
(* last 429 asked the plugin to stay away, counted from when its answer    *)
(* arrived.  The code keeps no such time: it schedules from the end of the *)
(* poll while the process lives, and from the poll's start after a restart.*)
(***************************************************************************)
EXTENDS PollCycle

VARIABLE quietUntil

historyVars == <<vars, quietUntil>>

HistoryInit == Init /\ quietUntil = [p \in Plugins |-> 0]

\* A plugin that is about to record a refusal heard it just now.
Asked(p) ==
    IF pc[p] = "collecting" /\ pc'[p] = "finishing" /\ result'[p].retryAfter # None
    THEN clock + Least(result'[p].retryAfter, Cap)
    ELSE quietUntil[p]

HistoryNext == Next /\ quietUntil' = [p \in Plugins |-> Asked(p)]

HistorySpec == HistoryInit /\ [][HistoryNext]_historyVars

\* "... so a restart mid-Retry-After-backoff doesn't re-poll earlier than the
\* source asked for" (_initial_next_run): no poll starts before the time the
\* source's last Retry-After named.
RetryAfterNotCutShort ==
    [][\A p \in Plugins :
        pc[p] = "queued" /\ pc'[p] = "collecting" => clock >= quietUntil[p]]_historyVars

==============================================================================
