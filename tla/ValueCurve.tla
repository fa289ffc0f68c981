------------------------------ MODULE ValueCurve ------------------------------
(***************************************************************************)
(* What the sample store promises its readers: each metric has a curve, a  *)
(* value (or none yet) at every second, and a latest value.  A poll sets   *)
(* both for the keys it returned, all of them at once: the latest value,   *)
(* and the curve from the poll's own timestamp on.  Nothing ever changes   *)
(* the curve before the timestamp of the last poll that reported the key:  *)
(* history is immutable.                                                   *)
(*                                                                         *)
(* SeriesStore, which writes a sample only on change or on a heartbeat,    *)
(* implements this with curve[k][t] = value_as_of(k, t).                   *)
(***************************************************************************)
EXTENDS Integers

CONSTANTS Keys, Values, NoValue, MaxTime

Times == 0 .. MaxTime

VARIABLES
    curve,      \* curve[k][t]: what a reader asking for key k as of t is told
    latest,     \* latest[k]: what a reader asking for the newest value is told
    settled     \* settled[k]: the last timestamp a poll reported k at, -1 if none

Init ==
    /\ curve = [k \in Keys |-> [t \in Times |-> NoValue]]
    /\ latest = [k \in Keys |-> NoValue]
    /\ settled = [k \in Keys |-> -1]

\* A poll with timestamp `from` reports a value for each of some keys.
Report(from, reported) ==
    /\ \A k \in DOMAIN reported : settled[k] <= from
    /\ curve' = [k \in Keys |-> [t \in Times |->
                    IF k \in DOMAIN reported /\ t >= from
                    THEN reported[k] ELSE curve[k][t]]]
    /\ latest' = [k \in Keys |-> IF k \in DOMAIN reported THEN reported[k] ELSE latest[k]]
    /\ settled' = [k \in Keys |-> IF k \in DOMAIN reported THEN from ELSE settled[k]]

Next ==
    \E from \in Times, some \in SUBSET Keys : \E reported \in [some -> Values] :
        Report(from, reported)

Spec == Init /\ [][Next]_<<curve, latest, settled>>

==============================================================================
