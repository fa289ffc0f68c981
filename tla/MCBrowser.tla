----------------------------- MODULE MCBrowser -----------------------------
(* Two metrics of one plugin, one of them from a pattern, which fold.  The   *)
(* tab is opened while the plugin's polls fail; the next one succeeds, and   *)
(* no longer names the pattern's metric, which is pinned.                    *)
EXTENDS Browser

CatalogueDef  == <<"a", "b">>
PluginOfDef   == [k \in {"a", "b"} |-> "P"]
ConfiguredDef == <<"b">>
SamplesDef    ==
    [a |-> <<[ts |-> 0, value |-> 10], [ts |-> 1, value |-> 12], [ts |-> 4, value |-> 11]>>,
     b |-> <<[ts |-> 1, value |-> 5], [ts |-> 2, value |-> 4]>>]
RetiredAtDef  == [a |-> 9, b |-> 4]
PollsDef      == [P |-> <<[ts |-> 0, outcome |-> "ok"], [ts |-> 2, outcome |-> "ok"],
                         [ts |-> 3, outcome |-> "error"], [ts |-> 4, outcome |-> "ok"]>>]
WindowsDef    == <<1, 3>>
SpanDef       == [short |-> 2, long |-> 4]
BucketOfDef   == [short |-> 1, long |-> 2]
SettingsDef   == {[demo |-> FALSE, blocked |-> FALSE],
                  [demo |-> TRUE, blocked |-> TRUE]}

\* Filter does what SelectSeq does.
ASSUME FilterSelects ==
    \A n \in 0..3 : \A s \in [1..n -> {1, 2, 3}] : \A T \in SUBSET {1, 2, 3} :
        Filter(s, LAMBDA x : x \in T) = SelectSeq(s, LAMBDA x : x \in T)
=============================================================================
