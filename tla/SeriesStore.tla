----------------------------- MODULE SeriesStore -----------------------------
(***************************************************************************)
(* metric_series and samples (storage.py) under the polls that write them: *)
(* run_plugin_once validates what collect() returned, store_poll writes it *)
(* in one transaction, _reconcile_pattern_series flips `active` after a    *)
(* clean poll, and a restart retires the series of plugins that are gone.  *)
(*                                                                         *)
(* A poll's samples carry the `now` it started with; other polls, and the  *)
(* clock, move on before it writes.  Keys are prefixed with their plugin's *)
(* name by contract, so no two plugins write one series.  Labels, units    *)
(* and attrs do not influence the control and are left out.                *)
(***************************************************************************)
EXTENDS Integers, FiniteSets

CONSTANTS
    Plugins, Keys,
    Owner,          \* Owner[k]: the plugin whose prefix k has
    Patterns,       \* the keys that match a pattern of METRICS; the rest are exact
    Values,
    NoValue,        \* SQL NULL in last_value
    Heartbeat,      \* storage.heartbeat_seconds
    PatternCap,     \* MAX_PATTERN_KEYS_PER_RUN
    \* bounds of the model
    MaxTime, MaxRestarts, MaxPolls

ASSUME KeyAssumption == Owner \in [Keys -> Plugins] /\ Patterns \subseteq Keys
ASSUME ValueAssumption == NoValue \notin Values
ASSUME HeartbeatAssumption == Heartbeat \in Nat /\ PatternCap \in Nat
ASSUME SeriesBoundAssumption == MaxTime \in Nat /\ MaxRestarts \in Nat /\ MaxPolls \in Nat

VARIABLES
    clock,
    up,         \* the process serves
    enabled,    \* the plugins this process schedules
    series,     \* series[k]: the metric_series row of k
    samples,    \* samples[k]: the samples of k, at most one per timestamp
    pc,         \* pc[p]: "idle", "collected", "stored"
    since,      \* since[p]: the poll's `now`
    reply,      \* reply[p]: what collect() returned, and whether all of it was valid
    reported,   \* history: reported[k], timestamps of the polls that stored k
    restarts, polls     \* starts and polls so far, each under its bound

process == <<up, enabled, restarts>>
store == <<series, samples, reported>>
poll == <<pc, since, reply, polls>>
vars == <<clock, process, store, poll>>

------------------------------------------------------------------------------
\* Rows and the queries on them

\* last_seen of a series no sample was written for.
Never == -1

Series == [known : BOOLEAN, active : BOOLEAN, value : Values \cup {NoValue},
           seen : Nat \cup {Never}]
Sample == [ts : Nat, value : Values]
Replies == [values : UNION {[some -> Values] : some \in SUBSET Keys}, clean : BOOLEAN]
NoReply == [values |-> [k \in {} |-> NoValue], clean |-> FALSE]

\* Mutant: a new series starts at the value -1 instead of NULL.
UnknownAtMinusOne == [known |-> FALSE, active |-> FALSE, value |-> -1, seen |-> Never]

Unknown == [known |-> FALSE, active |-> FALSE, value |-> NoValue, seen |-> Never]

KeysOf(p) == {k \in Keys : Owner[k] = p}

Before(rows, t) == {s \in rows : s.ts <= t}

\* The row ORDER BY ts DESC LIMIT 1 returns.
NewestSample(rows) == CHOOSE s \in rows : \A r \in rows : r.ts <= s.ts

\* value_as_of: the last value carried forward.
ValueAsOf(rows, t) ==
    IF Before(rows, t) = {} THEN NoValue ELSE NewestSample(Before(rows, t)).value

\* Mutant: the window's first point is the first sample inside it.
HistoryWithoutAnchor(rows, start, end) == {s \in rows : s.ts > start /\ s.ts <= end}

\* history: the samples in (start, end], anchored at start.
History(rows, start, end) ==
    {s \in rows : s.ts > start /\ s.ts <= end}
        \cup (IF Before(rows, start) = {} THEN {}
              ELSE {[ts |-> start, value |-> ValueAsOf(rows, start)]})

\* Mutant: unchanged values are never stored again.
ShouldWriteNoHeartbeat(row, ts, value) == row.value = NoValue \/ value # row.value

\* Store-on-change: the value changed, or the last sample is a heartbeat old.
ShouldWrite(row, ts, value) ==
    \/ row.value = NoValue \/ row.seen = Never
    \/ value # row.value
    \/ ts - row.seen >= Heartbeat

\* Mutant: ON CONFLICT DO NOTHING.
InsertIfAbsent(rows, ts, value) ==
    IF \E s \in rows : s.ts = ts THEN rows ELSE rows \cup {[ts |-> ts, value |-> value]}

\* INSERT ... ON CONFLICT (series_id, ts) DO UPDATE.
Upsert(rows, ts, value) == {s \in rows : s.ts # ts} \cup {[ts |-> ts, value |-> value]}

TypeOK ==
    /\ clock \in Nat
    /\ up \in BOOLEAN
    /\ enabled \subseteq Plugins
    /\ series \in [Keys -> Series]
    /\ samples \in [Keys -> SUBSET Sample]
    /\ pc \in [Plugins -> {"idle", "collected", "stored"}]
    /\ since \in [Plugins -> Nat]
    /\ reply \in [Plugins -> Replies]
    /\ reported \in [Keys -> SUBSET Nat]
    /\ restarts \in Nat /\ polls \in Nat

------------------------------------------------------------------------------
Init ==
    /\ clock = 0
    /\ up = FALSE /\ enabled = {} /\ restarts = 0 /\ polls = 0
    /\ series = [k \in Keys |-> Unknown]
    /\ samples = [k \in Keys |-> {}]
    /\ reported = [k \in Keys |-> {}]
    /\ pc = [p \in Plugins |-> "idle"]
    /\ since = [p \in Plugins |-> 0]
    /\ reply = [p \in Plugins |-> NoReply]

Tick ==
    /\ clock < MaxTime
    /\ clock' = clock + 1
    /\ UNCHANGED <<process, store, poll>>

\* The plugins whose series survive a start: enabled, or enabled but broken.
Kept(on, broken) == on \cup broken

\* lifespan: discovery finds some plugins enabled and some enabled but failing
\* to load; retire_series_not_in deactivates the series of all the others.
Start(on, broken) ==
    /\ ~up /\ restarts < MaxRestarts
    /\ restarts' = restarts + 1
    /\ up' = TRUE /\ enabled' = on
    /\ series' = [k \in Keys |->
                    IF Owner[k] \in Kept(on, broken) THEN series[k]
                    ELSE [series[k] EXCEPT !.active = FALSE]]
    /\ UNCHANGED <<clock, samples, reported, poll>>

\* The process stops or is killed between any two steps.
Crash ==
    /\ up /\ restarts < MaxRestarts
    /\ up' = FALSE /\ enabled' = {}
    /\ pc' = [p \in Plugins |-> "idle"]
    /\ since' = [p \in Plugins |-> 0]
    /\ reply' = [p \in Plugins |-> NoReply]
    /\ UNCHANGED <<clock, restarts, polls, store>>

------------------------------------------------------------------------------
\* One poll

\* What validation lets through: all valid values, but none of the pattern
\* keys once a poll returns more of them than the cap.
Accepted(values) ==
    IF Cardinality(DOMAIN values \cap Patterns) <= PatternCap THEN values
    ELSE [k \in DOMAIN values \ Patterns |-> values[k]]

\* collect() returns values for some keys, and perhaps something invalid too.
\* A poll whose collect() raises writes nothing and is no step of this module.
Collect(p) ==
    /\ up /\ p \in enabled /\ pc[p] = "idle" /\ polls < MaxPolls
    /\ polls' = polls + 1
    /\ \E some \in SUBSET KeysOf(p) : \E values \in [some -> Values], valid \in BOOLEAN :
        reply' = [reply EXCEPT ![p] =
                    [values |-> Accepted(values),
                     clean |-> valid /\ Accepted(values) = values]]
    /\ since' = [since EXCEPT ![p] = clock]
    /\ pc' = [pc EXCEPT ![p] = "collected"]
    /\ UNCHANGED <<clock, process, store>>

\* Mutant: last_seen is the last poll's time, not the last sample's.
RowAfterSeeing(row, ts, value) ==
    [known |-> TRUE, active |-> TRUE, value |-> value, seen |-> ts]

\* The metric_series row after one key of a poll: known, active, and with the
\* sample's value and time if one was written.
RowAfter(row, ts, value) ==
    LET written == ShouldWrite(row, ts, value)
    IN  [known |-> TRUE, active |-> TRUE,
         value |-> IF written THEN value ELSE row.value,
         seen |-> IF written THEN ts ELSE row.seen]

SamplesAfter(rows, row, ts, value) ==
    IF ShouldWrite(row, ts, value) THEN Upsert(rows, ts, value) ELSE rows

\* store_poll: one transaction for every key of the poll.
Store(p) ==
    /\ up /\ pc[p] = "collected"
    /\ LET values == reply[p].values
           ts == since[p]
       IN  /\ series' = [k \in Keys |-> IF k \in DOMAIN values
                            THEN RowAfter(series[k], ts, values[k]) ELSE series[k]]
           /\ samples' = [k \in Keys |-> IF k \in DOMAIN values
                            THEN SamplesAfter(samples[k], series[k], ts, values[k])
                            ELSE samples[k]]
           /\ reported' = [k \in Keys |-> IF k \in DOMAIN values
                            THEN reported[k] \cup {ts} ELSE reported[k]]
    /\ pc' = [pc EXCEPT ![p] = "stored"]
    /\ UNCHANGED <<clock, process, since, reply, polls>>

\* The poll ends here: the transaction rolled back, the poll was not clean, or
\* reconciliation raised.  Whatever was stored stays.
EndPoll(p) ==
    /\ pc' = [pc EXCEPT ![p] = "idle"]
    /\ since' = [since EXCEPT ![p] = 0]
    /\ reply' = [reply EXCEPT ![p] = NoReply]
    /\ UNCHANGED polls

Fail(p) ==
    /\ up /\ pc[p] # "idle"
    /\ EndPoll(p)
    /\ UNCHANGED <<clock, process, store>>

\* Mutant: every poll reconciles, a partial one too.
CleanAlways(p) == TRUE

\* "ok" with zero violations.
Clean(p) == reply[p].clean

\* _reconcile_pattern_series: after a clean poll the plugin's pattern series
\* are active exactly if they were returned; exact keys are left alone.
Reconcile(p) ==
    /\ up /\ pc[p] = "stored" /\ Clean(p)
    /\ series' = [k \in Keys |->
                    IF k \in KeysOf(p) \cap Patterns /\ series[k].known
                    THEN [series[k] EXCEPT !.active = k \in DOMAIN reply[p].values]
                    ELSE series[k]]
    /\ EndPoll(p)
    /\ UNCHANGED <<clock, process, samples, reported>>

\* The model's clock stops at its bound; the system's does not.
Horizon == clock = MaxTime /\ UNCHANGED vars

Next ==
    \/ Tick \/ Crash \/ Horizon
    \/ \E on \in SUBSET Plugins, broken \in SUBSET Plugins :
            on \cap broken = {} /\ Start(on, broken)
    \/ \E p \in Plugins : Collect(p) \/ Store(p) \/ Fail(p) \/ Reconcile(p)

Spec == Init /\ [][Next]_vars

------------------------------------------------------------------------------
\* Properties

\* The catalogue agrees with the samples: last_value and last_seen are those of
\* the newest sample, through crashes and polls that write nothing, which is
\* what lets latest() answer without reading samples at all.
CatalogueMatchesSamples ==
    \A k \in Keys :
        IF samples[k] = {}
        THEN series[k].value = NoValue /\ series[k].seen = Never
        ELSE /\ [ts |-> series[k].seen, value |-> series[k].value] \in samples[k]
             /\ \A s \in samples[k] : s.ts <= series[k].seen

\* A flat line is not a dead source: wherever a poll reported a key there is a
\* sample less than a heartbeat older, although unchanged values are not stored.
FlatLineHasHeartbeat ==
    \A k \in Keys : \A t \in reported[k] :
        \E s \in samples[k] : s.ts <= t /\ (s.ts = t \/ t - s.ts < Heartbeat)

\* A chart drawn from history() shows at every point of its window what
\* value_as_of() would have answered there.
HistoryShowsTheCurve ==
    \A k \in Keys : \A start \in 0 .. clock : \A end \in start .. clock :
        \A t \in start .. end :
            ValueAsOf(History(samples[k], start, end), t) = ValueAsOf(samples[k], t)

\* A series disappears from the dashboard only because its plugin was disabled
\* or removed at a restart, or, for a pattern key, because a complete and valid
\* poll of its own plugin did not return it: never by a failed poll (a 403 must
\* never retire every subject at once), a broken plugin file or another plugin.
DeactivationJustified ==
    [][\A k \in Keys : series[k].active /\ ~series'[k].active =>
        \/ \E on, broken \in SUBSET Plugins :
                Start(on, broken) /\ Owner[k] \notin on \cup broken
        \/ /\ k \in Patterns /\ pc[Owner[k]] = "stored" /\ reply[Owner[k]].clean
           /\ k \notin DOMAIN reply[Owner[k]].values]_vars

\* What each reader is told: value_as_of() at every second, latest(), and the
\* time of the last report (which no reader sees).
Curve == [k \in Keys |-> [t \in 0 .. MaxTime |-> ValueAsOf(samples[k], t)]]
Latest == [k \in Keys |-> series[k].value]
Settled == [k \in Keys |->
    IF reported[k] = {} THEN -1
    ELSE CHOOSE t \in reported[k] : \A u \in reported[k] : u <= t]

Promise == INSTANCE ValueCurve WITH curve <- Curve, latest <- Latest, settled <- Settled

\* Store-on-change is invisible: whatever was written or skipped, the readers of
\* samples and of the catalogue are told what the polls reported (ValueCurve).
ImplementsCurve == Promise!Spec

==============================================================================
