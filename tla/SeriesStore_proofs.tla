-------------------------- MODULE SeriesStore_proofs --------------------------
(***************************************************************************)
(* Proofs about SeriesStore, for every set of plugins, keys and values and *)
(* every heartbeat: its type invariant, that the catalogue agrees with the *)
(* samples, that store-on-change implements ValueCurve, that a flat line   *)
(* has its heartbeats and a chart the values of the curve, and that no     *)
(* series is retired without a reason.                                     *)
(***************************************************************************)
EXTENDS SeriesStore, NumberLemmas

\* Every accepted value comes from the reply; only keys are dropped.
LEMMA AcceptedIsPart ==
    ASSUME NEW p \in Plugins, NEW some \in SUBSET KeysOf(p), NEW values \in [some -> Values]
    PROVE  /\ Accepted(values) \in UNION {[part -> Values] : part \in SUBSET Keys}
           /\ DOMAIN Accepted(values) \subseteq KeysOf(p)
<1>1. CASE Cardinality(DOMAIN values \cap Patterns) <= PatternCap
    <2>1. Accepted(values) = values
        BY <1>1 DEF Accepted
    <2>2. some \in SUBSET Keys
        BY DEF KeysOf
    <2> QED BY <2>1, <2>2
<1>2. CASE ~(Cardinality(DOMAIN values \cap Patterns) <= PatternCap)
    <2>1. Accepted(values) = [k \in some \ Patterns |-> values[k]]
        BY <1>2 DEF Accepted
    <2>2. /\ some \ Patterns \in SUBSET Keys
          /\ some \ Patterns \subseteq KeysOf(p)
        BY DEF KeysOf
    <2>3. [k \in some \ Patterns |-> values[k]] \in [some \ Patterns -> Values]
        OBVIOUS
    <2> QED BY <2>1, <2>2, <2>3
<1> QED BY <1>1, <1>2

\* The row and the samples of a key after a poll have their types.
LEMMA RowAfterType ==
    ASSUME NEW row \in Series, NEW rows \in SUBSET Sample, NEW ts \in Nat, NEW v \in Values
    PROVE  /\ RowAfter(row, ts, v) \in Series
           /\ SamplesAfter(rows, row, ts, v) \in SUBSET Sample
<1>1. RowAfter(row, ts, v) \in Series
    BY DEF RowAfter, Series
<1>2. Upsert(rows, ts, v) \in SUBSET Sample
    BY DEF Upsert, Sample
<1> QED BY <1>1, <1>2 DEF SamplesAfter

LEMMA InitType == Init => TypeOK
<1> SUFFICES ASSUME Init PROVE TypeOK OBVIOUS
<1>1. Unknown \in Series
    BY DEF Unknown, Series, Never
<1>2. NoReply \in Replies
    <2>1. [k \in {} |-> NoValue] \in [{} -> Values]
        OBVIOUS
    <2> QED BY <2>1 DEF NoReply, Replies
<1> QED BY <1>1, <1>2 DEF Init, TypeOK

LEMMA StepType == TypeOK /\ [Next]_vars => TypeOK'
<1> SUFFICES ASSUME TypeOK, [Next]_vars PROVE TypeOK' OBVIOUS
<1>a. NoReply \in Replies
    <2>1. [k \in {} |-> NoValue] \in [{} -> Values]
        OBVIOUS
    <2> QED BY <2>1 DEF NoReply, Replies
<1>1. CASE Tick
    BY <1>1, SeriesBoundAssumption DEF Tick, TypeOK, process, store, poll
<1>2. CASE Crash
    BY <1>2, <1>a DEF Crash, TypeOK, store
<1>3. ASSUME NEW on \in SUBSET Plugins, NEW broken \in SUBSET Plugins, Start(on, broken)
      PROVE  TypeOK'
    <2>1. ASSUME NEW k \in Keys PROVE [series[k] EXCEPT !.active = FALSE] \in Series
        <3>1. series[k] \in Series
            BY DEF TypeOK
        <3> QED BY <3>1 DEF Series
    <2>2. series' \in [Keys -> Series]
        BY <1>3, <2>1 DEF Start, TypeOK
    <2> QED BY <1>3, <2>2 DEF Start, TypeOK, poll
<1>4. ASSUME NEW p \in Plugins, Collect(p)
      PROVE  TypeOK'
    <2>1. PICK some \in SUBSET KeysOf(p) : \E values \in [some -> Values], valid \in BOOLEAN :
            reply' = [reply EXCEPT ![p] = [values |-> Accepted(values),
                        clean |-> valid /\ Accepted(values) = values]]
        BY <1>4 DEF Collect
    <2>2. PICK values \in [some -> Values], valid \in BOOLEAN :
            reply' = [reply EXCEPT ![p] = [values |-> Accepted(values),
                        clean |-> valid /\ Accepted(values) = values]]
        BY <2>1
    <2>3. [values |-> Accepted(values), clean |-> valid /\ Accepted(values) = values] \in Replies
        BY AcceptedIsPart DEF Replies
    <2>4. reply' \in [Plugins -> Replies]
        BY <2>2, <2>3 DEF TypeOK
    <2> QED BY <1>4, <2>4 DEF Collect, TypeOK, process, store
<1>5. ASSUME NEW p \in Plugins, Store(p)
      PROVE  TypeOK'
    <2>1. /\ reply[p] \in Replies
          /\ since[p] \in Nat
        BY DEF TypeOK
    <2>2. ASSUME NEW k \in DOMAIN reply[p].values PROVE reply[p].values[k] \in Values
        BY <2>1 DEF Replies
    <2>3. series' \in [Keys -> Series]
        BY <1>5, <2>1, <2>2, RowAfterType DEF Store, TypeOK
    <2>4. samples' \in [Keys -> SUBSET Sample]
        BY <1>5, <2>1, <2>2, RowAfterType DEF Store, TypeOK
    <2>5. reported' \in [Keys -> SUBSET Nat]
        BY <1>5, <2>1 DEF Store, TypeOK
    <2> QED BY <1>5, <2>3, <2>4, <2>5 DEF Store, TypeOK, process
<1>6. ASSUME NEW p \in Plugins, Fail(p)
      PROVE  TypeOK'
    BY <1>6, <1>a DEF Fail, EndPoll, TypeOK, process, store
<1>7. ASSUME NEW p \in Plugins, Reconcile(p)
      PROVE  TypeOK'
    <2>1. ASSUME NEW k \in Keys, NEW b \in BOOLEAN
          PROVE  [series[k] EXCEPT !.active = b] \in Series
        <3>1. series[k] \in Series
            BY DEF TypeOK
        <3> QED BY <3>1 DEF Series
    <2>2. \A k \in Keys : (k \in DOMAIN reply[p].values) \in BOOLEAN
        OBVIOUS
    <2>3. series' \in [Keys -> Series]
        BY <1>7, <2>1, <2>2 DEF Reconcile, TypeOK
    <2> QED BY <1>7, <1>a, <2>3 DEF Reconcile, EndPoll, TypeOK, process
<1>8. CASE UNCHANGED vars
    BY <1>8 DEF TypeOK, vars, process, store, poll
<1> QED BY <1>1, <1>2, <1>3, <1>4, <1>5, <1>6, <1>7, <1>8 DEF Next, Horizon

\* The type invariant of the series catalogue and the sample store.
THEOREM TypeCorrect == Spec => []TypeOK
<1> QED BY InitType, StepType, PTL DEF Spec

------------------------------------------------------------------------------
\* The inductive invariant

\* A poll is never older than a sample of its plugin's series, so its samples
\* are appended or overwrite the newest; nothing is in the future.
TimesOrdered ==
    /\ clock <= MaxTime
    /\ \A p \in Plugins : pc[p] # "idle" => since[p] <= clock
    /\ \A k \in Keys :
        /\ series[k].seen <= clock
        /\ \A t \in reported[k] : t <= clock
        /\ pc[Owner[k]] # "idle" =>
            /\ series[k].seen <= since[Owner[k]]
            /\ \A t \in reported[k] : t <= since[Owner[k]]

\* A poll reports only keys with its plugin's prefix.
RepliesOwned == \A p \in Plugins : DOMAIN reply[p].values \subseteq KeysOf(p)

OneSamplePerSecond ==
    \A k \in Keys : \A r, s \in samples[k] : r.ts = s.ts => r = s

StoreInv ==
    /\ TypeOK
    /\ TimesOrdered
    /\ RepliesOwned
    /\ OneSamplePerSecond
    /\ CatalogueMatchesSamples

\* What one key of a poll does to its row and samples: the row describes the
\* newest sample again, and no sample's second is used twice.
LEMMA KeyStored ==
    ASSUME NEW row \in Series, NEW rows \in SUBSET Sample, NEW ts \in Nat, NEW v \in Values,
           row.seen <= ts,
           \A r, s \in rows : r.ts = s.ts => r = s,
           IF rows = {} THEN row.value = NoValue /\ row.seen = Never
           ELSE /\ [ts |-> row.seen, value |-> row.value] \in rows
                /\ \A s \in rows : s.ts <= row.seen,
           NEW row2, row2 = RowAfter(row, ts, v),
           NEW rows2, rows2 = SamplesAfter(rows, row, ts, v)
    PROVE  /\ \A r, s \in rows2 : r.ts = s.ts => r = s
           /\ [ts |-> row2.seen, value |-> row2.value] \in rows2
           /\ \A s \in rows2 : s.ts <= row2.seen
           /\ row2.seen <= ts
           /\ row2.value = v
<1>1. CASE ShouldWrite(row, ts, v)
    <2>1. /\ row2.seen = ts /\ row2.value = v
          /\ rows2 = Upsert(rows, ts, v)
        BY <1>1 DEF RowAfter, SamplesAfter
    <2>2. \A s \in rows : s.ts \in Int /\ s.ts <= ts
        <3>1. \A s \in rows : s.ts <= row.seen
            OBVIOUS
        <3>2. row.seen \in Int /\ \A s \in rows : s.ts \in Int
            BY DEF Series, Sample, Never
        <3> QED BY <3>1, <3>2
    <2> QED BY <2>1, <2>2 DEF Upsert
<1>2. CASE ~ShouldWrite(row, ts, v)
    <2>1. row2.seen = row.seen /\ row2.value = row.value /\ rows2 = rows
        BY <1>2 DEF RowAfter, SamplesAfter
    <2>2. row.value = v /\ row.value # NoValue
        BY <1>2 DEF ShouldWrite
    <2> QED BY <2>1, <2>2
<1> QED BY <1>1, <1>2

LEMMA InitStoreInv == Init => StoreInv
<1> SUFFICES ASSUME Init PROVE StoreInv OBVIOUS
<1>1. Unknown \in Series /\ NoReply \in Replies
    <2>1. [k \in {} |-> NoValue] \in [{} -> Values]
        OBVIOUS
    <2> QED BY <2>1 DEF Unknown, Series, Never, NoReply, Replies
<1>2. TypeOK
    BY <1>1 DEF Init, TypeOK
<1>3. TimesOrdered
    BY KeyAssumption, SeriesBoundAssumption DEF Init, TimesOrdered, Unknown, Never
<1>4. RepliesOwned
    BY DEF Init, RepliesOwned, NoReply
<1>5. OneSamplePerSecond /\ CatalogueMatchesSamples
    BY DEF Init, OneSamplePerSecond, CatalogueMatchesSamples, Unknown
<1> QED BY <1>2, <1>3, <1>4, <1>5 DEF StoreInv

LEMMA StepStoreInv == StoreInv /\ [Next]_vars => StoreInv'
<1> SUFFICES ASSUME StoreInv, [Next]_vars PROVE StoreInv' OBVIOUS
<1>a. TypeOK /\ TypeOK'
    BY StepType DEF StoreInv
<1> USE DEF StoreInv
<1>1. CASE Tick
    <2>1. clock' = clock + 1 /\ clock' <= MaxTime /\ clock \in Nat
        BY <1>1, <1>a, SeriesBoundAssumption DEF Tick, TypeOK
    <2>2. \A k \in Keys : series[k].seen \in Int /\ reported[k] \subseteq Nat
        BY <1>a DEF TypeOK, Series, Never
    <2>3. \A p \in Plugins : since[p] \in Nat
        BY <1>a DEF TypeOK
    <2>4. TimesOrdered'
        BY <1>1, <2>1, <2>2, <2>3 DEF Tick, TimesOrdered, store, poll
    <2>5. RepliesOwned' /\ OneSamplePerSecond' /\ CatalogueMatchesSamples'
        BY <1>1 DEF Tick, RepliesOwned, OneSamplePerSecond, CatalogueMatchesSamples, store, poll
    <2> QED BY <1>a, <2>4, <2>5
<1>2. CASE Crash
    <2>1. TimesOrdered'
        BY <1>2, KeyAssumption DEF Crash, TimesOrdered, store
    <2>2. RepliesOwned'
        BY <1>2 DEF Crash, RepliesOwned, NoReply
    <2>3. OneSamplePerSecond' /\ CatalogueMatchesSamples'
        BY <1>2 DEF Crash, OneSamplePerSecond, CatalogueMatchesSamples, store
    <2> QED BY <1>a, <2>1, <2>2, <2>3
<1>3. ASSUME NEW on \in SUBSET Plugins, NEW broken \in SUBSET Plugins, Start(on, broken)
      PROVE  StoreInv'
    <2>1. \A k \in Keys : series'[k].seen = series[k].seen /\ series'[k].value = series[k].value
        <3> SUFFICES ASSUME NEW k \in Keys
                     PROVE  series'[k].seen = series[k].seen /\ series'[k].value = series[k].value
            OBVIOUS
        <3>1. series[k] \in Series
            BY <1>a DEF TypeOK
        <3> QED BY <1>3, <3>1 DEF Start, Series
    <2>2. UNCHANGED <<clock, samples, reported, pc, since, reply>>
        BY <1>3 DEF Start, poll
    <2>3. TimesOrdered'
        BY <2>1, <2>2 DEF TimesOrdered
    <2>4. RepliesOwned' /\ OneSamplePerSecond'
        BY <2>2 DEF RepliesOwned, OneSamplePerSecond
    <2>5. CatalogueMatchesSamples'
        BY <2>1, <2>2 DEF CatalogueMatchesSamples
    <2> QED BY <1>a, <2>3, <2>4, <2>5
<1>4. ASSUME NEW p \in Plugins, Collect(p)
      PROVE  StoreInv'
    <2>1. /\ UNCHANGED <<clock, series, samples, reported>>
          /\ since' = [since EXCEPT ![p] = clock]
          /\ pc' = [pc EXCEPT ![p] = "collected"]
        BY <1>4 DEF Collect, store
    <2>2. since \in [Plugins -> Nat] /\ clock \in Nat /\ pc \in [Plugins -> {"idle", "collected", "stored"}]
        BY <1>a DEF TypeOK
    <2>3. TimesOrdered'
        <3>1. \A q \in Plugins : pc'[q] # "idle" => since'[q] <= clock'
            BY <2>1, <2>2 DEF TimesOrdered
        <3>2. ASSUME NEW k \in Keys, pc'[Owner[k]] # "idle"
              PROVE  series'[k].seen <= since'[Owner[k]] /\ \A t \in reported'[k] : t <= since'[Owner[k]]
            <4>1. Owner[k] \in Plugins
                BY KeyAssumption
            <4>2. CASE Owner[k] = p
                BY <2>1, <2>2, <4>2 DEF TimesOrdered
            <4>3. CASE Owner[k] # p
                BY <2>1, <2>2, <3>2, <4>1, <4>3 DEF TimesOrdered
            <4> QED BY <4>2, <4>3
        <3> QED BY <2>1, <3>1, <3>2 DEF TimesOrdered
    <2>4. RepliesOwned'
        <3>1. PICK some \in SUBSET KeysOf(p) : \E values \in [some -> Values], valid \in BOOLEAN :
                reply' = [reply EXCEPT ![p] = [values |-> Accepted(values),
                            clean |-> valid /\ Accepted(values) = values]]
            BY <1>4 DEF Collect
        <3>2. PICK values \in [some -> Values], valid \in BOOLEAN :
                reply' = [reply EXCEPT ![p] = [values |-> Accepted(values),
                            clean |-> valid /\ Accepted(values) = values]]
            BY <3>1
        <3>3. DOMAIN Accepted(values) \subseteq KeysOf(p)
            BY AcceptedIsPart
        <3>4. reply'[p].values = Accepted(values)
            BY <3>2, <1>a DEF TypeOK
        <3>5. \A q \in Plugins \ {p} : reply'[q] = reply[q]
            BY <3>2, <1>a DEF TypeOK
        <3> QED BY <3>3, <3>4, <3>5 DEF RepliesOwned
    <2>5. OneSamplePerSecond' /\ CatalogueMatchesSamples'
        BY <2>1 DEF OneSamplePerSecond, CatalogueMatchesSamples
    <2> QED BY <1>a, <2>3, <2>4, <2>5
<1>5. ASSUME NEW p \in Plugins, Store(p)
      PROVE  StoreInv'
    <2> DEFINE values == reply[p].values
               ts == since[p]
    <2>1. /\ pc[p] = "collected" /\ pc' = [pc EXCEPT ![p] = "stored"]
          /\ UNCHANGED <<clock, since, reply>>
          /\ \A k \in Keys : k \notin DOMAIN values =>
                UNCHANGED <<series[k], samples[k], reported[k]>>
          /\ \A k \in Keys : k \in DOMAIN values =>
                /\ series'[k] = RowAfter(series[k], ts, values[k])
                /\ samples'[k] = SamplesAfter(samples[k], series[k], ts, values[k])
                /\ reported'[k] = reported[k] \cup {ts}
        BY <1>5, <1>a DEF Store, TypeOK
    <2>2. ts \in Nat /\ ts <= clock /\ clock \in Nat
        BY <1>a, <2>1 DEF TypeOK, TimesOrdered
    <2>3. \A k \in DOMAIN values : k \in Keys /\ Owner[k] = p
        BY DEF RepliesOwned, KeysOf
    <2>4. \A k \in DOMAIN values : values[k] \in Values
        BY <1>a DEF TypeOK, Replies
    <2>5. ASSUME NEW k \in DOMAIN values
          PROVE  /\ \A r, s \in samples'[k] : r.ts = s.ts => r = s
                 /\ [ts |-> series'[k].seen, value |-> series'[k].value] \in samples'[k]
                 /\ \A s \in samples'[k] : s.ts <= series'[k].seen
                 /\ series'[k].seen <= ts
        <3>1. k \in Keys /\ Owner[k] = p /\ values[k] \in Values
            BY <2>3, <2>4
        <3>2. series[k] \in Series /\ samples[k] \in SUBSET Sample
            BY <1>a, <3>1 DEF TypeOK
        <3>3. series[k].seen <= ts
            BY <2>1, <3>1 DEF TimesOrdered
        <3>4. \A r, s \in samples[k] : r.ts = s.ts => r = s
            BY <3>1 DEF OneSamplePerSecond
        <3>5. IF samples[k] = {} THEN series[k].value = NoValue /\ series[k].seen = Never
              ELSE /\ [ts |-> series[k].seen, value |-> series[k].value] \in samples[k]
                   /\ \A s \in samples[k] : s.ts <= series[k].seen
            BY <3>1 DEF CatalogueMatchesSamples
        <3>6. /\ series'[k] = RowAfter(series[k], ts, values[k])
              /\ samples'[k] = SamplesAfter(samples[k], series[k], ts, values[k])
            BY <2>1, <3>1
        <3> HIDE DEF ts, values
        <3> QED BY <2>2, <3>1, <3>2, <3>3, <3>4, <3>5, <3>6, KeyStored
    <2>6. \A k \in Keys : series[k].seen \in Int /\ series'[k].seen \in Int
                           /\ reported[k] \subseteq Nat
        BY <1>a DEF TypeOK, Series, Never
    <2>7. TimesOrdered'
        <3>1. \A q \in Plugins : pc'[q] # "idle" => since'[q] <= clock'
            BY <1>a, <2>1, <2>2 DEF TimesOrdered, TypeOK
        <3>2. ASSUME NEW k \in DOMAIN values
              PROVE  /\ series'[k].seen <= clock' /\ series'[k].seen <= since'[Owner[k]]
                     /\ \A t \in reported'[k] : t <= clock' /\ t <= since'[Owner[k]]
            <4>1. k \in Keys /\ Owner[k] = p /\ since' = since /\ clock' = clock
                BY <2>1, <2>3
            <4>2. reported'[k] = reported[k] \cup {ts}
                BY <2>1, <4>1
            <4>3. \A t \in reported[k] : t <= ts
                BY <2>1, <4>1 DEF TimesOrdered
            <4>4. series'[k].seen <= ts
                BY <2>5
            <4> QED BY <2>2, <2>6, <4>1, <4>2, <4>3, <4>4
        <3>3. ASSUME NEW k \in Keys, k \notin DOMAIN values
              PROVE  /\ series'[k].seen <= clock'
                     /\ \A t \in reported'[k] : t <= clock'
                     /\ pc'[Owner[k]] # "idle" =>
                            /\ series'[k].seen <= since'[Owner[k]]
                            /\ \A t \in reported'[k] : t <= since'[Owner[k]]
            <4>1. Owner[k] \in Plugins
                BY KeyAssumption
            <4>2. pc'[Owner[k]] # "idle" => pc[Owner[k]] # "idle"
                BY <1>a, <2>1, <4>1 DEF TypeOK
            <4> QED BY <2>1, <3>3, <4>2 DEF TimesOrdered
        <3>4. clock' <= MaxTime
            BY <2>1 DEF TimesOrdered
        <3> QED BY <3>1, <3>2, <3>3, <3>4 DEF TimesOrdered
    <2>8. RepliesOwned'
        BY <2>1 DEF RepliesOwned
    <2>9. OneSamplePerSecond' /\ CatalogueMatchesSamples'
        <3>1. ASSUME NEW k \in Keys, k \notin DOMAIN values
              PROVE  samples'[k] = samples[k] /\ series'[k] = series[k]
            BY <2>1, <3>1
        <3>2. OneSamplePerSecond'
            BY <2>5, <3>1 DEF OneSamplePerSecond
        <3>3. CatalogueMatchesSamples'
            BY <2>5, <3>1 DEF CatalogueMatchesSamples
        <3> QED BY <3>2, <3>3
    <2> QED BY <1>a, <2>7, <2>8, <2>9
<1>6. ASSUME NEW p \in Plugins, Fail(p) \/ Reconcile(p)
      PROVE  StoreInv'
    <2>1. /\ UNCHANGED <<clock, samples, reported>>
          /\ pc' = [pc EXCEPT ![p] = "idle"]
          /\ since' = [since EXCEPT ![p] = 0]
          /\ reply' = [reply EXCEPT ![p] = NoReply]
        BY <1>6 DEF Fail, Reconcile, EndPoll, store
    <2>2. \A k \in Keys : series'[k].seen = series[k].seen /\ series'[k].value = series[k].value
        <3> SUFFICES ASSUME NEW k \in Keys
                     PROVE  series'[k].seen = series[k].seen /\ series'[k].value = series[k].value
            OBVIOUS
        <3>1. series[k] \in Series
            BY <1>a DEF TypeOK
        <3> QED BY <1>6, <3>1 DEF Fail, Reconcile, Series, store
    <2>3. TimesOrdered'
        <3>1. \A q \in Plugins : pc'[q] # "idle" => pc[q] # "idle" /\ since'[q] = since[q]
            BY <1>a, <2>1 DEF TypeOK
        <3>2. \A k \in Keys : Owner[k] \in Plugins
            BY KeyAssumption
        <3> QED BY <2>1, <2>2, <3>1, <3>2 DEF TimesOrdered
    <2>4. RepliesOwned'
        <3>1. \A q \in Plugins : DOMAIN reply'[q].values \subseteq DOMAIN reply[q].values
            BY <1>a, <2>1 DEF TypeOK, NoReply
        <3> QED BY <3>1 DEF RepliesOwned
    <2>5. OneSamplePerSecond' /\ CatalogueMatchesSamples'
        BY <2>1, <2>2 DEF OneSamplePerSecond, CatalogueMatchesSamples
    <2> QED BY <1>a, <2>3, <2>4, <2>5
<1>7. CASE UNCHANGED vars
    BY <1>7, <1>a DEF vars, process, store, poll, TimesOrdered, RepliesOwned,
                      OneSamplePerSecond, CatalogueMatchesSamples
<1> QED BY <1>1, <1>2, <1>3, <1>4, <1>5, <1>6, <1>7 DEF Next, Horizon

\* The catalogue's last_value and last_seen are those of the newest sample, for
\* every plugin, key, value and heartbeat: latest() may answer from the
\* catalogue alone.
THEOREM CatalogueCorrect == Spec => []CatalogueMatchesSamples
<1>1. StoreInv => CatalogueMatchesSamples
    BY DEF StoreInv
<1> QED BY InitStoreInv, StepStoreInv, <1>1, PTL DEF Spec

------------------------------------------------------------------------------
\* The store implements ValueCurve

\* There is a last report of every key that was ever reported, so Settled is it.
ReportsEnd ==
    \A k \in Keys : reported[k] # {} => \E t \in reported[k] : \A u \in reported[k] : u <= t

\* One key of a poll sets its curve from the poll's timestamp on, whether a
\* sample was written or the old one carries the value forward.
LEMMA CurveStored ==
    ASSUME NEW row \in Series, NEW rows \in SUBSET Sample, NEW ts \in Nat, NEW v \in Values,
           row.seen <= ts,
           \A r, s \in rows : r.ts = s.ts => r = s,
           IF rows = {} THEN row.value = NoValue /\ row.seen = Never
           ELSE /\ [ts |-> row.seen, value |-> row.value] \in rows
                /\ \A s \in rows : s.ts <= row.seen,
           NEW t \in Nat
    PROVE  ValueAsOf(SamplesAfter(rows, row, ts, v), t) =
                IF t >= ts THEN v ELSE ValueAsOf(rows, t)
<1> DEFINE row2 == RowAfter(row, ts, v)
           rows2 == SamplesAfter(rows, row, ts, v)
           last == [ts |-> row2.seen, value |-> row2.value]
<1>1. /\ \A r, s \in rows2 : r.ts = s.ts => r = s
      /\ last \in rows2
      /\ \A s \in rows2 : s.ts <= row2.seen
      /\ row2.seen <= ts
      /\ row2.value = v
    BY KeyStored
<1>2. rows2 \in SUBSET Sample /\ row2 \in Series
    BY RowAfterType
<1>3. /\ row2.seen \in Int
      /\ \A s \in rows2 : s.ts \in Int
      /\ \A s \in rows : s.ts \in Int
    BY <1>2 DEF Series, Sample, Never
<1> HIDE DEF row2
<1>4. CASE t >= ts
    <2>1. Before(rows2, t) = rows2
        BY <1>1, <1>3, <1>4 DEF Before
    <2>2. NewestSample(rows2) = last
        <3>1. \A r \in rows2 : r.ts <= last.ts
            BY <1>1
        <3>2. ASSUME NEW s \in rows2, \A r \in rows2 : r.ts <= s.ts
              PROVE  s = last
            <4>1. last.ts <= s.ts /\ s.ts <= last.ts
                BY <1>1, <3>2
            <4>2. s.ts = last.ts
                BY <4>1, <1>3
            <4> QED BY <4>2, <1>1
        <3> QED BY <1>1, <3>1, <3>2 DEF NewestSample
    <2> QED BY <1>1, <1>4, <2>1, <2>2 DEF ValueAsOf
<1>5. CASE ~(t >= ts)
    <2>1. Before(rows2, t) = Before(rows, t)
        <3>1. ASSUME NEW s, s.ts # ts
              PROVE  s \in rows2 <=> s \in rows
            BY <3>1 DEF SamplesAfter, Upsert
        <3>2. \A s \in rows2 \cup rows : s.ts <= t => s.ts # ts
            BY <1>3, <1>5
        <3> QED BY <3>1, <3>2 DEF Before
    <2> QED BY <1>5, <2>1 DEF ValueAsOf
<1> QED BY <1>4, <1>5

LEMMA InitRefines == Init => ReportsEnd /\ Promise!Init
<1> SUFFICES ASSUME Init PROVE ReportsEnd /\ Promise!Init OBVIOUS
<1>1. \A k \in Keys : samples[k] = {} /\ reported[k] = {}
    BY DEF Init
<1>2. ReportsEnd
    BY <1>1 DEF ReportsEnd
<1>3. \A k \in Keys, t \in 0 .. MaxTime : ValueAsOf(samples[k], t) = NoValue
    BY <1>1 DEF ValueAsOf, Before
<1>4. Curve = [k \in Keys |-> [t \in Promise!Times |-> NoValue]]
    BY <1>3 DEF Curve, Promise!Times
<1>5. Settled = [k \in Keys |-> -1]
    BY <1>1 DEF Settled
<1>6. Latest = [k \in Keys |-> NoValue]
    BY DEF Init, Unknown, Latest
<1> QED BY <1>2, <1>4, <1>5, <1>6 DEF Promise!Init

\* A step that touches no sample, report or value is a stutter to the readers.
LEMMA OthersStutter ==
    ASSUME UNCHANGED <<samples, reported>>, \A k \in Keys : series'[k].value = series[k].value
    PROVE  UNCHANGED <<Curve, Latest, Settled>>
<1>1. Curve' = Curve
    BY DEF Curve
<1>2. Latest' = Latest
    BY DEF Latest
<1>3. Settled' = Settled
    BY DEF Settled
<1> QED BY <1>1, <1>2, <1>3

\* store_poll is one Report of the curve: all keys of the poll at once.
LEMMA StoreReports ==
    ASSUME NEW p \in Plugins, StoreInv, ReportsEnd, Store(p)
    PROVE  ReportsEnd' /\ Promise!Next
<1> DEFINE values == reply[p].values
           ts == since[p]
<1>1. TypeOK /\ TimesOrdered /\ RepliesOwned /\ OneSamplePerSecond /\ CatalogueMatchesSamples
    BY DEF StoreInv
<1>2. /\ pc[p] = "collected"
      /\ samples' = [k \in Keys |-> IF k \in DOMAIN values
                        THEN SamplesAfter(samples[k], series[k], ts, values[k])
                        ELSE samples[k]]
      /\ reported' = [k \in Keys |-> IF k \in DOMAIN values
                        THEN reported[k] \cup {ts} ELSE reported[k]]
      /\ series' = [k \in Keys |-> IF k \in DOMAIN values
                        THEN RowAfter(series[k], ts, values[k]) ELSE series[k]]
    BY DEF Store
<1>3. ts \in Nat /\ ts \in 0 .. MaxTime
    BY <1>1, <1>2, SeriesBoundAssumption DEF TypeOK, TimesOrdered
<1>4. /\ DOMAIN values \in SUBSET Keys
      /\ values \in [DOMAIN values -> Values]
    BY <1>1 DEF TypeOK, Replies
<1>5. \A k \in DOMAIN values : k \in Keys /\ Owner[k] = p
    BY <1>1 DEF RepliesOwned, KeysOf
<1>6. ASSUME NEW k \in DOMAIN values
      PROVE  \A t \in reported[k] : t \in Nat /\ t <= ts
    BY <1>1, <1>2, <1>5 DEF TimesOrdered, TypeOK
<1>7. ASSUME NEW k \in DOMAIN values
      PROVE  /\ Settled[k] <= ts
             /\ Settled'[k] = ts
             /\ ts \in reported'[k] /\ \A u \in reported'[k] : u <= ts
    <2>1. k \in Keys /\ reported'[k] = reported[k] \cup {ts}
        BY <1>2, <1>5
    <2>2. ts \in reported'[k] /\ \A u \in reported'[k] : u \in Nat /\ u <= ts
        BY <1>3, <1>6, <2>1
    <2>3. \A t \in reported'[k] : (\A u \in reported'[k] : u <= t) => t = ts
        BY <1>3, <2>2
    <2>4. Settled'[k] = ts
        <3>1. Settled'[k] = CHOOSE t \in reported'[k] : \A u \in reported'[k] : u <= t
            BY <2>1, <2>2 DEF Settled
        <3> QED BY <2>2, <2>3, <3>1
    <2>5. Settled[k] <= ts
        <3>1. CASE reported[k] = {}
            BY <1>3, <2>1, <3>1 DEF Settled
        <3>2. CASE reported[k] # {}
            <4>1. \E t \in reported[k] : \A u \in reported[k] : u <= t
                BY <2>1, <3>2 DEF ReportsEnd
            <4>2. Settled[k] \in reported[k]
                BY <2>1, <3>2, <4>1 DEF Settled
            <4> QED BY <1>6, <4>2
        <3> QED BY <3>1, <3>2
    <2> QED BY <2>2, <2>4, <2>5
<1>8. ASSUME NEW k \in Keys, k \notin DOMAIN values
      PROVE  samples'[k] = samples[k] /\ reported'[k] = reported[k] /\ Settled'[k] = Settled[k]
    BY <1>2, <1>8 DEF Settled
<1>9. ReportsEnd'
    BY <1>7, <1>8 DEF ReportsEnd
<1>10. ASSUME NEW k \in DOMAIN values, NEW t \in 0 .. MaxTime
       PROVE  ValueAsOf(samples'[k], t) = IF t >= ts THEN values[k] ELSE ValueAsOf(samples[k], t)
    <2>1. k \in Keys /\ Owner[k] = p /\ values[k] \in Values
        BY <1>4, <1>5
    <2>2. series[k] \in Series /\ samples[k] \in SUBSET Sample
        BY <1>1, <2>1 DEF TypeOK
    <2>3. series[k].seen <= ts
        BY <1>1, <1>2, <2>1 DEF TimesOrdered
    <2>4. \A r, s \in samples[k] : r.ts = s.ts => r = s
        BY <1>1, <2>1 DEF OneSamplePerSecond
    <2>5. IF samples[k] = {} THEN series[k].value = NoValue /\ series[k].seen = Never
          ELSE /\ [ts |-> series[k].seen, value |-> series[k].value] \in samples[k]
               /\ \A s \in samples[k] : s.ts <= series[k].seen
        BY <1>1, <2>1 DEF CatalogueMatchesSamples
    <2>6. samples'[k] = SamplesAfter(samples[k], series[k], ts, values[k])
        BY <1>2, <2>1
    <2>7. t \in Nat
        BY SeriesBoundAssumption
    <2> HIDE DEF ts, values
    <2> QED BY <1>3, <2>1, <2>2, <2>3, <2>4, <2>5, <2>6, <2>7, CurveStored
<1>11. ASSUME NEW k \in Keys
       PROVE  series'[k].value = IF k \in DOMAIN values THEN values[k] ELSE series[k].value
    BY <1>2 DEF RowAfter, ShouldWrite
<1>12. Promise!Report(ts, values)
    <2>1. \A k \in Keys, t \in 0 .. MaxTime :
            ValueAsOf(samples'[k], t) = IF k \in DOMAIN values /\ t >= ts
                                        THEN values[k] ELSE ValueAsOf(samples[k], t)
        BY <1>8, <1>10
    <2> HIDE DEF ts, values
    <2>2. Curve' = [k \in Keys |-> [t \in Promise!Times |->
                        IF k \in DOMAIN values /\ t >= ts THEN values[k] ELSE Curve[k][t]]]
        BY <2>1 DEF Curve, Promise!Times
    <2>3. Latest' = [k \in Keys |-> IF k \in DOMAIN values THEN values[k] ELSE Latest[k]]
        BY <1>11 DEF Latest
    <2>4. Settled' = [k \in Keys |-> IF k \in DOMAIN values THEN ts ELSE Settled[k]]
        <3>1. \A k \in Keys : Settled'[k] = IF k \in DOMAIN values THEN ts ELSE Settled[k]
            BY <1>7, <1>8
        <3> QED BY <3>1 DEF Settled
    <2>5. \A k \in DOMAIN values : Settled[k] <= ts
        BY <1>7
    <2> QED BY <2>2, <2>3, <2>4, <2>5 DEF Promise!Report
<1> HIDE DEF ts, values
<1> QED BY <1>3, <1>4, <1>9, <1>12 DEF Promise!Next, Promise!Times

LEMMA StepRefines ==
    StoreInv /\ ReportsEnd /\ [Next]_vars =>
        ReportsEnd' /\ [Promise!Next]_<<Curve, Latest, Settled>>
<1> SUFFICES ASSUME StoreInv, ReportsEnd, [Next]_vars
             PROVE  ReportsEnd' /\ [Promise!Next]_<<Curve, Latest, Settled>>
    OBVIOUS
<1>1. CASE \E p \in Plugins : Store(p)
    BY <1>1, StoreReports
<1>2. CASE UNCHANGED <<samples, reported>> /\ \A k \in Keys : series'[k].value = series[k].value
    <2>1. ReportsEnd'
        BY <1>2 DEF ReportsEnd
    <2> QED BY <1>2, <2>1, OthersStutter
<1>3. ASSUME ~ \E p \in Plugins : Store(p)
      PROVE  UNCHANGED <<samples, reported>> /\ \A k \in Keys : series'[k].value = series[k].value
    <2>1. UNCHANGED <<samples, reported>>
        BY <1>3 DEF Next, Tick, Crash, Horizon, Start, Collect, Fail, Reconcile, vars, store
    <2>2. \A k \in Keys : series[k] \in Series
        BY DEF StoreInv, TypeOK
    <2>3. \A k \in Keys : series'[k].value = series[k].value
        <3>1. CASE series' = series
            BY <3>1
        <3>2. CASE \E on, broken \in SUBSET Plugins : Start(on, broken)
            BY <2>2, <3>2 DEF Start, Series
        <3>3. CASE \E p \in Plugins : Reconcile(p)
            BY <2>2, <3>3 DEF Reconcile, Series
        <3> QED BY <1>3, <3>1, <3>2, <3>3
                DEF Next, Tick, Crash, Horizon, Collect, Fail, vars, store
    <2> QED BY <2>1, <2>3
<1> QED BY <1>1, <1>2, <1>3

\* Store-on-change and heartbeats are invisible to readers, for every plugin,
\* key, value and heartbeat: value_as_of follows the last poll that reported the
\* key, a poll's keys change together, and the past never changes.
THEOREM CurveImplemented == Spec => ImplementsCurve
<1>1. Init => StoreInv /\ ReportsEnd /\ Promise!Init
    BY InitStoreInv, InitRefines
<1>2. StoreInv /\ ReportsEnd /\ [Next]_vars => StoreInv' /\ ReportsEnd'
    BY StepStoreInv, StepRefines
<1>3. StoreInv /\ ReportsEnd /\ [Next]_vars => [Promise!Next]_<<Curve, Latest, Settled>>
    BY StepRefines
<1> QED BY <1>1, <1>2, <1>3, PTL DEF Spec, ImplementsCurve, Promise!Spec

------------------------------------------------------------------------------
\* A flat line has heartbeats

\* One key of a poll leaves every earlier report covered by a sample, since an
\* overwritten sample is replaced at its own second, and covers the new one.
LEMMA ReportsCovered ==
    ASSUME NEW row \in Series, NEW rows \in SUBSET Sample, NEW ts \in Nat, NEW v \in Values,
           row.seen <= ts,
           rows = {} => row.value = NoValue,
           rows # {} => [ts |-> row.seen, value |-> row.value] \in rows,
           NEW times \in SUBSET Nat,
           \A t \in times : \E s \in rows : s.ts <= t /\ (s.ts = t \/ t - s.ts < Heartbeat)
    PROVE  \A t \in times \cup {ts} :
                \E s \in SamplesAfter(rows, row, ts, v) :
                    s.ts <= t /\ (s.ts = t \/ t - s.ts < Heartbeat)
<1> SUFFICES ASSUME NEW t \in times \cup {ts}
             PROVE  \E s \in SamplesAfter(rows, row, ts, v) :
                        s.ts <= t /\ (s.ts = t \/ t - s.ts < Heartbeat)
    OBVIOUS
<1> DEFINE new == [ts |-> ts, value |-> v]
<1>1. CASE ShouldWrite(row, ts, v)
    <2>1. SamplesAfter(rows, row, ts, v) = {s \in rows : s.ts # ts} \cup {new}
        BY <1>1 DEF SamplesAfter, Upsert
    <2>2. CASE t = ts
        <3>1. new \in SamplesAfter(rows, row, ts, v) /\ new.ts = t /\ new.ts <= t
            BY <2>1, <2>2
        <3> HIDE DEF new
        <3> QED BY <3>1
    <2>3. CASE t # ts
        <3>1. PICK s \in rows : s.ts <= t /\ (s.ts = t \/ t - s.ts < Heartbeat)
            BY <2>3
        <3>2. CASE s.ts = ts
            <4>1. new.ts = s.ts /\ new \in SamplesAfter(rows, row, ts, v)
                BY <2>1, <3>2
            <4> QED BY <3>1, <4>1
        <3>3. CASE s.ts # ts
            BY <2>1, <3>1, <3>3
        <3> QED BY <3>2, <3>3
    <2> QED BY <2>2, <2>3
<1>2. CASE ~ShouldWrite(row, ts, v)
    <2>1. SamplesAfter(rows, row, ts, v) = rows
        BY <1>2 DEF SamplesAfter
    <2>2. CASE t \in times
        BY <2>1, <2>2
    <2>3. CASE t = ts
        <3>1. row.value # NoValue /\ ~(ts - row.seen >= Heartbeat)
            BY <1>2 DEF ShouldWrite
        <3>2. [ts |-> row.seen, value |-> row.value] \in rows
            BY <3>1
        <3>3. row.seen \in Int
            BY DEF Series, Never
        <3>4. ts - row.seen < Heartbeat
            BY <3>1, <3>3, HeartbeatAssumption
        <3> QED BY <2>1, <2>3, <3>2, <3>4
    <2> QED BY <2>2, <2>3
<1> QED BY <1>1, <1>2

LEMMA StepCovered == StoreInv /\ FlatLineHasHeartbeat /\ [Next]_vars => FlatLineHasHeartbeat'
<1> SUFFICES ASSUME StoreInv, FlatLineHasHeartbeat, [Next]_vars PROVE FlatLineHasHeartbeat'
    OBVIOUS
<1>1. ASSUME NEW p \in Plugins, Store(p)
      PROVE  FlatLineHasHeartbeat'
    <2> DEFINE values == reply[p].values
               ts == since[p]
    <2>1. TypeOK /\ TimesOrdered /\ RepliesOwned /\ CatalogueMatchesSamples
        BY DEF StoreInv
    <2>2. pc[p] # "idle" /\ ts \in Nat
        BY <1>1, <2>1 DEF Store, TypeOK
    <2>3. ASSUME NEW k \in Keys, k \in DOMAIN values
          PROVE  /\ samples'[k] = SamplesAfter(samples[k], series[k], ts, values[k])
                 /\ reported'[k] = reported[k] \cup {ts}
                 /\ series[k] \in Series /\ samples[k] \in SUBSET Sample
                 /\ values[k] \in Values /\ reported[k] \in SUBSET Nat
                 /\ series[k].seen <= ts
        <3>1. Owner[k] = p
            BY <2>1, <2>3 DEF RepliesOwned, KeysOf
        <3>2. series[k].seen <= ts
            BY <2>1, <2>2, <3>1 DEF TimesOrdered
        <3>3. series[k] \in Series /\ samples[k] \in SUBSET Sample /\ reported[k] \in SUBSET Nat
            BY <2>1 DEF TypeOK
        <3>4. values[k] \in Values
            BY <2>1, <2>3 DEF TypeOK, Replies
        <3> QED BY <1>1, <2>3, <3>2, <3>3, <3>4 DEF Store
    <2>4. ASSUME NEW k \in Keys, k \notin DOMAIN values
          PROVE  samples'[k] = samples[k] /\ reported'[k] = reported[k]
        BY <1>1, <2>4 DEF Store
    <2>5. ASSUME NEW k \in Keys, k \in DOMAIN values
          PROVE  \A t \in reported'[k] : \E s \in samples'[k] :
                    s.ts <= t /\ (s.ts = t \/ t - s.ts < Heartbeat)
        <3>1. /\ samples[k] = {} => series[k].value = NoValue
              /\ samples[k] # {} => [ts |-> series[k].seen, value |-> series[k].value] \in samples[k]
            BY <2>1 DEF CatalogueMatchesSamples
        <3>2. \A t \in reported[k] : \E s \in samples[k] :
                    s.ts <= t /\ (s.ts = t \/ t - s.ts < Heartbeat)
            BY DEF FlatLineHasHeartbeat
        <3> HIDE DEF ts, values
        <3>3. /\ series[k] \in Series /\ samples[k] \in SUBSET Sample /\ ts \in Nat
              /\ values[k] \in Values /\ reported[k] \in SUBSET Nat /\ series[k].seen <= ts
            BY <2>2, <2>3, <2>5
        <3>4. \A t \in reported[k] \cup {ts} :
                \E s \in SamplesAfter(samples[k], series[k], ts, values[k]) :
                    s.ts <= t /\ (s.ts = t \/ t - s.ts < Heartbeat)
            BY <3>1, <3>2, <3>3, ReportsCovered
        <3> QED BY <2>3, <2>5, <3>4
    <2> HIDE DEF ts, values
    <2> QED BY <2>4, <2>5 DEF FlatLineHasHeartbeat
<1>2. ASSUME ~ \E p \in Plugins : Store(p)
      PROVE  UNCHANGED <<samples, reported>>
    BY <1>2 DEF Next, Tick, Crash, Horizon, Start, Collect, Fail, Reconcile, vars, store
<1>3. CASE UNCHANGED <<samples, reported>>
    BY <1>3 DEF FlatLineHasHeartbeat
<1> QED BY <1>1, <1>2, <1>3

\* Wherever a poll reported a key there is a sample less than a heartbeat older,
\* for every plugin, key, value and heartbeat, although store-on-change skips
\* unchanged values and a second poll of one second overwrites the first's row.
THEOREM FlatLineCovered == Spec => []FlatLineHasHeartbeat
<1>1. Init => FlatLineHasHeartbeat
    BY DEF Init, FlatLineHasHeartbeat
<1> QED BY InitStoreInv, StepStoreInv, StepCovered, <1>1, PTL DEF Spec

------------------------------------------------------------------------------
\* A chart shows the curve

\* Of the samples up to t one is the newest: the least far before t.
LEMMA NewestBefore ==
    ASSUME NEW rows \in SUBSET Sample, NEW t \in Nat, Before(rows, t) # {}
    PROVE  /\ NewestSample(Before(rows, t)) \in Before(rows, t)
           /\ \A r \in Before(rows, t) : r.ts <= NewestSample(Before(rows, t)).ts
<1> DEFINE ages == {t - s.ts : s \in Before(rows, t)}
<1>1. \A s \in Before(rows, t) : s.ts \in Nat /\ s.ts <= t
    BY DEF Before, Sample
<1>2. ages \in SUBSET Nat /\ ages # {}
    BY <1>1
<1>3. Min(ages) \in ages /\ \A y \in ages : Min(ages) <= y
    BY <1>2, LeastElement
<1>4. PICK s \in Before(rows, t) : Min(ages) = t - s.ts
    BY <1>3
<1>5. ASSUME NEW r \in Before(rows, t)
      PROVE  r.ts <= s.ts
    <2>1. t - s.ts <= t - r.ts
        BY <1>3, <1>4
    <2> QED BY <1>1, <2>1
<1> QED BY <1>4, <1>5 DEF NewestSample

\* The window's points and its anchor answer every question about the window as
\* all the samples do, as long as no second has two samples.
LEMMA HistoryAnswers ==
    ASSUME NEW rows \in SUBSET Sample, \A r, s \in rows : r.ts = s.ts => r = s,
           NEW start \in Nat, NEW end \in Nat, NEW t \in Nat, start <= t, t <= end
    PROVE  ValueAsOf(History(rows, start, end), t) = ValueAsOf(rows, t)
<1> DEFINE window == {s \in rows : s.ts > start /\ s.ts <= end}
           anchor == [ts |-> start, value |-> ValueAsOf(rows, start)]
           shown == History(rows, start, end)
           n == NewestSample(Before(rows, t))
<1>0. \A s \in rows : s.ts \in Nat
    BY DEF Sample
<1>1. Before(rows, start) \subseteq Before(rows, t)
    BY <1>0 DEF Before
<1>2. CASE Before(rows, t) = {}
    <2>1. shown = window
        BY <1>1, <1>2 DEF History
    <2>2. Before(shown, t) = {}
        BY <1>2, <2>1 DEF Before
    <2> QED BY <1>2, <2>2 DEF ValueAsOf
<1>3. ASSUME Before(rows, t) # {} PROVE ValueAsOf(shown, t) = n.value
    <2>1. n \in rows /\ n.ts <= t /\ \A r \in Before(rows, t) : r.ts <= n.ts
        BY <1>3, NewestBefore DEF Before
    <2> HIDE DEF n
    <2>2. CASE n.ts > start
        <3>1. n \in Before(shown, t)
            BY <1>0, <2>1, <2>2 DEF History, Before
        <3>2. ASSUME NEW s \in Before(shown, t)
              PROVE  s.ts \in Nat /\ s.ts <= n.ts /\ (s.ts = n.ts => s = n)
            <4>1. s \in window \/ s = anchor
                BY DEF Before, History
            <4>2. CASE s \in window
                <5>1. s \in Before(rows, t)
                    BY <4>2 DEF Before
                <5> QED BY <1>0, <2>1, <4>2, <5>1
            <4>3. CASE s = anchor
                BY <1>0, <2>1, <2>2, <4>3
            <4> QED BY <4>1, <4>2, <4>3
        <3>3. NewestSample(Before(shown, t)) = n
            <4>1. \A s \in Before(shown, t) : (\A r \in Before(shown, t) : r.ts <= s.ts) => s = n
                BY <3>1, <3>2
            <4> QED BY <3>1, <3>2, <4>1 DEF NewestSample
        <3> QED BY <3>1, <3>3 DEF ValueAsOf
    <2>3. CASE ~(n.ts > start)
        <3>1. Before(rows, t) = Before(rows, start)
            <4>1. \A s \in Before(rows, t) : s \in rows /\ s.ts <= start
                BY <1>0, <2>1, <2>3 DEF Before
            <4> QED BY <1>1, <4>1 DEF Before
        <3>2. anchor.value = n.value
            BY <1>3, <3>1 DEF ValueAsOf, n
        <3>3. shown = window \cup {anchor}
            BY <1>3, <3>1 DEF History
        <3>4. \A s \in window : ~(s.ts <= t)
            <4>1. \A s \in window : s \notin Before(rows, start)
                BY <1>0 DEF Before
            <4> QED BY <3>1, <4>1 DEF Before
        <3>5. Before(shown, t) = {anchor}
            BY <3>3, <3>4 DEF Before
        <3>6. NewestSample({anchor}) = anchor
            BY DEF NewestSample
        <3> HIDE DEF anchor
        <3> QED BY <3>2, <3>5, <3>6 DEF ValueAsOf
    <2> QED BY <2>2, <2>3
<1> QED BY <1>2, <1>3 DEF ValueAsOf

\* A chart's window shows at each of its seconds what value_as_of() answered
\* there, for every plugin, key, value and heartbeat and every window: a window
\* that starts between two samples is anchored at the value it starts with.
THEOREM ChartsShowTheCurve == Spec => []HistoryShowsTheCurve
<1>1. StoreInv => HistoryShowsTheCurve
    <2> SUFFICES ASSUME StoreInv,
                        NEW k \in Keys, NEW start \in 0 .. clock, NEW end \in start .. clock,
                        NEW t \in start .. end
                 PROVE  ValueAsOf(History(samples[k], start, end), t) = ValueAsOf(samples[k], t)
        BY DEF HistoryShowsTheCurve
    <2>1. /\ samples[k] \in SUBSET Sample
          /\ \A r, s \in samples[k] : r.ts = s.ts => r = s
          /\ clock \in Nat
        BY DEF StoreInv, TypeOK, OneSamplePerSecond
    <2>2. start \in Nat /\ end \in Nat /\ t \in Nat /\ start <= t /\ t <= end
        BY <2>1
    <2> QED BY <2>1, <2>2, HistoryAnswers
<1> QED BY InitStoreInv, StepStoreInv, <1>1, PTL DEF Spec

------------------------------------------------------------------------------
\* Who may retire a series

LEMMA StepJustified ==
    ASSUME StoreInv, [Next]_vars,
           NEW k \in Keys, series[k].active, ~series'[k].active
    PROVE  \/ \E on, broken \in SUBSET Plugins :
                    Start(on, broken) /\ Owner[k] \notin on \cup broken
           \/ /\ k \in Patterns /\ pc[Owner[k]] = "stored" /\ reply[Owner[k]].clean
              /\ k \notin DOMAIN reply[Owner[k]].values
<1>1. series[k] \in Series /\ series' # series
    BY DEF StoreInv, TypeOK
<1>2. CASE \E on, broken \in SUBSET Plugins : Start(on, broken)
    BY <1>2 DEF Start, Kept
<1>3. ASSUME NEW p \in Plugins, Store(p) PROVE FALSE
    BY <1>3 DEF Store, RowAfter
<1>4. ASSUME NEW p \in Plugins, Reconcile(p)
      PROVE  /\ k \in Patterns /\ pc[Owner[k]] = "stored" /\ reply[Owner[k]].clean
             /\ k \notin DOMAIN reply[Owner[k]].values
    <2>1. k \in KeysOf(p) \cap Patterns
        BY <1>4 DEF Reconcile
    <2>2. Owner[k] = p
        BY <2>1 DEF KeysOf
    <2>3. series'[k] = [series[k] EXCEPT !.active = k \in DOMAIN reply[p].values]
        BY <1>4, <2>1 DEF Reconcile
    <2>4. k \notin DOMAIN reply[p].values
        BY <1>1, <2>3 DEF Series
    <2> QED BY <1>4, <2>1, <2>2, <2>4 DEF Reconcile, Clean
<1> QED BY <1>1, <1>2, <1>3, <1>4
        DEF Next, Tick, Crash, Horizon, Collect, Fail, vars, store

\* A series is deactivated only by a restart without its plugin or by a complete
\* and valid poll of its own plugin that did not return it, for every set of
\* plugins and keys: never by a failed poll or by another plugin's.
THEOREM OnlyJustifiedDeactivation == Spec => DeactivationJustified
<1>1. StoreInv /\ [Next]_vars =>
        [\A k \in Keys : series[k].active /\ ~series'[k].active =>
            \/ \E on, broken \in SUBSET Plugins :
                    Start(on, broken) /\ Owner[k] \notin on \cup broken
            \/ /\ k \in Patterns /\ pc[Owner[k]] = "stored" /\ reply[Owner[k]].clean
               /\ k \notin DOMAIN reply[Owner[k]].values]_vars
    BY StepJustified
<1> QED BY InitStoreInv, StepStoreInv, <1>1, PTL DEF Spec, DeactivationJustified

==============================================================================
