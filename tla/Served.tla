------------------------------- MODULE Served -------------------------------
(***************************************************************************)
(* What the server answers the pages: the overview and the history of one  *)
(* metric (dashboard.py, api.py, storage.py), computed from samples and    *)
(* polls that the constants script.  A query sees what is stored up to the *)
(* second it runs in; build_overview makes several, and polls write in     *)
(* between.  How samples come to be stored is SeriesStore's subject.       *)
(***************************************************************************)
EXTENDS Charts

CONSTANTS
    Nothing,        \* null or undefined: no key, no answer, nothing drawn
    Catalogue,      \* the metric keys in the order of the catalogue
    PluginOf,       \* the plugin of each key
    Patterned,      \* the keys that come from a pattern
    Cumulative,     \* the keys of kind "cumulative"
    Configured,     \* dashboard.pinned of config.yaml, its first MAX_PINNED
    Samples,        \* the stored samples of each key, oldest first
    RetiredAt,      \* from when on a key is inactive
    Polls,          \* each plugin's finished polls: when, and "ok", "error"
                    \* or "blocked"; oldest first
    StaleAfter,     \* three poll intervals
    Span,           \* the length of each range, or Everything
    Everything,     \* the span of the range ALL
    BucketOf,       \* the width of a change bar in each range
    MaxSpark,       \* MAX_SPARK_POINTS
    Windows,        \* _RECENT_CHANGES_WINDOWS_SECONDS, the widest last
    RecentLimit,    \* RECENT_CHANGES_LIMIT
    DefaultPinned   \* DEFAULT_PINNED_COUNT

Keys    == ToSet(Catalogue)
Plugins == {PluginOf[k] : k \in Keys}
Ranges  == DOMAIN Span

Outcomes == {"ok", "error", "blocked"}

ASSUME ScriptAssumption ==
    /\ Catalogue \in Seq(Keys) /\ Configured \in Seq(ToSet(Configured))
    /\ StaleAfter \in Nat /\ DefaultPinned \in Nat
    /\ Windows \in Seq(Nat) /\ RecentLimit \in Nat
    /\ \A r \in Ranges :
          (Span[r] = Everything \/ Span[r] \in Nat) /\ BucketOf[r] \in Nat \ {0}
    /\ \A k \in Keys :
          /\ Samples[k] \in Seq([ts : Nat, value : Int]) \ {<<>>}
          /\ \A i, j \in DOMAIN Samples[k] : i < j => Samples[k][i].ts < Samples[k][j].ts
    /\ \A p \in Plugins : Polls[p] \in Seq([ts : Nat, outcome : Outcomes])

-----------------------------------------------------------------------------
\* The elements of a sequence at some of its indexes, in their order.
Kept(s, indexes) ==
    [n \in 1..Cardinality(indexes) |->
        s[CHOOSE i \in indexes : Cardinality({j \in indexes : j <= i}) = n]]

\* SelectSeq, without its recursion.
Filter(s, Test(_)) == Kept(s, {i \in DOMAIN s : Test(s[i])})

-----------------------------------------------------------------------------
\* The samples of a key after one time and up to another.
Between(k, after, until) ==
    Filter(Samples[k], LAMBDA s : s.ts > after /\ s.ts <= until)

Stored(k, now)    == Between(k, -1, now)
RangeStart(r, now, earliest) ==
    IF Span[r] = Everything THEN earliest ELSE now - Span[r]

\* storage.history: the value carried into the window, then its samples.
History(k, start, now) ==
    LET before == Filter(Samples[k], LAMBDA s : s.ts <= start)
    IN (IF before = <<>> THEN <<>>
        ELSE <<[ts |-> start, value |-> Last(before).value]>>)
       \o Between(k, start, now)

\* api.stats_history: the points, and their net change per bucket.
PointsServed(k, r, now) == History(k, RangeStart(r, now, 0), now)

BucketChanges(points, width) ==
    LET Index(p) == (p.ts - points[1].ts) \div width
        \* the last point of each bucket
        ends == Filter(points, LAMBDA p :
                    \A q \in ToSet(points) : Index(q) = Index(p) => q.ts <= p.ts)
        Before(i) == IF i = 1 THEN points[1].value ELSE ends[i - 1].value
    IN IF Len(points) < 2 THEN <<>>
       ELSE [i \in DOMAIN ends |->
                [ts     |-> points[1].ts + Index(ends[i]) * width,
                 change |-> ends[i].value - Before(i)]]

BarsServed(k, r, now) == BucketChanges(PointsServed(k, r, now), BucketOf[r])

-----------------------------------------------------------------------------
Active(now) ==
    Filter(Catalogue, LAMBDA k : Stored(k, now) # <<>> /\ now < RetiredAt[k])

\* storage.last_ok_runs: the last good poll there is a row of at a second.
IsOk(run) == run.outcome = "ok"

LastOk(p, read) ==
    LET ok == Filter(Polls[p], LAMBDA run : run.ts <= read /\ IsOk(run))
    IN IF ok = <<>> THEN Healthy ELSE Last(ok).ts

IsStale(p, now, read) ==
    LastOk(p, read) = Healthy \/ now - LastOk(p, read) > StaleAfter

\* What both pages take as staleSinceTs.  It is null not only for a fresh
\* series: a stale one without any good poll, because there was none or its
\* row is pruned, has no stale_since, and is drawn like a fresh one.
StaleSince(k, now, read) ==
    IF IsStale(PluginOf[k], now, read) THEN LastOk(PluginOf[k], read) ELSE Healthy

\* _bucket_spark: the last point of each bucket, the ends put right.
BucketSpark(points, start, end, open, value) ==
    LET width == Max({Max({end - start, 1}) \div MaxSpark, 1})
        Index(p) == Min({(p.ts - start) \div width, MaxSpark - 1})
        ends == Filter(points, LAMBDA p :
                    \A q \in ToSet(points) : Index(q) = Index(p) => q.ts <= p.ts)
    IN IF points = <<>>
         THEN <<[ts |-> start, value |-> open], [ts |-> end, value |-> value]>>
         ELSE [[ends EXCEPT ![1].value = open] EXCEPT ![Len(ends)].value = value]

\* _build_metric, of a series that was active when the rows were read: the
\* value is the row's, the points are those up to "now", which the request
\* fixed before it read the rows, and the last good poll is read last.
Metric(k, r, now, rows, polls) ==
    LET first  == Samples[k][1]
        start  == RangeStart(r, now, first.ts)
        points == IF start < first.ts
                    THEN <<first>> \o Between(k, first.ts, now)
                    ELSE History(k, start, now)
        value  == Last(Stored(k, rows)).value
        open   == points[1].value
        change == value - open
    IN [key     |-> k,
        plugin  |-> PluginOf[k],
        pattern |-> k \in Patterned,
        stale   |-> IsStale(PluginOf[k], now, polls),
        since   |-> StaleSince(k, now, polls),
        value   |-> value,
        open    |-> open,
        change  |-> change,
        percent |-> IF open = 0 THEN Nothing ELSE Rounded(100 * change, open),
        updated |-> Last(Stored(k, rows)).ts,
        spark   |-> BucketSpark(points, start, now, open, value)]

\* _resolve_pinned: the configured keys that exist, else the first cumulative
\* ones.
Pinned(now) ==
    LET known == Filter(Configured, LAMBDA k : Contains(Active(now), k))
        counts == Filter(Active(now), LAMBDA k : k \in Cumulative)
    IN IF known # <<>> THEN known
       ELSE SubSeq(counts, 1, Min({Len(counts), DefaultPinned}))

\* build_overview: the metrics in the order of the catalogue.
MetricsServed(r, now, rows, polls) ==
    LET active == Active(rows)
    IN [i \in DOMAIN active |-> Metric(active[i], r, now, rows, polls)]

-----------------------------------------------------------------------------
\* The changes from one sample to the next, heartbeats left out.
Changes(k, samples) ==
    {c \in {[key |-> k, ts |-> samples[i].ts,
             change |-> samples[i].value - samples[i - 1].value] :
                i \in 2..Len(samples)} : c.change # 0}

\* _RECENT_CHANGES_SELECT: of each active series the samples of a window, along
\* with the newest one before it to compare the first with.
Anchor(k, since, read) ==
    LET before == Filter(Stored(k, read), LAMBDA s : s.ts <= since)
    IN IF before = <<>> THEN since ELSE Last(before).ts

InWindow(k, since, read) ==
    Filter(Stored(k, read), LAMBDA s : s.ts >= Anchor(k, since, read))

ChangesSince(since, read) ==
    UNION {Changes(k, InWindow(k, since, read)) : k \in ToSet(Active(read))}

\* ORDER BY ts DESC: those of one second come in any order.
NewestFirst(changes) ==
    CHOOSE list \in [1..Cardinality(changes) -> changes] :
        /\ IsInjective(list)
        /\ \A i, j \in DOMAIN list : i < j => list[i].ts >= list[j].ts

RecentSelect(since, read) ==
    LET newest == NewestFirst(ChangesSince(since, read))
    IN SubSeq(newest, 1, Min({RecentLimit, Len(newest)}))

\* storage.recent_changes: the first window that finds enough, else everything.
\* The windows end where the table does, not at the request's "now".  (Its
\* queries run in one second here; the one that is returned has a single one.)
RecentChanges(now, read) ==
    LET enough == {i \in DOMAIN Windows :
                      Len(RecentSelect(now - Windows[i], read)) >= RecentLimit}
    IN RecentSelect(IF enough = {} THEN -1 ELSE now - Windows[Min(enough)], read)
=============================================================================
