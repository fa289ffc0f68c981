# A TLA+ model of numbers-go-up

numbers-go-up polls public counters (downloads, followers, stars) on a timer,
keeps every change in SQLite, serves the history, posts a webhook when a
counter passes a milestone, and mirrors the current values to Home Assistant
over MQTT. Two web pages show the counters, served live or exported as a static
demo. This directory holds TLA+ modules of the parts that keep state, the
TLC configurations that model-check them on small instances, and theorems about
them that TLAPS checks for every instance.

    tlc -workers 2 -config MCPollRestart.cfg MCPollCycle.tla     # any run
    tlapm SeriesStore_proofs.tla                                 # any *_proofs

`PROJECT.json` lists the runs, the source lines behind every definition, the
mutants that show each property can fail, the hazards the properties are for
and the disagreements between documentation and code that were found.

## 1. Inventory

One process (one uvicorn worker) runs the web routes, an APScheduler timer with
a pool of ten worker threads, and paho's network thread. All of them open
short-lived SQLite connections on one database; what survives a restart is in
its tables. `main.py`'s lifespan wires them together. The pages' scripts run in a
browser tab and know the service only through its answers.

| Part | State | Operations | Called by |
|---|---|---|---|
| Run table (`storage.py`) | `plugin_runs` | start_run, finish_run, close_interrupted_runs, prune_plugin_runs; latest_run, latest_finished_run, consecutive_failures, trailing_backoff_count | scheduler, lifespan, API |
| Scheduler (`scheduler.py`) | job times, `backoff_state`, failure streaks for the log | one poll job per plugin, the maintenance job, `_initial_next_run` | APScheduler, lifespan |
| Sample store (`storage.py`, `run_plugin_once`) | `metric_series`, `samples` | store_poll, set_series_active_bulk, retire_series_not_in; latest, value_as_of, history, range statistics | poll threads, lifespan, API |
| Milestones (`milestones.py`) | rows of `state`: a marker and at most one pending notification per key | on_poll_finished, status | poll threads, API |
| MQTT (`mqtt.py`) | connection flag, object-id owners, fingerprints, known keys; retained messages at the broker | on_poll_finished, on_connect, on_disconnect, on_message, start, stop | poll threads, network thread, lifespan |
| Discovery (`plugins/__init__.py`) | none after startup | discover_with_failures, resolve_metric | lifespan, poll threads |
| Migrations, backups (`migrate.py`, `storage.py`) | schema version, backup files | run_migrations, backup_database | lifespan, maintenance |
| Queries, API (`queries.py`, `api.py`) | none | plugin_statuses, summarize, history bucketing | web threads |
| HTTP wrapper (`http.py`) | the shared client | classification into RateLimited, Blocked | plugins, milestones |
| Overview page (`dashboard.js`) | the overview shown, request number, range, selection (`?m=`), folds, focus, requests in flight | answers to overview and history requests, the minute's refresh, visibility, range, selection, fold and theme acts | browser events |
| Detail page (`detail.js`) | figures as the server rendered them, chart and change pill | an answer to a history request, the theme toggle | browser events |
| Both pages (`common.js`, `chart.js`, `base.html`) | theme, `localStorage` | page loads and links, formatting, drawing chart, bars and sparklines | both scripts |
| Static demo (`scripts/demo`) | none: exported files | mapping requests and links to files, refusing the refresh timer | the pages' `fetch` and links |
| Config, netfs, plugins' `collect` | none of the service's | parsing, scraping | startup, poll threads |

How they interact: the timer hands a plugin's job to the pool; the worker
inserts a run row, calls `collect`, stores and reconciles the samples, finishes
the row, adjusts the backoff, and calls the MQTT hook and then the milestone
hook. The maintenance job runs on the same pool. The network thread reads the
catalogue the workers write. A start closes orphaned rows, retires the series
of plugins that are gone and rebuilds the timer from the rows. A page asks for an overview, rebuilds itself
from each one that arrives, and asks for the history of the selected metric; a
page load keeps only the URL and `localStorage`.

What is hard:

* a poll is many steps, and a kill, a stop, a prune or another thread may come
  between any two;
* state that decides the next step (the backoff streak, MQTT's bookkeeping) is
  in memory and rebuilt, or not, from rows;
* the same fact is stored twice: `last_value` and the newest sample, marker and
  pending slot, fingerprints and the broker's retained messages;
* a webhook answer, a broker connection and a database call may each fail after
  or before they had their effect;
* a page has several requests in flight, answered late, in any order or never,
  and every refresh rebuilds the page under the user's hands;
* figures that stand side by side (row, sparkline, chart, bars, list of changes)
  are computed by different code, partly on the server and partly in the browser.

What makes each part correct:

* **Runs**: every run gets an outcome, "polling" is shown while a poll runs and
  not otherwise (but for ties, section 3), a restart changes no plugin's health, no
  source is asked again inside the backoff it caused, and expiring history brings no
  poll forward.
* **Samples**: readers see one value per second as if every poll had been stored;
  the catalogue agrees with the samples; only a full, clean poll or an operator
  retires a series.
* **Milestones**: a threshold fires once and only upwards; a queued notification
  is delivered, aged out or replaced, never lost and never stuck.
* **MQTT**: no entity changes hands; what Home Assistant shows ends up following
  the catalogue.
* **Pages**: what the user chose stays chosen across refreshes and reloads; only
  the last history asked for is drawn; the chart of a stale series whose last good
  poll is known ends in a dashed tail; a refresh leaves the focus where it was;
  figures computed apart agree; the overview ends up showing one moment,
  range and selection.
* **Demo**: every request of the pages and every link between them leads to a file
  that was exported.

## 2. Modules

| Module | Models | Notes |
|---|---|---|
| `RunTable` | `plugin_runs` and its queries | operators on sets of rows; EXTENDed by PollCycle |
| `PollCycle` | timer, pool, poll threads, maintenance, process | one action per step of a poll |
| `RetryAfterHistory` | PollCycle with a history variable | the moment a Retry-After was heard, which the code does not keep |
| `ValueCurve` | what the store promises its readers | abstract: a value for every key at every second |
| `SeriesStore` | validation, store_poll, reconciliation, retirement | implements ValueCurve |
| `Milestones` | the evaluator of one plugin's keys | one action per storage transaction or POST |
| `MqttPublisher` | hook, snapshot, link, broker | one action per publication |
| `Charts` | what the scripts draw from numbers: stale tail, dash split, bars, sparklines, ages | pure functions |
| `Served` | what the server answers at each second: overview, history, bars, recent changes | pure functions of scripted samples and polls; EXTENDS Charts |
| `Tab` | what both pages keep: theme, `localStorage`, range, chart, history requests in flight | EXTENDS Served |
| `Overview` | the overview page's script | one action per event handler |
| `DetailPage` | one metric's page | one action per event handler |
| `DemoShim` | the demo's URLs, links and exported files | pure functions |
| `Browser` | the tab: both pages, the ways between them, the demo | composes Overview, DetailPage and DemoShim |
| `MC*` | small instances for TLC | definitions for constants only |
| `NumberLemmas` | lemmas on the least, the greatest and the ranks of a set of numbers | used by the proofs |
| `*_proofs` | theorems about PollCycle, SeriesStore, Milestones, MqttPublisher, Charts and Browser; `Backoff_proofs` is the second part of PollCycle's | TLAPS |

**PollCycle.** `pc[p]` is the line a plugin's worker has reached: `queued` in
the executor, `collecting` after `start_run`, `storing` after `collect`
returned, `finishing` before `finish_run`, `settling` in
`_run_scheduled_plugin`, `failed` in its generic handler, `hooks`. `due` and
`backoff` are the timer's and the scheduler's memory and vanish in `Crash` and
`Exit`; `runs` stays. `LatestRuns` is every row that `latest_run` may pick, more than one
when starts share a second. Start-up is two steps (`Recover`, `StartScheduler`), so
that a kill may fall between them. A refusal (429, 403) carries the Retry-After
that the code stores in, and parses back from, the row's error text. `Stop`
models the shutdown that does not wait: polls go on with a closed client, the
timer no longer fires, `modify_job` raises.

**SeriesStore.** `since[p]` is the `now` a poll started with and all its samples
carry; other polls, restarts and the clock come between it and the write.
`store_poll` is one transaction and one step. `reported` is a history of the
timestamps at which each key was stored, changed or not; the refinement maps
`curve[k][t]` to `value_as_of(k, t)`, `latest[k]` to the catalogue's `last_value`, and `settled[k]`
to the last of those timestamps.

**Milestones.** Marker and slot are the two `state` rows of a key. `Queue`
writes both in one transaction before the POST starts; `Answer` decides what
happened at the webhook and what the evaluator heard of it, which need not
agree; `Settle` is the second transaction. `fate`, `copies` and `tries` are
history: what became of each notification, how often the webhook got it, how
often this poll tried it.

**MqttPublisher.** The hook and the snapshot hold one lock while they publish,
so each is one step; the rows a snapshot publishes are read in a step of its
own, before the lock. `link` is what the broker hears, `connected` is what the
publisher believes; a link that drops during a publication lets any subset of
its messages through. `config` and `state` are the broker's retained messages,
which a broker restart may lose. Messages are sent with qos 1, so paho keeps what
is not acknowledged (`unacked`) and after a reconnect sends it again (`resend`, `Resend`),
behind the first messages of the snapshot that `on_connect` publishes and before,
between or after the others. Of the messages kept for one topic only the last is
modelled: paho sends in order, so it is the one that counts. `behind` is history: the
topics whose last message at the broker was an old one, sent again. A message is lost
for good only with the process.

**Browser.** A request in flight is a record of what was asked and when; the
answer holds what the server knew at some second between the request and its
arrival, and may arrive in any order or fail. `answer` is the overview the page
was built from; what is on the page follows from it (`Built`), except for the folds, the
focus, the highlight, the chart and the range in its links, which are variables
because the code keeps them apart. `asked` is the last history requested
(`chartRequestId`, `chartedKey`); request numbers only have to differ from those in flight, so
they are reused (`FreshId`). `drawn` is the chart: its key, its range, the overview
whose figures were passed along, and the seconds of the answer and of the drawing.
`OverviewArrives` is the whole of `render`, with the fetch of the chart at its
end. An overview is not of one moment: `at` is the server's "now", `rows` the second in
which the catalogue was read, `polls` that of the last good polls, and the recent
changes are read at any second after that; polls may write in between. The focus across a rebuild is
modelled as the code does it: `FocusedSelector` describes the element by class and data
attribute, `QuerySelector` takes the first element of the new page that fits. `wanted` is history: the folds and the theme the user chose last. Leaving a page
empties everything but the clock, `localStorage` and the URL. `demo` switches the
tab to the static export: the server's clock stops at `ExportTime`, one detail page
per metric exists, and the refresh timer is refused.

`Served` computes the answers from samples and polls given as constants, so that
retiring, failing and recovering happen at known seconds. When a plugin counts as
polling is PollCycle's subject. Keys are restricted to `[a-z0-9_.-]` by discovery, so that
URL encoding changes none of them, and the models leave it out. Where the library defines
an operator by recursion that a proof cannot open, `Served`, `Charts` and `Browser` say
the same in closed form: `Filter` (SelectSeq; `MCBrowser` has TLC compare the two),
`NewestFirst` (a list in the order of its times, ties in any order, as
`ORDER BY ts DESC` promises no more), `Sparkline` by position, `Total`.

## 3. Runs

Time units are abstract: the code's seconds, intervals and days are scaled to a
few units in the same order. Every bound has a constant named Max... .

| Run | Shows | Bounds, and why they are enough |
|---|---|---|
| `poll_restart` | UnfinishedRowsAccounted, PollingReported, StreakAgrees, RefusalHonoured, RestartKeepsHealth, NewestRunKept | one plugin (rows of different plugins meet only in the pool), three runs: a streak of two refusals and the poll after it; a crash, a stop and a failing storage call at any step; six units, past the longest backoff of four; a prune at the last of them, with a retention of four, takes the older end of a streak, or all but an interrupted run |
| `poll_pool` | TypeOK, InFlightRowKept, QueuedPollStarts | two plugins and maintenance on two workers, so that the queue fills and maintenance still runs beside a poll; the retention is as long as a poll, so that rows in flight are at the cutoff; a storage failure |
| `run_closes` | EveryRunCloses | one plugin, three runs; two crashes, so that one may hit the start after the other; a stop, a storage failure, and a prune |
| `series_store` | TypeOK, CatalogueMatchesSamples, FlatLineHasHeartbeat, HistoryShowsTheCurve, DeactivationJustified, ImplementsCurve | one exact and two pattern keys with a cap of one, so that the cap is exceeded; three polls over three seconds with a heartbeat of two: write, skip, heartbeat; a stop, a start without the plugin |
| `milestones` | TypeOK, MarkerCoversSlot, QueuedIsPending, RepeatsNeedFaults, FiresOnce, EachSlotTriedOnce, SlotIsFreed | two keys, one that passes two thresholds; rules that change at a restart; one fault at any step; a notification ages out after one unit |
| `mqtt` | TypeOK, BookkeepingAgrees, EntityNotStolen, Converges | two keys of two plugins that collide on one object id; two changes of the catalogue, one key with two values, so that an old state differs from a new one; two faults of any kind, each a dropped link (whole, or in the middle of a publication), a broker that forgets, a crash or an unreadable table: a message must be lost once to be sent again, and once more to be sent again twice; any number of polls |
| `browser` | TypeOK, UserChoicesKept, TailDrawn, FiguresAgree, DemoServes, ChartFollowsSelection, FocusKept, Settles | two metrics of one plugin, one of them from a pattern (so rows fold) and pinned, which is retired at the poll that ends a failing streak; one tick, before and after that poll, and reads of one overview on either side of it; windows of one and three seconds with two changes wanted, so that the second window finds enough before that poll and only the whole table after it; two ranges, one a button and one in the menu; two overview and two history requests in flight, enough for an old answer after a newer one; two acts of the user or failures in any order; live, and the demo with storage blocked |
| `last_status`, `shutdown`, `retry_after`, `mqtt_race`, `spark` | one documented claim each, refuted | see section 4 |

**Fairness.** Worker threads are never descheduled for ever, and the executor's
queue is first in, first out, so the steps of a worker are strongly fair: a
queued job whose turn never stays long enough still gets a free worker. A start
follows a crash (`restart: unless-stopped` in docker-compose.yml). A browser's
network answers each request or loses it (weakly fair), and the minute's timer
fires again and again (strongly fair, since it finds a free request only now and
then). The hooks
wait for nothing but an HTTP request with a timeout or a lock, and are weakly
fair. The clock is fair only where ageing out is the subject. Crashes, stops,
failures, refusals, the source's answers and what the user does are never fair; `SlotIsFreed` and
`Converges` assume in their own statement that polls keep succeeding, and
`Settles` that the tab stays visible on the overview. The `browser` run does not check
for deadlock: the clock and the acts are bounded, and a demo page with nothing in
flight really does stop.

**Exceptions the properties state.** StreakAgrees and RefusalHonoured hold
while no storage call failed: `finish_run` raising during a refusal resets the
streak (scheduler.py:610-626). StreakAgrees lets the streak in memory be longer than
the table's once a prune has taken rows, and then only if all that is left of the
plugin's real outcomes is refusals: the prune took the older end of the streak, and
the scheduler goes on counting. RefusalHonoured also assumes no two runs of a
plugin started in one second, because `latest_run` has no tie-break. PollingReported
excepts the same tie while a poll is in flight: SQLite may pick the earlier, finished
row, and the plugin then does not show as polling. It also excepts a plugin one of whose
`finish_run`s raised: that row shows as polling until the next restart.
InFlightRowKept, and with it PollingReported and NewestRunKept as theorems, need a retention
no shorter than a poll: `plugin_runs_retention_days: 0` is accepted, and then a
prune can delete the row a poll is about to finish.
Converges excepts a process whose last snapshot could not be read, since the code
republishes nothing until the next connect, and each topic whose last message was an old
one sent again, until something replaces it: the discovery of a series that was
retired while the link was down may be sent behind the snapshot that removed it, and stay
(section 4). TailDrawn asks for a dashed tail only where the last good poll is known: a
stale series without any, never polled well or its rows pruned, has no `stale_since`, and
dashboard.js:429-430 draws it solid and filled like a fresh one. Settles assumes that a history is
answered before the next one is asked for infinitely often: each refresh voids
the request before it, so a history that always takes longer than a refresh is
never drawn. It is about the live service: the demo does not refresh.
UserChoicesKept promises folds and theme only where `localStorage` works.

## 4. What documentation and code disagree on

Each has a run that TLC must refute.

* `last_status`: pruning keeps the newest *finished* row, interrupted ones
  included, but the reported status is that of the newest row that is not
  interrupted. A restart during a plugin's last poll makes its status expire.
* `shutdown`: a poll that fails because shutdown closed its client counts as a
  failure of the plugin, although interrupted polls are meant not to.
* `retry_after`: a restart counts a Retry-After from the start of the poll that
  heard it, so after a slow poll the next one comes too early.
* `mqtt_race`: a snapshot that read its rows before a poll retired a series
  announces the series again; the next hook or snapshot that notices clears it.
* `spark`: a sparkline whose samples all fall into one bucket is reduced to its
  last value, although `_bucket_spark` says it always starts at the opening value.

Smaller ones, seen while modelling, without a run:

* milestones.py's docstring says that a later crossing can never replace a pending
  delivery; a comment at the write says that it does, and why. The model
  replaces it (fate "displaced").
* detail.js:74-75 says a reload keeps the whole page consistent by construction; a later
  theme toggle asks for the history again and makes the chart newer than the
  figures the server rendered.
* dashboard.js:41 calls `chartedKey` the key currently drawn; after a failed request
  it is the key last asked for.
* mqtt.py:384-387 (`_publish`) says that nothing is queued while disconnected and that the
  snapshot on reconnect puts things right. What was published before the disconnect
  and not acknowledged is queued by paho (qos 1), and sent again behind that snapshot.
* An overview answer carries no request number, so an answer for an earlier range
  may be shown last; the live service heals at the next refresh, the demo does
  not. No document claims otherwise.

## 5. Proofs

Every theorem holds for all values of the constants that satisfy the modules'
ASSUMEs, which TLC evaluates in every run. The proofs follow one pattern: an
inductive invariant, a lemma `...Keeps` for each action, `StepIInv` over the
disjuncts of Next, and a temporal step at the end.

**SeriesStore_proofs**, for every set of plugins, keys, values and every
heartbeat, cap and bound:

* `TypeCorrect`: `Spec => []TypeOK`.
* `CatalogueCorrect`: `Spec => []CatalogueMatchesSamples`.
* `CurveImplemented`: `Spec => ImplementsCurve`, that is `Spec => Promise!Spec`:
  store-on-change is invisible to readers.

`CatalogueMatchesSamples` is not inductive: a poll that started long ago could
write a sample older than the newest one, and `last_seen` would point at the
wrong row. The strengthening `StoreInv` adds that times are in order
(`TimesOrdered`: a poll in progress started no earlier than anything stored
under its keys, and nothing is later than the clock), that a poll's reply has
only keys of its own plugin (`RepliesOwned`, from which a key's writes are
sequential, its plugin's polls being so) and that a key has one sample per
second (`OneSamplePerSecond`, which makes "the newest sample" a function). The
lemma `KeyStored` is the heart: it says what one key's write does to its row
and its samples, whether or not a sample is written.

The refinement rests on the same invariant. `CurveStored` shows that one key's
write sets `value_as_of` to the reported value from the poll's timestamp on and
leaves it alone before; `StoreReports` that a `Store` step is therefore one
`Report` of the abstract specification; `StepRefines` that every other step is
a stutter. `ReportsEnd` (a key that was ever reported has a last report) is the
one fact it needs besides `StoreInv`, to know that `settled` is well defined.

On the same invariant rest

* `FlatLineCovered`: `Spec => []FlatLineHasHeartbeat` (`ReportsCovered` is the case of one
  write: stored, skipped, or over a sample of the same second);
* `ChartsShowTheCurve`: `Spec => []HistoryShowsTheCurve`, for every window, which needs
  one sample per second and the value carried in at the window's start;
* `OnlyJustifiedDeactivation`: `Spec => DeactivationJustified`, one case per action.

It uses `KeyAssumption` (every key belongs to one plugin: the name
prefix that discovery enforces), `ValueAssumption` (NULL is no value),
`HeartbeatAssumption` and the bounds.

**PollCycle_proofs**, for any plugins, intervals, pool size, retention and number of
crashes, stops and storage failures:

* `RowsAccounted`: `Spec => []UnfinishedRowsAccounted`.
* `FlightRowKept`, `PollingShown` and `NewestRunStays`: InFlightRowKept, PollingReported
  and NewestRunKept, assuming `MaxPoll <= Retention`. For the first two it is needed (see
  section 3); the third uses it to know that a row in flight is not pruned.

`TableInv` adds to UnfinishedRowsAccounted that ids are unique and not of the future
(`RowsOrdered`: otherwise `finish_run` could close another poll's row) and that a
process that does not serve polls nothing (`Quiet`: otherwise
`close_interrupted_runs` could close a row that a worker still writes).
`Flying(p)` says of a poll in flight that its row exists, is its plugin's newest and is
no older than MaxPoll; a prune, whose cutoff is older, therefore misses it. NewestRunKept
follows: a row that a prune takes is finished or its `finish_run` raised, and of the
plugin's finished rows the newest, interrupted or not, stays.
`FinishRowFacts`, `CloseFacts` and `PruneFacts` say once what the statements do
to the table. Most steps of a poll touch no row, and share one lemma (`MoveKeeps`).

**Backoff_proofs**, for any plugins, intervals, Retry-After values, pool and number
of crashes and stops:

* `HealthKept`: `Spec => RestartKeepsHealth`; `TypeCorrect`: `Spec => []TypeOK`.
* `StreakCorrect`: `Spec => []StreakAgrees`, assuming `MaxPoll <= Retention`.
* `BackoffHonoured`: `Spec => RefusalHonoured`, assuming also `Cap <= Retention`.

Both hypotheses hold for a retention of a day or more, `Cap` being
MAX_BACKOFF_SECONDS, one day. Without the second a restart after a prune could miss
the refusal that the next poll should wait for.

`LeadInv` says that a poll in flight holds the highest id of its plugin, so that
`finish_run` makes its row the newest real outcome (`FinishAnswers`). `StreakInv` is
StreakAgrees with the one moment at which memory lags: between `finish_run` and
the handler, `settling`, the streak in memory is one behind. The number of rows in a
streak is a cardinality; a refusal adds exactly one element to the set, any other real
outcome empties it, a closed orphan and a row in flight are in no such set
(`CloseKeepsReal`). `HonourInv` is the inductive form of RefusalHonoured: as long as the
backoff of the newest refusal is not over, nothing of the plugin is under way and its job, if
the process is up, is due no earlier than the backoff ends. `PowerGrows` and
`DelayGrows` (a longer streak never has a shorter delay) are the arithmetic behind a
prune that shortens the streak; powers of two are counted as subsets.

**Milestones_proofs**, for any keys, values and rules, and any number of
crashes, lost answers and failed writes:

* `TypeCorrect`, `RowsAgree` (MarkerCoversSlot), `NothingLost` (QueuedIsPending),
  `RepeatsPaidFor` (RepeatsNeedFaults), `FiredOnce` (FiresOnce) and
  `SlotsTriedOnce` (EachSlotTriedOnce).

The invariant adds to the properties the phases of a poll (`Phases`: a POST is
about the record still in its key's slot, and the loops have passed that key) and that
only an accepted POST whose answer is still to be written may put the copies
of a notification above the number of faults (`CopiesPaidFor`). `TriedInv` counts the tries of the
poll in progress. `MilestoneValues` limits the values to a finite
set, so that the largest of them, which bounds the thresholds, exists.

**MqttPublisher_proofs**, for any plugins, keys and object ids, however they collide:

* `TypeCorrect`, `BookkeepingCorrect` (BookkeepingAgrees) and `EntitiesKept`
  (EntityNotStolen).

BookkeepingAgrees is inductive with the types; what the proof needs is
`BookkeepingAfter`, which says of one publication what it may do to owners,
fingerprints and known keys, for the hook and the snapshot alike.

**Browser_proofs**, for any catalogue, samples and polls, any ranges and any number
of requests in flight:

* `ChoicesKept`: `Spec => []UserChoicesKept`; `ChartIsOfSelection`:
  `Spec => ChartFollowsSelection`; `FocusStays`: `Spec => FocusKept`.
* `TypeCorrect`: `Spec => []TypeOK`; `DemoIsClosed`: `Spec => []DemoServes`;
  `StaleTailIsDrawn`: `Spec => []TailDrawn`; `AllFiguresAgree`: `Spec => []FiguresAgree`.

`LastAsked` is the strengthening: of the requests in flight on the overview, at
most one has the id of the last one asked, and it *is* the last one asked, so that comparing
numbers is enough. FocusKept rests on `SelectorIsUnique`: no other element of a page fits
the selector made from one, although a key may have a tile, a row and a mover. `Remembered` ties what `localStorage` holds to what the user
chose. For these first three theorems what the server computes stays closed: they
use only that rows, tiles and movers of an overview are among its metrics. They need
`TabAssumption` and `NothingAssumption` (null is no key, answer or request).

The other four open `Served`. `TypesInv` adds that what is drawn has points
(`DrawnInv`), that the requests in flight fit their bound (`RoomInv`) and that what is
marked or focused is of the page (`MarkInv`). `Moments` and `Linked` carry DemoServes: in the demo
every request and answer is of the moment of the export, and only keys that had a
sample then are shown or asked for; the export has a history of each of them for every
range. TailDrawn is the lemmas of Charts applied to the chart that is drawn.

FiguresAgree has four parts, each with its own argument:

* bars under the line (`BarsAgreeWithLine`): points are served in order and none is of
  the future (`ServedInOrder`), a bucket begins no earlier than the first point and no
  later than its own last one (`BarsAreWithin`), and the answer is no newer than the
  drawing (`DrawnInTime`, an invariant of its own);
* bars that add up (`BarsSumToLine`): the last point of a bucket is kept, the last point of
  all is one of these, and the differences telescope;
* the latest changes (`LatestOfAll`): a window shows exactly the changes after its
  beginning (`ChangesInWindow`: thanks to the anchor row none is missing, and none from
  before comes in), so all that a window leaves out is older than what it shows, and a
  window is only taken when it shows as many as are wanted;
* sparklines (`SparkRises`): a spark of two points or more begins with the opening value and
  ends with the present one (`SparkEnds`), whatever the seconds in which rows and points were
  read.

`KeptFacts` says what a filter keeps, by ranks; every function of `Served` that
filters is proved about through it.

**Charts_proofs**, about the functions themselves, for every series:
`LineIsWhole` (the solid and the dashed part of a stale line are together the whole
line and meet in one point), `StripSpansLine` (the strip of bars is drawn over
exactly the time the line spans, tail included), `BarsStandUnderLine` (each bar stands
where the line has its time, and inside the strip), `SparklineSteps` (a sparkline is made of
level and upright strokes from the first value to the last) and `AgeFitsUnit` (no age is
shown as 0 of a unit or as 60 s, 60 min or 24 h).

**Only model-checked**: liveness (EveryRunCloses, QueuedPollStarts, SlotIsFreed,
Converges, Settles), which the prover does not reach. Every invariant and every action
property of the passing runs is a theorem. What the recursive operators of the library
compute (SelectSeq and the like) is induction over data and stays with TLC.

## 6. Not modelled, and abstractions

* `collect` of each plugin, HTTP classification, error texts: inputs. A refusal
  keeps its prefix and its Retry-After through the row's error text.
* Clocks only move forward. Wall-clock steps are a listed hazard.
* SQLite transactions are atomic and serial; a locked database is a storage
  failure before any effect.
* MQTT: the availability topic, `stop`, attributes, and changes of label, unit or icon. A
  series that is stored has a value; keys are those that include and exclude select.
  Acknowledgements are read when the network thread is between callbacks.
* Milestones: a state row edited into something that is not JSON.
* What an overview is made of: all samples of a second are there from its beginning,
  the statistics of all metrics are read in the second of `now` (the points stop there
  anyway), and the windows of `recent_changes` are tried in one second. A detail page is
  rendered in one second.
* Pages: wording, sizes, colours beyond solid and dashed, the status line with its dots, the
  drawing of the list of latest changes (a change whose series is not among the rows is shown by
  its key, dashboard.js:385), the label that counts
  the seconds since the last refresh, and dates in the reader's time zone; the link to the
  API reference, which leads out of the demo to the documentation site; `MAX_PINNED`
  (the pins are given as already cut). `range_stats`, the queries behind the
  table of changes and the plugin's text on the detail page are rendered once by the server.
* The documentation site: `a11y.js` sets three attributes on load and on resize,
  `redoc.standalone.js` is a vendored library.
* Discovery, migrations, backups and the HTTP wrapper: see the plan. Of the plugin status
  queries only staleness and "polling" are modelled, of the API what the pages fetch.
* Configuration, netfs, scripts, benchmarks: no state that a model checker
  would explore.

## 7. Plan

1. Done: RunTable, PollCycle, SeriesStore with ValueCurve, Milestones,
   MqttPublisher, the pages and the demo (Charts to Browser), and their proofs.
2. Next modules: `Migrate` (statements, backups, rotation, crashes between
   them), `StatusReport` (plugin_statuses' reads interleaved with polls),
   `PluginLoader` (pattern overlap and key resolution with lemmas, failures that
   retirement depends on), the availability topic in MqttPublisher, HTTP
   classification and Retry-After parsing.
3. Composition: one module that runs a poll through SeriesStore, MqttPublisher
   and Milestones in the order of `_run_scheduled_plugin`, for the crash between
   store and hooks.
4. Proofs: the new modules' invariants; lemmas on pattern overlap; RetryAfterHistory as a
   refinement of PollCycle.
