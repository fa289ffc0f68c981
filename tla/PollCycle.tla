------------------------------ MODULE PollCycle ------------------------------
(***************************************************************************)
(* The polling loop of numbers-go-up: APScheduler's timer, the worker pool *)
(* and one poll thread per plugin (scheduler.py), the plugin_runs rows     *)
(* they write (RunTable), the daily maintenance that prunes those rows,    *)
(* and the process that serves, stops, is killed and restarts (main.py).   *)
(*                                                                         *)
(* A poll is several steps - the row is inserted, collect() talks to the   *)
(* source, samples are stored, the row is finished, the next run is        *)
(* rescheduled, the hooks run - and a crash, a stop, another plugin's      *)
(* poll or a prune may come between any two.  What the samples are is the  *)
(* business of module SeriesStore; here storing them succeeds or raises.   *)
(*                                                                         *)
(* Time is discrete.  The code's one-second and 24-hour scales are mapped  *)
(* to the constants; a poll takes at most MaxPoll, the timeout budget of   *)
(* its HTTP requests.                                                      *)
(***************************************************************************)
EXTENDS RunTable

CONSTANTS
    Interval,       \* Interval[p]: the plugin's poll interval
    Cap,            \* MAX_BACKOFF_SECONDS
    RetryAfters,    \* Retry-After values the source may send
    MaxJitter,      \* poll.jitter_fraction * interval, delay only
    StartDelays,    \* first-run delays, uniform(0, FIRST_RUN_MAX_DELAY_SECONDS)
    Retention,      \* plugin_runs_retention_days
    MaintFirst,     \* MAINTENANCE_FIRST_RUN_DELAY_SECONDS
    MaintEvery,     \* MAINTENANCE_INTERVAL_SECONDS
    Workers,        \* ThreadPoolExecutor(10)
    MaxPoll,        \* longest time one poll spends between its first and last write
    \* bounds of the model, not of the code
    MaxTime, MaxRuns, MaxCrashes, MaxStops, MaxStorageErrors

ASSUME IntervalAssumption == Interval \in [Plugins -> Nat \ {0}]
ASSUME CapAssumption == Cap \in Nat /\ RetryAfters \subseteq Nat
ASSUME DelayAssumption ==
    /\ MaxJitter \in Nat
    /\ StartDelays \subseteq Nat
    /\ MaintFirst \in Nat
    /\ MaintEvery \in Nat \ {0}
ASSUME RetentionAssumption == Retention \in Nat /\ MaxPoll \in Nat
ASSUME BoundAssumption ==
    /\ Workers \in Nat \ {0}
    /\ MaxTime \in Nat /\ MaxRuns \in Nat
    /\ MaxCrashes \in Nat /\ MaxStops \in Nat /\ MaxStorageErrors \in Nat

VARIABLES
    clock,      \* time.time()
    proc,       \* the process: "down", "recovered", "up", "stopping"
    runs,       \* the plugin_runs table
    nextId,     \* its AUTOINCREMENT
    due,        \* due[p]: the job's next_run_time
    pc,         \* pc[p]: where the plugin's poll is
    run,        \* run[p]: the run id the poll holds
    since,      \* since[p]: the poll's `now`
    result,     \* result[p]: what the poll is about to record
    backoff,    \* backoff_state
    maintDue,   \* the maintenance job's next_run_time
    maint,      \* the maintenance job: "idle", "queued", "running"
    lost,       \* history: ids whose finish_run raised, their rows unfinished
    crashes, stops, storageErrors   \* events used up, each under its bound

table == <<runs, nextId, lost>>
poll == <<pc, run, since, result>>
timer == <<due, backoff>>
maintenance == <<maintDue, maint>>
budget == <<crashes, stops, storageErrors>>
vars == <<clock, proc, table, poll, timer, maintenance, budget>>

------------------------------------------------------------------------------
\* Helpers

Idle == "idle"
\* From the job's submission to the executor until the worker returns.
Busy == {"collecting", "storing", "finishing", "settling", "failed", "hooks"}
\* Between start_run's insert and finish_run's update.
Open == {"collecting", "storing", "finishing"}

Results == [outcome : Outcomes, retryAfter : Nat \cup {None}]
NoResult == [outcome |-> "inProgress", retryAfter |-> None]

Serving == proc \in {"up", "stopping"}

\* Mutant: a job waiting in the executor's queue already takes a worker.
WorkerFreeCountingQueue ==
    Cardinality({p \in Plugins : pc[p] # "idle"})
        + (IF maint # "idle" THEN 1 ELSE 0) < Workers

WorkerFree ==
    Cardinality({p \in Plugins : pc[p] \in Busy})
        + (IF maint = "running" THEN 1 ELSE 0) < Workers

Least(a, b) == IF a < b THEN a ELSE b
Greatest(a, b) == IF a > b THEN a ELSE b

\* compute_backoff_delay_seconds
BackoffDelay(p, retryAfter, consecutive) ==
    IF retryAfter # None
    THEN Least(Greatest(retryAfter, Interval[p]), Cap)
    ELSE Least(Interval[p] * 2 ^ consecutive, Cap)

\* IntervalTrigger with coalesce=True: of the slots due at `at` or earlier the
\* last one is run, and the next comes one interval, plus jitter, after it.
NextSlots(slot, every, at) ==
    {t \in at + 1 .. at + every + MaxJitter :
        \E f \in {slot} \cup slot + every .. at :
            f <= at /\ t - f \in every .. every + MaxJitter}

\* Mutant: a restart gives every plugin the usual start-up spread.
InitialSlotsFresh(p, rows, at) == {[at |-> at + d, backoff |-> 0] : d \in StartDelays}

\* Mutant: a restart resumes the delay and starts the 429/403 streak over.
InitialSlotsUnseeded(p, rows, at) ==
    LET latest == LatestRuns(rows, p)
        trailing == TrailingBackoff(rows, p)
    IN  IF latest = {} THEN {[at |-> at, backoff |-> 0]}
        ELSE {[at |-> r.started + BackoffDelay(p, r.retryAfter, trailing), backoff |-> 0]
                : r \in latest}

\* _initial_next_run: when the first poll after a restart is due, and the
\* 429/403 streak the new process starts from.
InitialSlots(p, rows, at) ==
    LET trailing == TrailingBackoff(rows, p)
        Resumed(r) == [at |-> r.started + BackoffDelay(p, r.retryAfter, trailing),
                       backoff |-> trailing]
        Spread(from) == {[at |-> Greatest(at + d, from), backoff |-> 0] : d \in StartDelays}
        latest == LatestRuns(rows, p)
    IN  CASE latest = {}  -> Spread(at)
          [] trailing > 0 -> {Resumed(r) : r \in latest}
          [] OTHER        -> UNION {Spread(r.started + Interval[p]) : r \in latest}

TypeOK ==
    /\ clock \in Nat
    /\ proc \in {"down", "recovered", "up", "stopping"}
    /\ runs \subseteq Row
    /\ nextId \in Nat
    /\ lost \subseteq Nat
    /\ pc \in [Plugins -> Busy \cup {"idle", "queued"}]
    /\ run \in [Plugins -> Nat]
    /\ since \in [Plugins -> Nat]
    /\ result \in [Plugins -> Results]
    /\ due \in [Plugins -> Nat]
    /\ backoff \in [Plugins -> Nat]
    /\ maintDue \in Nat
    /\ maint \in {"idle", "queued", "running"}
    /\ crashes \in Nat /\ stops \in Nat /\ storageErrors \in Nat

------------------------------------------------------------------------------
\* A first start on an empty database.
Init ==
    /\ clock = 0 /\ proc = "down"
    /\ runs = {} /\ nextId = 1 /\ lost = {}
    /\ pc = [p \in Plugins |-> "idle"]
    /\ run = [p \in Plugins |-> 0]
    /\ since = [p \in Plugins |-> 0]
    /\ result = [p \in Plugins |-> NoResult]
    /\ due = [p \in Plugins |-> 0]
    /\ backoff = [p \in Plugins |-> 0]
    /\ maintDue = 0 /\ maint = "idle"
    /\ crashes = 0 /\ stops = 0 /\ storageErrors = 0

------------------------------------------------------------------------------
\* The clock and the process

\* HTTP timeouts bound a poll, so time does not run on past one in flight.
Tick ==
    /\ clock < MaxTime
    /\ \A p \in Plugins : pc[p] \in Open => clock < since[p] + MaxPoll
    /\ clock' = clock + 1
    /\ UNCHANGED <<proc, table, poll, timer, maintenance, budget>>

\* lifespan up to close_interrupted_runs.
Recover ==
    /\ proc = "down"
    /\ proc' = "recovered"
    /\ runs' = CloseInterrupted(runs, clock)
    /\ lost' = {}
    /\ UNCHANGED <<clock, nextId, poll, timer, maintenance, budget>>

\* lifespan, from build_scheduler to job_scheduler.start().
StartScheduler ==
    /\ proc = "recovered"
    /\ proc' = "up"
    /\ LET slots == UNION {InitialSlots(p, runs, clock) : p \in Plugins}
       IN \E slot \in [Plugins -> slots] :
            /\ \A p \in Plugins : slot[p] \in InitialSlots(p, runs, clock)
            /\ due' = [p \in Plugins |-> slot[p].at]
            /\ backoff' = [p \in Plugins |-> slot[p].backoff]
    /\ maintDue' = clock + MaintFirst
    /\ UNCHANGED <<clock, table, poll, maint, budget>>

\* What dies with the process: threads, queue, timer, streaks.
LoseMemory ==
    /\ proc' = "down"
    /\ pc' = [p \in Plugins |-> "idle"]
    /\ run' = [p \in Plugins |-> 0]
    /\ since' = [p \in Plugins |-> 0]
    /\ result' = [p \in Plugins |-> NoResult]
    /\ due' = [p \in Plugins |-> 0]
    /\ backoff' = [p \in Plugins |-> 0]
    /\ maintDue' = 0 /\ maint' = "idle"

\* The process is killed, at any step of any thread.
Crash ==
    /\ proc # "down" /\ crashes < MaxCrashes
    /\ crashes' = crashes + 1
    /\ LoseMemory
    /\ UNCHANGED <<clock, table, stops, storageErrors>>

\* Shutdown: the timer stops, the executor is not waited for, and the HTTP
\* client is closed under the polls still in flight.
Stop ==
    /\ proc = "up" /\ stops < MaxStops
    /\ stops' = stops + 1
    /\ proc' = "stopping"
    /\ UNCHANGED <<clock, table, poll, timer, maintenance, crashes, storageErrors>>

\* The interpreter leaves once the worker threads have drained the queue.
Exit ==
    /\ proc = "stopping"
    /\ \A p \in Plugins : pc[p] = "idle"
    /\ maint = "idle"
    /\ LoseMemory
    /\ UNCHANGED <<clock, table, budget>>

------------------------------------------------------------------------------
\* The timer

\* A due job goes to the executor; while its last run is still there it is
\* skipped (max_instances=1).  Either way it gets its next slot.
Fire(p) ==
    /\ proc = "up" /\ due[p] <= clock
    /\ nextId + Cardinality({q \in Plugins : pc[q] = "queued"}) <= MaxRuns
    /\ \E t \in NextSlots(due[p], Interval[p], clock) : due' = [due EXCEPT ![p] = t]
    /\ pc' = IF pc[p] = "idle" THEN [pc EXCEPT ![p] = "queued"] ELSE pc
    /\ UNCHANGED <<clock, proc, table, run, since, result, backoff, maintenance, budget>>

FireMaintenance ==
    /\ proc = "up" /\ maintDue <= clock
    /\ \E t \in NextSlots(maintDue, MaintEvery, clock) : maintDue' = t
    /\ maint' = IF maint = "idle" THEN "queued" ELSE maint
    /\ UNCHANGED <<clock, proc, table, poll, timer, budget>>

------------------------------------------------------------------------------
\* One poll: _run_scheduled_plugin around run_plugin_once

MayStorageFail ==
    /\ storageErrors < MaxStorageErrors
    /\ storageErrors' = storageErrors + 1

Goto(p, label) == pc' = [pc EXCEPT ![p] = label]

\* A worker takes the job: `now` is read and start_run inserts the row.
Begin(p) ==
    /\ Serving /\ pc[p] = "queued" /\ WorkerFree
    /\ runs' = runs \cup {StartRow(nextId, p, clock)}
    /\ nextId' = nextId + 1
    /\ run' = [run EXCEPT ![p] = nextId]
    /\ since' = [since EXCEPT ![p] = clock]
    /\ Goto(p, "collecting")
    /\ UNCHANGED <<clock, proc, lost, result, timer, maintenance, budget>>

\* start_run raises: there is no row, the generic handler takes over.
BeginFails(p) ==
    /\ Serving /\ pc[p] = "queued" /\ WorkerFree /\ MayStorageFail
    /\ Goto(p, "failed")
    /\ UNCHANGED <<clock, proc, table, run, since, result, timer, maintenance, crashes, stops>>

\* collect() returns a result, which is validated, stored and reconciled.
CollectReturns(p) ==
    /\ Serving /\ pc[p] = "collecting"
    /\ Goto(p, "storing")
    /\ UNCHANGED <<clock, proc, table, run, since, result, timer, maintenance, budget>>

\* collect() raises: a 429 with or without Retry-After or a 403, an ordinary
\* exception, or the exception of a client that shutdown has closed.
CollectRaises(p) ==
    /\ Serving /\ pc[p] = "collecting"
    /\ Goto(p, "finishing")
    /\ \/ \E ra \in RetryAfters \cup {None} :
            result' = [result EXCEPT ![p] = [outcome |-> "refused", retryAfter |-> ra]]
       \/ result' = [result EXCEPT ![p] = [outcome |-> "error", retryAfter |-> None]]
       \/ /\ proc = "stopping"
          /\ result' = [result EXCEPT ![p] = [outcome |-> "clientClosed", retryAfter |-> None]]
    /\ UNCHANGED <<clock, proc, table, run, since, timer, maintenance, budget>>

\* Everything between collect() and finish_run: the run is ok, or a contract
\* violation or an exception on the way makes it an error.
StoreAndReconcile(p) ==
    /\ Serving /\ pc[p] = "storing"
    /\ \E outcome \in {"ok", "error"} :
        result' = [result EXCEPT ![p] = [outcome |-> outcome, retryAfter |-> None]]
    /\ Goto(p, "finishing")
    /\ UNCHANGED <<clock, proc, table, run, since, timer, maintenance, budget>>

RowIsThere(p) == \E r \in runs : r.id = run[p]

\* finish_run, with the `now` the poll started with.
Finish(p) ==
    /\ Serving /\ pc[p] = "finishing" /\ RowIsThere(p)
    /\ runs' = FinishRow(runs, run[p], result[p].outcome, result[p].retryAfter, since[p])
    /\ Goto(p, "settling")
    /\ UNCHANGED <<clock, proc, nextId, lost, run, since, result, timer, maintenance, budget>>

\* finish_run raises - the row was pruned meanwhile, or the database failed -
\* and replaces whatever the poll was about to raise or return.
FinishFails(p) ==
    /\ Serving /\ pc[p] = "finishing"
    /\ \/ ~RowIsThere(p) /\ UNCHANGED storageErrors
       \/ MayStorageFail
    /\ lost' = lost \cup {run[p]}
    /\ Goto(p, "failed")
    /\ UNCHANGED <<clock, proc, runs, nextId, run, since, result, timer, maintenance, crashes, stops>>

\* Back in _run_scheduled_plugin: a refusal extends the streak and moves the
\* job, counted from now; anything else ends the streak.  Once the scheduler
\* has shut down modify_job raises, and the poll ends there.
Settle(p) ==
    /\ Serving /\ pc[p] = "settling"
    /\ IF result[p].outcome = "refused"
       THEN /\ backoff' = [backoff EXCEPT ![p] = @ + 1]
            /\ due' = IF proc = "up"
                      THEN [due EXCEPT ![p] =
                            clock + BackoffDelay(p, result[p].retryAfter, backoff'[p])]
                      ELSE due
            /\ Goto(p, IF proc = "up" THEN "hooks" ELSE "idle")
       ELSE /\ backoff' = [backoff EXCEPT ![p] = 0]
            /\ Goto(p, "hooks")
            /\ UNCHANGED due
    /\ UNCHANGED <<clock, proc, table, run, since, result, maintenance, budget>>

\* The generic handler: no backoff, whatever the source answered.
HandleEscaped(p) ==
    /\ Serving /\ pc[p] = "failed"
    /\ backoff' = [backoff EXCEPT ![p] = 0]
    /\ Goto(p, "hooks")
    /\ UNCHANGED <<clock, proc, table, run, since, result, due, maintenance, budget>>

\* _notify_publisher and _notify_milestones return, whatever they did; the
\* worker is free again.
HooksDone(p) ==
    /\ Serving /\ pc[p] = "hooks"
    /\ Goto(p, "idle")
    /\ run' = [run EXCEPT ![p] = 0]
    /\ since' = [since EXCEPT ![p] = 0]
    /\ result' = [result EXCEPT ![p] = NoResult]
    /\ UNCHANGED <<clock, proc, table, timer, maintenance, budget>>

------------------------------------------------------------------------------
\* _run_maintenance, on a worker of the same pool

MaintenancePrunes ==
    /\ Serving /\ maint = "queued" /\ WorkerFree
    /\ maint' = "running"
    /\ \/ runs' = Prune(runs, clock - Retention) /\ UNCHANGED storageErrors
       \/ MayStorageFail /\ UNCHANGED runs
    /\ UNCHANGED <<clock, proc, nextId, lost, poll, timer, maintDue,
                   crashes, stops>>

\* Backup, optimize, checkpoint and the record of the run.
MaintenanceDone ==
    /\ Serving /\ maint = "running"
    /\ maint' = "idle"
    /\ UNCHANGED <<clock, proc, table, poll, timer, maintDue, budget>>

------------------------------------------------------------------------------
\* The worker's own steps; the timer, the source and the operator do the rest.
Thread(p) ==
    \/ Begin(p) \/ BeginFails(p) \/ CollectReturns(p) \/ CollectRaises(p)
    \/ StoreAndReconcile(p) \/ Finish(p) \/ FinishFails(p)
    \/ Settle(p) \/ HandleEscaped(p) \/ HooksDone(p)

\* The model's clock stops at its bound; the system's does not.
Horizon == clock = MaxTime /\ UNCHANGED vars

Next ==
    \/ Tick \/ Recover \/ StartScheduler \/ Crash \/ Stop \/ Exit
    \/ FireMaintenance \/ MaintenancePrunes \/ MaintenanceDone
    \/ \E p \in Plugins : Fire(p) \/ Thread(p)
    \/ Horizon

Spec == Init /\ [][Next]_vars

\* Worker threads and the restart policy (restart: unless-stopped) keep going;
\* the executor's queue is first in, first out, so a queued job gets its turn.
Fairness ==
    /\ WF_vars(Recover) /\ WF_vars(StartScheduler)
    /\ SF_vars(MaintenancePrunes) /\ WF_vars(MaintenanceDone)
    /\ \A p \in Plugins : SF_vars(Thread(p))

FairSpec == Spec /\ Fairness

------------------------------------------------------------------------------
\* Properties

\* While the process lives, a row without an outcome belongs to a poll that is
\* still going to write it, or its finish_run raised: no crash, stop or restart
\* leaves a row behind that nobody will close (close_interrupted_runs).
UnfinishedRowsAccounted ==
    proc # "down" =>
        \A r \in Unfinished(runs) :
            r.id \in lost \/ (pc[r.plugin] \in Open /\ run[r.plugin] = r.id)

\* The row of a poll in flight is there for finish_run to write, whatever the
\* maintenance job deletes meanwhile ("Nothing here touches plugin polling").
InFlightRowKept ==
    \A p \in Plugins : pc[p] \in Open =>
        \E r \in runs : /\ r.id = run[p] /\ r.plugin = p
                        /\ r.finished = None /\ r.started = since[p]

\* No other run of the plugin started in the same second as the poll in flight.
StartsAlone(p) ==
    \A r \in runs : r.plugin = p /\ r.started = since[p] => r.id = run[p]

\* /api/plugins says "polling" while a poll is in flight and never otherwise,
\* across crashes, restarts and prunes: whichever row latest_run picks is then
\* unfinished, and is finished at any other time.  Two exceptions are known: a
\* row whose finish_run raised, and a poll in flight that shares its second with
\* an earlier run of the plugin, where latest_run may pick the earlier one.
PollingReported ==
    Serving =>
        \A p \in Plugins : (\A r \in runs : r.plugin = p => r.id \notin lost) =>
            /\ pc[p] \notin Open => \A r \in LatestRuns(runs, p) : r.finished # None
            /\ pc[p] \in Open /\ StartsAlone(p) =>
                   /\ LatestRuns(runs, p) # {}
                   /\ \A r \in LatestRuns(runs, p) : r.finished = None

\* Ids are never reused, so a missing one is that of a row that was pruned.
SomeRowPruned == \E i \in 1 .. nextId - 1 : \A r \in runs : r.id # i

\* The streak the scheduler backs off by is the one the table tells, between
\* polls and after any restart: trailing_backoff_count and backoff_state agree,
\* unless a prune took the older end of a streak that fills what is left.
StreakAgrees ==
    proc = "up" /\ storageErrors = 0 =>
        \A p \in Plugins : pc[p] \in {"idle", "queued", "hooks"} =>
            \/ backoff[p] = TrailingBackoff(runs, p)
            \/ /\ backoff[p] > TrailingBackoff(runs, p) /\ SomeRowPruned
               /\ \A r \in RealOf(runs, p) : r.outcome = "refused"

\* The row latest_run reads is well defined: no two started in the same second.
DistinctStarts(p) ==
    \A r, s \in runs : r.plugin = p /\ s.plugin = p /\ r.started = s.started => r = s

\* No poll starts inside the backoff of the newest refusal on record, however
\* often the process restarted, the timer was late, or a poll was interrupted.
\* (A failed storage call makes the scheduler forget the streak: HandleEscaped.)
RefusalHonoured ==
    [][storageErrors = 0 => \A p \in Plugins : pc[p] = "queued" /\ pc'[p] = "collecting" /\ DistinctStarts(p) =>
        \A r \in LatestFinished(runs, p) : r.outcome = "refused" =>
            clock >= r.started + BackoffDelay(p, r.retryAfter, TrailingBackoff(runs, p))]_vars

\* A restart changes no plugin's health: closing the orphaned rows leaves the
\* failure streak, the refusal streak and the last real outcome as they were.
RestartKeepsHealth ==
    [][proc = "down" /\ proc' = "recovered" =>
        \A p \in Plugins :
            /\ ConsecutiveFailures(runs', p) = ConsecutiveFailures(runs, p)
            /\ TrailingBackoff(runs', p) = TrailingBackoff(runs, p)
            /\ LatestFinished(runs', p) = LatestFinished(runs, p)]_vars

\* The start that a restart counts a plugin's next poll from (latest_run, read
\* by _initial_next_run) never goes back: what a prune takes is older than a run
\* that stays, also when the newest one was interrupted, so no plugin is polled
\* inside its interval or its Retry-After because its history expired.  (A row
\* whose finish_run raised is never finished, and may go.)
NewestRunKept ==
    [][\A r \in runs : r.id \notin lost =>
        \E s \in runs' : s.plugin = r.plugin /\ s.started >= r.started]_vars

\* Every started run gets an outcome: from its thread, or from the restart that
\* follows the crash that took the thread; only a raising finish_run leaves one.
EveryRunCloses ==
    \A i \in 1 .. MaxRuns :
        (\E r \in Unfinished(runs) : r.id = i) ~>
            (i \in lost \/ ~ \E r \in Unfinished(runs) : r.id = i)

\* A job the timer handed to the pool is run, however busy the pool is, unless
\* the process dies first.
QueuedPollStarts == \A p \in Plugins : pc[p] = "queued" ~> pc[p] # "queued"

------------------------------------------------------------------------------
\* What the documentation says and the code does not do

\* "... so a plugin disabled for longer than the retention window still reports
\* its last status via latest_finished_run" (prune_plugin_runs): once a plugin
\* has a reportable status it keeps one.
LastStatusKept ==
    [][\A p \in Plugins :
        LatestFinished(runs, p) # {} => LatestFinished(runs', p) # {}]_vars

\* "... means a restart never shows up as a plugin failure"
\* (close_interrupted_runs): no failure streak contains a poll that failed only
\* because the process was shutting down.
ShutdownIsNotAFailure ==
    \A p \in Plugins : \A r \in FailureStreak(runs, p) : r.outcome # "clientClosed"

==============================================================================
