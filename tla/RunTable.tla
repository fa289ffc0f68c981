------------------------------ MODULE RunTable ------------------------------
(***************************************************************************)
(* The plugin_runs table of storage.py: one row per poll, the statements   *)
(* that write it and the queries that read it, as operators on a set of    *)
(* rows.  Every reader of a plugin's health (/api/plugins, the dashboard,  *)
(* the scheduler's restart) goes through these queries.                    *)
(*                                                                         *)
(* A row's status and error text are abstracted to `outcome`: what the     *)
(* queries can tell apart is a success, an ordinary error, a refusal by    *)
(* the source (403, or 429 with or without a Retry-After), the in-progress *)
(* sentinel and the interrupted sentinel.  "clientClosed" is an ordinary   *)
(* error for every query; it names the error a poll dies of when shutdown  *)
(* closes the shared HTTP client under it.                                 *)
(***************************************************************************)
EXTENDS Integers, FiniteSets

CONSTANT Plugins

\* NULL in finished_at, and "no Retry-After header".
None == -1

Outcomes == {"inProgress", "ok", "error", "clientClosed", "refused", "interrupted"}

Row == [id : Nat, plugin : Plugins, started : Nat, finished : Nat \cup {None},
        outcome : Outcomes, retryAfter : Nat \cup {None}]

------------------------------------------------------------------------------
\* Statements

\* Mutant: a status the table's CHECK constraint does not know.
StartRowRunning(id, p, at) ==
    [id |-> id, plugin |-> p, started |-> at, finished |-> None,
     outcome |-> "running", retryAfter |-> None]

\* start_run: the row is born as an in-progress failure.
StartRow(id, p, at) ==
    [id |-> id, plugin |-> p, started |-> at, finished |-> None,
     outcome |-> "inProgress", retryAfter |-> None]

\* finish_run: overwrite the row's outcome; its caller knows the row exists.
FinishRow(rows, id, outcome, retryAfter, at) ==
    { IF r.id = id
      THEN [r EXCEPT !.finished = at, !.outcome = outcome, !.retryAfter = retryAfter]
      ELSE r : r \in rows }

Unfinished(rows) == {r \in rows : r.finished = None}

\* Mutant: a restart closes the orphaned rows as ordinary errors.
CloseAsErrors(rows, at) ==
    { IF r.finished = None THEN [r EXCEPT !.finished = at, !.outcome = "error"] ELSE r
      : r \in rows }

\* Mutant: a restart leaves the orphaned rows alone.
CloseNothing(rows, at) == rows

\* close_interrupted_runs: every row still in flight, of any plugin.
CloseInterrupted(rows, at) ==
    { IF r.finished = None THEN [r EXCEPT !.finished = at, !.outcome = "interrupted"] ELSE r
      : r \in rows }

------------------------------------------------------------------------------
\* Queries

\* ORDER BY started_at DESC, id DESC.
Newer(r, s) == r.started > s.started \/ (r.started = s.started /\ r.id > s.id)

Newest(rows) == {r \in rows : \A s \in rows \ {r} : Newer(r, s)}

FinishedOf(rows, p) == {r \in rows : r.plugin = p /\ r.finished # None}

\* The rows with a known, real outcome: finished and not interrupted.
RealOf(rows, p) == {r \in FinishedOf(rows, p) : r.outcome # "interrupted"}

\* latest_finished_run: at most one row.
LatestFinished(rows, p) == Newest(RealOf(rows, p))

\* The rows latest_run may return.  It returns one of them: the query orders by
\* started_at alone, so among runs of the same second the choice is SQLite's.
LatestRuns(rows, p) ==
    LET mine == {r \in rows : r.plugin = p}
    IN  {r \in mine : \A s \in mine : r.started >= s.started}

\* consecutive_failures: the real outcomes newer than every success.
FailureStreak(rows, p) ==
    {r \in RealOf(rows, p) :
        \A s \in RealOf(rows, p) : s.outcome = "ok" => Newer(r, s)}

ConsecutiveFailures(rows, p) == Cardinality(FailureStreak(rows, p))

\* trailing_backoff_count: the real outcomes newer than every non-refusal.
TrailingBackoff(rows, p) ==
    Cardinality({r \in RealOf(rows, p) :
        \A s \in RealOf(rows, p) : s.outcome # "refused" => Newer(r, s)})

------------------------------------------------------------------------------
\* Retention

\* Mutant: the row kept for a plugin is the one latest_finished_run would read.
PruneKeepsReal(rows, cutoff) ==
    {r \in rows : r.started >= cutoff \/ r \in LatestFinished(rows, r.plugin)}

\* Mutant: the boundary is inclusive.
PruneInclusive(rows, cutoff) ==
    {r \in rows : r.started > cutoff \/ r \in Newest(FinishedOf(rows, r.plugin))}

\* prune_plugin_runs: rows started before the cutoff go, except each plugin's
\* newest finished row.  An interrupted row counts as finished here.
Prune(rows, cutoff) ==
    {r \in rows : r.started >= cutoff \/ r \in Newest(FinishedOf(rows, r.plugin))}

==============================================================================
