--------------------------- MODULE Backoff_proofs ---------------------------
(***************************************************************************)
(* Proofs about PollCycle's streaks and delays, for any plugins, intervals *)
(* and number of crashes, stops and storage failures: the types, that a    *)
(* restart changes no plugin's health, that the streak in memory is the    *)
(* one the table tells, and that no poll starts inside a source's backoff. *)
(***************************************************************************)
EXTENDS PollCycle_proofs

USE IntervalAssumption, CapAssumption, DelayAssumption, RetentionAssumption, BoundAssumption

-----------------------------------------------------------------------------
\* Delays

\* Powers of two count the subsets of 1 .. n.
LEMMA PowerGrows ==
    ASSUME NEW m \in Nat, NEW n \in Nat, m <= n
    PROVE  2 ^ m \in Nat /\ 2 ^ n \in Nat /\ 2 ^ m <= 2 ^ n
<1>1. ASSUME NEW k \in Nat
      PROVE  IsFiniteSet(SUBSET (1 .. k)) /\ Cardinality(SUBSET (1 .. k)) = 2 ^ k
    <2>1. IsFiniteSet(1 .. k) /\ Cardinality(1 .. k) = k
        BY FS_Interval
    <2> QED BY <2>1, FS_SUBSET
<1>2. SUBSET (1 .. m) \in SUBSET (SUBSET (1 .. n))
    OBVIOUS
<1>3. /\ Cardinality(SUBSET (1 .. m)) \in Nat /\ Cardinality(SUBSET (1 .. n)) \in Nat
      /\ Cardinality(SUBSET (1 .. m)) <= Cardinality(SUBSET (1 .. n))
    BY <1>1, <1>2, FS_Subset, FS_CardinalityType
<1> QED BY <1>1, <1>3

\* compute_backoff_delay_seconds returns a delay up to the cap, and no shorter
\* one for a longer streak.
LEMMA DelayGrows ==
    ASSUME NEW p \in Plugins, NEW ra \in Nat \union {None},
           NEW m \in Nat, NEW n \in Nat, m <= n
    PROVE  /\ BackoffDelay(p, ra, m) \in Nat /\ BackoffDelay(p, ra, n) \in Nat
           /\ BackoffDelay(p, ra, m) <= BackoffDelay(p, ra, n)
           /\ BackoffDelay(p, ra, n) <= Cap
<1>1. Interval[p] \in Nat /\ Cap \in Nat
    OBVIOUS
<1>2. CASE ra # None
    BY <1>1, <1>2 DEF BackoffDelay, Least, Greatest
<1>3. CASE ra = None
    <2>1. PICK i \in Nat, x \in Nat, y \in Nat :
            i = Interval[p] /\ x = 2 ^ m /\ y = 2 ^ n /\ x <= y
        BY <1>1, PowerGrows
    <2>2. i * x \in Nat /\ i * y \in Nat /\ i * x <= i * y
        BY <2>1
    <2>3. BackoffDelay(p, ra, m) = Least(i * x, Cap) /\ BackoffDelay(p, ra, n) = Least(i * y, Cap)
        BY <1>3, <2>1 DEF BackoffDelay
    <2> QED BY <1>1, <2>2, <2>3 DEF Least
<1> QED BY <1>2, <1>3

LEMMA DelayType ==
    ASSUME NEW p \in Plugins, NEW ra \in Nat \union {None}, NEW n \in Nat
    PROVE  BackoffDelay(p, ra, n) \in Nat /\ BackoffDelay(p, ra, n) <= Cap
<1>1. n <= n
    OBVIOUS
<1> QED BY <1>1, DelayGrows

-----------------------------------------------------------------------------
\* Sets of rows

\* The 429/403 streak of a plugin: the rows that trailing_backoff_count counts.
Refusals(rows, p) ==
    {r \in RealOf(rows, p) : \A s \in RealOf(rows, p) : s.outcome # "refused" => Newer(r, s)}

\* Rows with ids of their own below nextId are finitely many.
LEMMA FiniteTable ==
    ASSUME TableInv
    PROVE  IsFiniteSet(runs)
<1> DEFINE ids == [r \in runs |-> r.id]
<1>1. nextId \in Nat /\ \A r \in runs : r.id \in Nat /\ r.id < nextId
    BY DEF TableInv, Types, RowsOrdered, Row
<1>2. ids \in Injection(runs, 0 .. nextId)
    BY <1>1 DEF Injection, IsInjective, TableInv, RowsOrdered, OwnIds
<1>3. IsFiniteSet(0 .. nextId)
    BY <1>1, FS_Interval
<1> QED BY <1>2, <1>3, FS_Injection

LEMMA CountType ==
    ASSUME NEW rows, IsFiniteSet(rows), NEW p
    PROVE  /\ IsFiniteSet(Refusals(rows, p))
           /\ TrailingBackoff(rows, p) = Cardinality(Refusals(rows, p))
           /\ TrailingBackoff(rows, p) \in Nat
<1>1. Refusals(rows, p) \in SUBSET rows
    BY DEF Refusals, RealOf, FinishedOf
<1>2. IsFiniteSet(Refusals(rows, p))
    BY <1>1, FS_Subset
<1>3. TrailingBackoff(rows, p) = Cardinality(Refusals(rows, p))
    BY DEF TrailingBackoff, Refusals
<1> QED BY <1>2, <1>3, FS_CardinalityType

LEMMA StreakType ==
    ASSUME TableInv, NEW p \in Plugins
    PROVE  /\ IsFiniteSet(Refusals(runs, p))
           /\ TrailingBackoff(runs, p) = Cardinality(Refusals(runs, p))
           /\ TrailingBackoff(runs, p) \in Nat
    BY FiniteTable, CountType

\* The queries on a plugin's health read its real outcomes and nothing else.
LEMMA HealthIsReal ==
    ASSUME NEW before, NEW after, NEW p, RealOf(after, p) = RealOf(before, p)
    PROVE  /\ ConsecutiveFailures(after, p) = ConsecutiveFailures(before, p)
           /\ TrailingBackoff(after, p) = TrailingBackoff(before, p)
           /\ Refusals(after, p) = Refusals(before, p)
           /\ LatestFinished(after, p) = LatestFinished(before, p)
<1>1. ConsecutiveFailures(after, p) = ConsecutiveFailures(before, p)
    BY DEF ConsecutiveFailures, FailureStreak
<1>2. TrailingBackoff(after, p) = TrailingBackoff(before, p)
    BY DEF TrailingBackoff
<1>3. Refusals(after, p) = Refusals(before, p)
    BY DEF Refusals
<1>4. LatestFinished(after, p) = LatestFinished(before, p)
    BY DEF LatestFinished
<1> QED BY <1>1, <1>2, <1>3, <1>4

\* Closing the orphaned rows makes no outcome real and touches none that is.
LEMMA CloseKeepsReal ==
    ASSUME NEW rows \in SUBSET Row, NEW at \in Nat, NEW p \in Plugins
    PROVE  RealOf(CloseInterrupted(rows, at), p) = RealOf(rows, p)
<1> DEFINE next(r) == IF r.finished = None
                      THEN [r EXCEPT !.finished = at, !.outcome = "interrupted"] ELSE r
<1>1. CloseInterrupted(rows, at) = {next(r) : r \in rows}
    BY DEF CloseInterrupted
<1>2. ASSUME NEW r \in rows
      PROVE  next(r) = r \/ next(r).outcome = "interrupted"
    <2>1. r \in Row
        OBVIOUS
    <2> QED BY <2>1 DEF Row
<1>3. \A r \in rows : r.finished # None => next(r) = r
    OBVIOUS
<1> HIDE DEF next
<1> QED BY <1>1, <1>2, <1>3 DEF RealOf, FinishedOf

\* A restart changes no plugin's health: closing the orphaned rows leaves the
\* failure streak, the refusal streak and the last real outcome as they were,
\* for any table a crash can leave behind.
THEOREM HealthKept == Spec => RestartKeepsHealth
<1> DEFINE Kept ==
        proc = "down" /\ proc' = "recovered" =>
            \A p \in Plugins :
                /\ ConsecutiveFailures(runs', p) = ConsecutiveFailures(runs, p)
                /\ TrailingBackoff(runs', p) = TrailingBackoff(runs, p)
                /\ LatestFinished(runs', p) = LatestFinished(runs, p)
<1>1. TableInv /\ [Next]_vars => [Kept]_vars
    <2> SUFFICES ASSUME TableInv, [Next]_vars, proc = "down", proc' = "recovered",
                        NEW p \in Plugins
                 PROVE  /\ ConsecutiveFailures(runs', p) = ConsecutiveFailures(runs, p)
                        /\ TrailingBackoff(runs', p) = TrailingBackoff(runs, p)
                        /\ LatestFinished(runs', p) = LatestFinished(runs, p)
        OBVIOUS
    <2>1. Recover
        <3>1. ~Apart
            BY ApartMoves
        <3>2. ~Crash /\ ~Exit
            BY DEF Crash, Exit
        <3>3. ASSUME NEW q \in Plugins, Fire(q) \/ Begin(q) \/ Finish(q) \/ Passing(q)
              PROVE  FALSE
            BY <3>3 DEF Fire, Begin, Finish, Passing, BeginFails, CollectReturns, CollectRaises,
                        StoreAndReconcile, FinishFails, Settle, HandleEscaped, HooksDone, Serving
        <3> QED BY <3>1, <3>2, <3>3, Steps
    <2>2. runs' = CloseInterrupted(runs, clock) /\ runs \in SUBSET Row /\ clock \in Nat
        BY <2>1 DEF Recover, TableInv, Types
    <2>3. RealOf(runs', p) = RealOf(runs, p)
        BY <2>2, CloseKeepsReal
    <2> QED BY <2>3, HealthIsReal
<1> QED BY <1>1, TableHolds, PTL DEF Spec, RestartKeepsHealth

-----------------------------------------------------------------------------
\* Types

\* _initial_next_run answers a time and a streak.
LEMMA SlotsType ==
    ASSUME TableInv, NEW p \in Plugins, NEW s \in InitialSlots(p, runs, clock)
    PROVE  s.at \in Nat /\ s.backoff \in Nat
<1> DEFINE trailing == TrailingBackoff(runs, p)
           Resumed(r) == [at |-> r.started + BackoffDelay(p, r.retryAfter, trailing),
                          backoff |-> trailing]
           Spread(from) == {[at |-> Greatest(clock + d, from), backoff |-> 0] : d \in StartDelays}
           latest == LatestRuns(runs, p)
<1>1. clock \in Nat /\ trailing \in Nat
    BY StreakType DEF TableInv, Types
<1>2. ASSUME NEW r \in latest
      PROVE  r.started \in Nat /\ r.retryAfter \in Nat \union {None}
    BY DEF LatestRuns, TableInv, Types, Row
<1>3. ASSUME NEW from \in Nat, s \in Spread(from)
      PROVE  s.at \in Nat /\ s.backoff \in Nat
    <2>1. PICK d \in StartDelays : s = [at |-> Greatest(clock + d, from), backoff |-> 0]
        BY <1>3
    <2>2. clock + d \in Nat
        BY <1>1
    <2>3. Greatest(clock + d, from) \in Nat
        BY <2>2 DEF Greatest
    <2> QED BY <2>1, <2>3
<1>4. ASSUME NEW r \in latest, s = Resumed(r)
      PROVE  s.at \in Nat /\ s.backoff \in Nat
    <2>1. BackoffDelay(p, r.retryAfter, trailing) \in Nat
        <3> HIDE DEF trailing
        <3> QED BY <1>1, <1>2, DelayType
    <2> QED BY <1>1, <1>2, <1>4, <2>1
<1>5. \/ s \in Spread(clock)
      \/ \E r \in latest : s = Resumed(r)
      \/ \E r \in latest : s \in Spread(r.started + Interval[p])
    <2>1. InitialSlots(p, runs, clock) =
            CASE latest = {}  -> Spread(clock)
              [] trailing > 0 -> {Resumed(r) : r \in latest}
              [] OTHER        -> UNION {Spread(r.started + Interval[p]) : r \in latest}
        BY DEF InitialSlots
    <2> HIDE DEF Spread, Resumed, latest, trailing
    <2>2. CASE latest = {}
        BY <2>1, <2>2
    <2>3. CASE latest # {} /\ trailing > 0
        BY <2>1, <2>3
    <2>4. CASE latest # {} /\ ~(trailing > 0)
        BY <2>1, <2>4
    <2> QED BY <2>2, <2>3, <2>4
<1>6. \A r \in latest : r.started + Interval[p] \in Nat
    BY <1>2
<1> QED BY <1>1, <1>3, <1>4, <1>5, <1>6

\* The types TableInv does not speak of.
Rest ==
    /\ lost \subseteq Nat
    /\ due \in [Plugins -> Nat]
    /\ backoff \in [Plugins -> Nat]
    /\ maintDue \in Nat
    /\ maint \in {"idle", "queued", "running"}
    /\ crashes \in Nat /\ stops \in Nat /\ storageErrors \in Nat

LEMMA SlotsFuture ==
    ASSUME NEW slot \in Nat, NEW every \in Nat, NEW at \in Nat,
           NEW t \in NextSlots(slot, every, at)
    PROVE  t \in Nat
    BY DEF NextSlots

LEMMA StepRest ==
    ASSUME TableInv, Rest, [Next]_vars
    PROVE  Rest'
<1> USE DEF Rest
<1>1. CASE StartScheduler
    <2>1. PICK slot \in [Plugins -> UNION {InitialSlots(p, runs, clock) : p \in Plugins}] :
            /\ \A p \in Plugins : slot[p] \in InitialSlots(p, runs, clock)
            /\ due' = [p \in Plugins |-> slot[p].at]
            /\ backoff' = [p \in Plugins |-> slot[p].backoff]
        BY <1>1 DEF StartScheduler
    <2>2. \A p \in Plugins : slot[p].at \in Nat /\ slot[p].backoff \in Nat
        BY <2>1, SlotsType
    <2>3. due' \in [Plugins -> Nat] /\ backoff' \in [Plugins -> Nat]
        BY <2>1, <2>2
    <2>4. maintDue' \in Nat
        BY <1>1 DEF StartScheduler, TableInv, Types
    <2> QED BY <1>1, <2>3, <2>4 DEF StartScheduler, table, budget
<1>2. ASSUME NEW p \in Plugins, Fire(p)
      PROVE  Rest'
    <2>1. PICK t \in NextSlots(due[p], Interval[p], clock) : due' = [due EXCEPT ![p] = t]
        BY <1>2 DEF Fire
    <2>2. due[p] \in Nat /\ Interval[p] \in Nat /\ clock \in Nat
        BY DEF TableInv, Types
    <2>3. t \in Nat
        BY <2>1, <2>2, SlotsFuture
    <2> QED BY <1>2, <2>1, <2>3 DEF Fire, table, maintenance, budget
<1>3. CASE FireMaintenance
    <2>1. PICK t \in NextSlots(maintDue, MaintEvery, clock) : maintDue' = t
        BY <1>3 DEF FireMaintenance
    <2>2. clock \in Nat
        BY DEF TableInv, Types
    <2>3. t \in Nat
        BY <2>1, <2>2, SlotsFuture
    <2> QED BY <1>3, <2>1, <2>3 DEF FireMaintenance, table, timer, budget
<1>4. ASSUME NEW p \in Plugins, Settle(p)
      PROVE  Rest'
    <2>1. clock \in Nat /\ result[p].retryAfter \in Nat \union {None}
        BY DEF TableInv, Types, Results
    <2>2. backoff' \in [Plugins -> Nat]
        BY <1>4 DEF Settle
    <2>3. BackoffDelay(p, result[p].retryAfter, backoff'[p]) \in Nat
        <3>1. backoff'[p] \in Nat
            BY <2>2
        <3> QED BY <2>1, <3>1, DelayType
    <2>4. due' \in [Plugins -> Nat]
        BY <1>4, <2>1, <2>3 DEF Settle
    <2> QED BY <1>4, <2>2, <2>4 DEF Settle, table, maintenance, budget
<1>5. ASSUME NEW p \in Plugins, FinishFails(p)
      PROVE  Rest'
    <2>1. run[p] \in Nat
        BY DEF TableInv, Types
    <2>2. lost' \subseteq Nat
        BY <1>5, <2>1 DEF FinishFails
    <2>3. storageErrors' \in Nat
        BY <1>5 DEF FinishFails, MayStorageFail
    <2> QED BY <1>5, <2>2, <2>3 DEF FinishFails, timer, maintenance
<1>6. ASSUME NEW p \in Plugins, BeginFails(p) \/ HandleEscaped(p)
      PROVE  Rest'
    <2>1. storageErrors' \in Nat
        BY <1>6 DEF BeginFails, HandleEscaped, MayStorageFail, budget
    <2>2. backoff' \in [Plugins -> Nat]
        BY <1>6 DEF BeginFails, HandleEscaped, timer
    <2> QED BY <1>6, <2>1, <2>2 DEF BeginFails, HandleEscaped, table, timer, maintenance, budget
<1>7. ASSUME NEW p \in Plugins,
             Begin(p) \/ CollectReturns(p) \/ CollectRaises(p) \/ StoreAndReconcile(p)
                \/ Finish(p) \/ HooksDone(p)
      PROVE  Rest'
    BY <1>7 DEF Begin, CollectReturns, CollectRaises, StoreAndReconcile, Finish, HooksDone,
                table, timer, maintenance, budget
<1>8. CASE Tick \/ Recover \/ MaintenanceDone \/ UNCHANGED vars
    BY <1>8 DEF Tick, Recover, MaintenanceDone, vars, table, timer, maintenance, budget
<1>9. CASE Crash \/ Exit
    <2>1. LoseMemory /\ UNCHANGED <<lost, stops, storageErrors>> /\ crashes' \in Nat
        BY <1>9 DEF Crash, Exit, table, budget
    <2> QED BY <2>1 DEF LoseMemory
<1>10. CASE MaintenancePrunes
    BY <1>10 DEF MaintenancePrunes, MayStorageFail, timer
<1>11. CASE Stop
    BY <1>11 DEF Stop, table, timer, maintenance
<1> QED BY <1>1, <1>2, <1>3, <1>4, <1>5, <1>6, <1>7, <1>8, <1>9, <1>10, <1>11
        DEF Next, Thread, Horizon

LEMMA TypesHold == Spec => [](TableInv /\ Rest)
<1>1. Init => TableInv /\ Rest
    BY InitTable DEF Init, Rest
<1>2. TableInv /\ Rest /\ [Next]_vars => (TableInv /\ Rest)'
    BY StepTable, StepRest
<1> QED BY <1>1, <1>2, PTL DEF Spec

\* The type invariant, streaks and delays included: after a restart they come
\* from what the table holds, between restarts from what the polls heard.
THEOREM TypeCorrect == Spec => []TypeOK
<1>1. TableInv /\ Rest => TypeOK
    BY DEF TableInv, Types, Rest, TypeOK
<1> QED BY <1>1, TypesHold, PTL

-----------------------------------------------------------------------------
\* What finish_run, close_interrupted_runs and a prune do to real outcomes

Answers == {"ok", "error", "clientClosed", "refused"}

\* r is the newest row of p.
Top(p, r) == r \in runs /\ r.plugin = p /\ \A s \in runs : s.plugin = p => s = r \/ Newer(r, s)

\* The poll holds the highest id of its plugin.
Leads(p) == \A r \in runs : r.plugin = p => r.id <= run[p]

\* f is the row of p's poll, with its answer.
Answered(p, f) ==
    /\ Top(p, f) /\ f.id = run[p] /\ f.started = since[p] /\ f.finished # None
    /\ f.outcome = result[p].outcome /\ f.retryAfter = result[p].retryAfter

\* finish_run makes the poll's row the newest real outcome of its plugin, and
\* changes no other plugin's.
LEMMA FinishAnswers ==
    ASSUME TableInv, NEW p \in Plugins, Finish(p), Flying(p), Leads(p),
           result[p].outcome \in Answers
    PROVE  \E f : /\ Answered(p, f)'
                  /\ f \notin runs
                  /\ RealOf(runs', p) = RealOf(runs, p) \union {f}
                  /\ \A q \in Plugins \ {p} : RealOf(runs', q) = RealOf(runs, q)
                  /\ \A q \in Plugins \ {p} : \A s : s.plugin = q => (s \in runs' <=> s \in runs)
                  /\ runs' \subseteq runs \union {f}
<1>1. PICK r \in runs : /\ r.id = run[p] /\ r.plugin = p
                        /\ r.finished = None /\ r.started = since[p]
    BY DEF Flying
<1>0. PICK f : f = [r EXCEPT !.finished = since[p], !.outcome = result[p].outcome,
                             !.retryAfter = result[p].retryAfter]
    OBVIOUS
<1>2. /\ f.id = run[p] /\ f.plugin = p /\ f.started = since[p]
      /\ f.finished = since[p] /\ f.finished # None
      /\ f.outcome = result[p].outcome /\ f.retryAfter = result[p].retryAfter
    <2>1. r \in Row /\ since[p] \in Nat
        BY DEF TableInv, Types
    <2> QED BY <1>0, <1>1, <2>1 DEF Row, None
<1>3. runs' = (runs \ {r}) \union {f}
    <2>1. \A s \in runs : s.id = run[p] <=> s = r
        BY <1>1 DEF TableInv, RowsOrdered, OwnIds
    <2>2. runs' = {IF s.id = run[p]
                   THEN [s EXCEPT !.finished = since[p], !.outcome = result[p].outcome,
                                  !.retryAfter = result[p].retryAfter]
                   ELSE s : s \in runs}
        BY DEF Finish, FinishRow
    <2> QED BY <1>0, <2>1, <2>2
<1>4. UNCHANGED <<run, since, result>>
    BY DEF Finish
<1>5. f \notin runs
    BY <1>1, <1>2 DEF TableInv, RowsOrdered, OwnIds
<1>6. ASSUME NEW s \in runs', s.plugin = p
      PROVE  s = f \/ Newer(f, s)
    <2>1. CASE s \in runs /\ s # r
        <3>1. s.started <= since[p] /\ s.id <= run[p]
            BY <1>6, <2>1 DEF Flying, Leads
        <3>2. s.id # run[p]
            BY <1>1, <2>1 DEF TableInv, RowsOrdered, OwnIds
        <3>3. s.started \in Nat /\ s.id \in Nat /\ since[p] \in Nat /\ run[p] \in Nat
            BY <2>1 DEF TableInv, Types, Row
        <3> QED BY <1>2, <3>1, <3>2, <3>3 DEF Newer
    <2> QED BY <1>3, <2>1
<1>7. Answered(p, f)'
    BY <1>2, <1>3, <1>4, <1>6 DEF Answered, Top
<1>8. f.outcome # "interrupted"
    BY <1>2 DEF Answers
<1>9. RealOf(runs', p) = RealOf(runs, p) \union {f}
    BY <1>1, <1>2, <1>3, <1>8 DEF RealOf, FinishedOf
<1>10. \A q \in Plugins \ {p} : \A s : s.plugin = q => (s \in runs' <=> s \in runs)
    BY <1>1, <1>2, <1>3
<1>11. \A q \in Plugins \ {p} : RealOf(runs', q) = RealOf(runs, q)
    BY <1>10 DEF RealOf, FinishedOf
<1> QED BY <1>3, <1>5, <1>7, <1>9, <1>10, <1>11

\* A refusal that becomes the newest real outcome extends the streak by one.
LEMMA RefusalExtends ==
    ASSUME NEW before \in SUBSET Row, NEW after, NEW p, NEW f,
           IsFiniteSet(Refusals(before, p)),
           RealOf(after, p) = RealOf(before, p) \union {f}, f \notin before,
           f.outcome = "refused",
           \A s \in RealOf(before, p) : Newer(f, s)
    PROVE  /\ Refusals(after, p) = Refusals(before, p) \union {f}
           /\ Cardinality(Refusals(after, p)) = Cardinality(Refusals(before, p)) + 1
<1>1. Refusals(after, p) = Refusals(before, p) \union {f}
    BY DEF Refusals
<1>2. f \notin Refusals(before, p)
    BY DEF Refusals, RealOf, FinishedOf
<1> QED BY <1>1, <1>2, FS_AddElement

\* Any other outcome, once the newest, ends it.
LEMMA AnswerEnds ==
    ASSUME NEW p \in Plugins, NEW f, Answered(p, f), f.outcome \in Answers \ {"refused"},
           TableInv
    PROVE  Refusals(runs, p) = {}
<1>1. f \in RealOf(runs, p)
    BY DEF Answered, Top, RealOf, FinishedOf, Answers
<1>2. ASSUME NEW r \in Refusals(runs, p)
      PROVE  FALSE
    <2>1. r \in runs /\ r.plugin = p /\ Newer(r, f)
        BY <1>1 DEF Refusals, RealOf, FinishedOf
    <2>2. r = f \/ Newer(f, r)
        BY <2>1 DEF Answered, Top
    <2>3. r.started \in Nat /\ f.started \in Nat /\ r.id \in Nat /\ f.id \in Nat
        BY <2>1 DEF TableInv, Types, Row, Answered, Top
    <2> QED BY <2>1, <2>2, <2>3 DEF Newer
<1> QED BY <1>2

\* A prune takes real outcomes from the old end only.
LEMMA PruneCuts ==
    ASSUME TableInv, NEW cutoff \in Int, NEW p \in Plugins
    PROVE  LET after == Prune(runs, cutoff)
           IN  /\ RealOf(after, p) \subseteq RealOf(runs, p)
               /\ \A r \in RealOf(runs, p) :
                      r \in RealOf(after, p) \/ \A s \in RealOf(after, p) : Newer(s, r)
<1> DEFINE after == Prune(runs, cutoff)
<1>1. RealOf(after, p) \subseteq RealOf(runs, p)
    BY DEF Prune, RealOf, FinishedOf
<1>2. ASSUME NEW r \in RealOf(runs, p), r \notin RealOf(after, p), NEW s \in RealOf(after, p)
      PROVE  Newer(s, r)
    <2>1. /\ r \in runs /\ r.plugin = p /\ r \in FinishedOf(runs, p)
          /\ s \in runs /\ s.plugin = p /\ s \in after
        BY <1>1 DEF RealOf, FinishedOf
    <2>2. r \notin after /\ s # r
        BY <1>2, <2>1 DEF RealOf, FinishedOf
    <2>3. ~(r.started >= cutoff)
        BY <2>1, <2>2 DEF Prune
    <2>4. r.started \in Nat /\ s.started \in Nat
        BY <2>1 DEF TableInv, Types, Row
    <2>5. CASE s.started >= cutoff
        BY <2>3, <2>4, <2>5 DEF Newer
    <2>6. CASE s \in Newest(FinishedOf(runs, p))
        BY <2>1, <2>2, <2>6 DEF Newest
    <2> QED BY <2>1, <2>5, <2>6 DEF Prune
<1> QED BY <1>1, <1>2

\* So a streak that loses a row is all that is left.
LEMMA PruneStreak ==
    ASSUME TableInv, NEW cutoff \in Int, NEW p \in Plugins
    PROVE  LET after == Prune(runs, cutoff)
           IN  /\ Refusals(after, p) \subseteq Refusals(runs, p)
               /\ \/ Refusals(after, p) = Refusals(runs, p)
                  \/ /\ \A s \in RealOf(after, p) : s.outcome = "refused"
                     /\ \E r \in runs : r \notin after
               /\ LatestFinished(after, p) \subseteq LatestFinished(runs, p)
<1> DEFINE after == Prune(runs, cutoff)
           old == RealOf(runs, p)
           new == RealOf(after, p)
<1>1. new \subseteq old /\ \A r \in old : r \in new \/ \A s \in new : Newer(s, r)
    BY PruneCuts
<1>2. Refusals(after, p) = {r \in new : \A s \in new : s.outcome # "refused" => Newer(r, s)}
    BY DEF Refusals
<1>3. Refusals(runs, p) = {r \in old : \A s \in old : s.outcome # "refused" => Newer(r, s)}
    BY DEF Refusals
<1>4. LatestFinished(after, p) \subseteq LatestFinished(runs, p)
    <2>1. LatestFinished(after, p) = {r \in new : \A s \in new \ {r} : Newer(r, s)}
        BY DEF LatestFinished, Newest
    <2>2. LatestFinished(runs, p) = {r \in old : \A s \in old \ {r} : Newer(r, s)}
        BY DEF LatestFinished, Newest
    <2> HIDE DEF old, new
    <2> QED BY <1>1, <2>1, <2>2
<1>5. \A r \in old : r \in runs /\ r.started \in Nat /\ r.id \in Nat
    BY DEF RealOf, FinishedOf, TableInv, Types, Row
<1>6. \A r \in old : r \notin new => r \notin after
    BY DEF RealOf, FinishedOf
<1> HIDE DEF old, new, after
<1>7. Refusals(after, p) \subseteq Refusals(runs, p)
    BY <1>1, <1>2, <1>3
<1>8. ASSUME NEW r \in Refusals(runs, p), r \notin Refusals(after, p)
      PROVE  /\ \A s \in new : s.outcome = "refused"
             /\ \E q \in runs : q \notin after
    <2>1. r \in old /\ r \notin new
        BY <1>1, <1>2, <1>3, <1>8
    <2>2. ASSUME NEW s \in new, s.outcome # "refused"
          PROVE  FALSE
        <3>1. Newer(r, s) /\ Newer(s, r)
            BY <1>1, <1>3, <2>1, <2>2
        <3>2. r \in old /\ s \in old
            BY <1>1, <2>1
        <3> QED BY <1>5, <3>1, <3>2 DEF Newer
    <2> QED BY <1>5, <1>6, <2>1, <2>2
<1> QED BY <1>4, <1>7, <1>8 DEF after, new

-----------------------------------------------------------------------------
\* The row of a poll is its plugin's newest, and gets the poll's answer

LeadInv ==
    /\ nextId >= 1 /\ \A r \in runs : r.id >= 1
    /\ \A p \in Plugins :
        /\ pc[p] \in Open => Leads(p)
        /\ pc[p] \in {"finishing", "settling"} => result[p].outcome \in Answers
        /\ pc[p] = "settling" => \E f : Answered(p, f)
        /\ storageErrors = 0 => pc[p] # "failed"

\* Ids are handed out upwards, so a missing id stays missing.
LEMMA IdsStay ==
    ASSUME TableInv, [Next]_vars
    PROVE  /\ nextId' \in {nextId, nextId + 1}
           /\ \A s \in runs' : s.id = nextId \/ \E r \in runs : r.id = s.id
<1>1. CASE Apart
    BY <1>1, ApartMoves DEF Prune
<1>2. CASE Recover
    <2>1. runs \in SUBSET Row /\ clock \in Nat
        BY DEF TableInv, Types
    <2>2. \A s \in CloseInterrupted(runs, clock) : \E r \in runs : SameRun(r, s)
        BY <2>1, CloseFacts
    <2> QED BY <1>2, <2>2 DEF Recover, SameRun
<1>3. CASE Crash \/ Exit
    BY <1>3 DEF Crash, Exit, table
<1>4. ASSUME NEW p \in Plugins, Fire(p) \/ Passing(p)
      PROVE  UNCHANGED <<runs, nextId>>
    BY <1>4, FireMoves, PassingMoves DEF TableInv
<1>5. ASSUME NEW p \in Plugins, Begin(p)
      PROVE  /\ nextId' = nextId + 1
             /\ \A s \in runs' : s.id = nextId \/ s \in runs
    BY <1>5, BeginMoves DEF TableInv
<1>6. ASSUME NEW p \in Plugins, Finish(p)
      PROVE  /\ nextId' = nextId
             /\ \A s \in runs' : \E r \in runs : r.id = s.id
    BY <1>6, FinishMoves DEF TableInv, Closed, SameRun
<1> QED BY <1>1, <1>2, <1>3, <1>4, <1>5, <1>6, Steps

LEMMA PrunedStays ==
    ASSUME TableInv, [Next]_vars, SomeRowPruned
    PROVE  SomeRowPruned'
<1>1. PICK i \in 1 .. nextId - 1 : \A r \in runs : r.id # i
    BY DEF SomeRowPruned
<1>2. nextId \in Nat /\ nextId' \in {nextId, nextId + 1}
    BY IdsStay DEF TableInv, Types
<1>3. i \in 1 .. nextId' - 1 /\ i # nextId
    <2>1. i \in Nat /\ 1 <= i /\ i <= nextId - 1
        BY <1>1, <1>2
    <2>2. CASE nextId' = nextId
        BY <1>2, <2>1, <2>2
    <2>3. CASE nextId' = nextId + 1
        BY <1>2, <2>1, <2>3
    <2> QED BY <1>2, <2>2, <2>3
<1>4. \A r \in runs' : r.id # i
    BY <1>1, <1>3, IdsStay
<1> QED BY <1>3, <1>4 DEF SomeRowPruned

\* Storage calls that failed are not forgotten.
LEMMA ErrorsCounted ==
    ASSUME Rest, [Next]_vars, storageErrors' = 0
    PROVE  storageErrors = 0
<1>1. storageErrors' \in {storageErrors, storageErrors + 1}
    <2>1. CASE Tick \/ Recover \/ StartScheduler \/ Crash \/ Stop \/ Exit
               \/ FireMaintenance \/ MaintenanceDone \/ UNCHANGED vars
        BY <2>1 DEF Tick, Recover, StartScheduler, Crash, Stop, Exit, FireMaintenance,
                    MaintenanceDone, vars, budget
    <2>2. CASE MaintenancePrunes
        BY <2>2 DEF MaintenancePrunes, MayStorageFail
    <2>3. ASSUME NEW p \in Plugins, BeginFails(p) \/ FinishFails(p)
          PROVE  storageErrors' \in {storageErrors, storageErrors + 1}
        BY <2>3 DEF BeginFails, FinishFails, MayStorageFail
    <2>4. ASSUME NEW p \in Plugins,
                 Fire(p) \/ Begin(p) \/ CollectReturns(p) \/ CollectRaises(p)
                 \/ StoreAndReconcile(p) \/ Finish(p) \/ Settle(p) \/ HandleEscaped(p)
                 \/ HooksDone(p)
          PROVE  storageErrors' = storageErrors
        BY <2>4 DEF Fire, Begin, CollectReturns, CollectRaises, StoreAndReconcile, Finish,
                    Settle, HandleEscaped, HooksDone, budget
    <2> QED BY <2>1, <2>2, <2>3, <2>4 DEF Next, Thread, Horizon
<1> QED BY <1>1 DEF Rest

\* Without a storage failure no poll ends in the generic handler: finish_run's
\* row is there.
LEMMA NothingEscapes ==
    ASSUME Rest, FlightInv, NEW p \in Plugins, BeginFails(p) \/ FinishFails(p)
    PROVE  storageErrors' # 0
<1>1. CASE MayStorageFail
    BY <1>1 DEF MayStorageFail, Rest
<1>2. CASE BeginFails(p)
    BY <1>1, <1>2 DEF BeginFails
<1>3. CASE FinishFails(p)
    <2>1. RowIsThere(p)
        BY <1>3 DEF FinishFails, FlightInv, Open, Flying, RowIsThere
    <2> QED BY <1>1, <1>3, <2>1 DEF FinishFails
<1> QED BY <1>2, <1>3

\* A newest row stays so when rows go.
LEMMA TopStays ==
    ASSUME NEW p, NEW r, Top(p, r), r \in runs', runs' \subseteq runs
    PROVE  Top(p, r)'
    BY DEF Top

LEMMA LeadBegins ==
    ASSUME TableInv, LeadInv, Rest, NEW p \in Plugins, Begin(p), storageErrors' = storageErrors
    PROVE  LeadInv'
<1> DEFINE new == StartRow(nextId, p, clock)
<1>1. /\ runs' = runs \union {new} /\ new.id = nextId /\ new.plugin = p
      /\ nextId' = nextId + 1
      /\ pc' = [pc EXCEPT ![p] = "collecting"] /\ UNCHANGED result
      /\ run' = [run EXCEPT ![p] = nextId] /\ since' = [since EXCEPT ![p] = clock]
    BY BeginMoves DEF TableInv
<1> HIDE DEF new
<1>2. nextId \in Nat /\ \A r \in runs : r.id \in Nat /\ r.id < nextId
    BY DEF TableInv, Types, RowsOrdered, Row
<1>3. nextId' >= 1 /\ \A r \in runs' : r.id >= 1
    BY <1>1, <1>2 DEF LeadInv
<1>4. ASSUME NEW q \in Plugins, q # p
      PROVE  pc'[q] = pc[q] /\ run'[q] = run[q] /\ since'[q] = since[q]
    BY <1>1, <1>4 DEF TableInv, Types
<1>5. pc'[p] = "collecting" /\ Leads(p)'
    BY <1>1, <1>2 DEF TableInv, Types, Leads
<1>6. ASSUME NEW q \in Plugins, q # p
      PROVE  /\ pc'[q] \in Open => Leads(q)'
             /\ \A f : Answered(q, f) => Answered(q, f)'
    BY <1>1, <1>4, <1>6 DEF LeadInv, Leads, Answered, Top
<1> QED BY <1>1, <1>3, <1>4, <1>5, <1>6 DEF LeadInv

LEMMA LeadFinishes ==
    ASSUME TableInv, LeadInv, FlightInv, Rest, NEW p \in Plugins, Finish(p),
           storageErrors' = storageErrors
    PROVE  LeadInv'
<1>1. /\ UNCHANGED <<nextId, run, since, result>>
      /\ pc[p] = "finishing" /\ pc' = [pc EXCEPT ![p] = "settling"]
    BY FinishMoves DEF TableInv
<1>2. Flying(p) /\ Leads(p) /\ result[p].outcome \in Answers
    BY <1>1 DEF FlightInv, LeadInv, Open
<1>3. PICK f : /\ Answered(p, f)'
               /\ \A q \in Plugins \ {p} : \A s : s.plugin = q => (s \in runs' <=> s \in runs)
    BY <1>2, FinishAnswers
<1>4. pc'[p] = "settling" /\ \A q \in Plugins \ {p} : pc'[q] = pc[q]
    BY <1>1 DEF TableInv, Types
<1>5. \A r \in runs' : r.id >= 1
    <2>1. runs' \subseteq runs \/ \A s \in runs' : \E r \in runs : r.id = s.id
        BY FinishMoves DEF TableInv, Closed, SameRun
    <2> QED BY <2>1 DEF LeadInv
<1>6. ASSUME NEW q \in Plugins, q # p
      PROVE  /\ pc'[q] \in Open => Leads(q)'
             /\ \A g : Answered(q, g) => Answered(q, g)'
    BY <1>1, <1>3, <1>4, <1>6 DEF LeadInv, Leads, Answered, Top
<1> QED BY <1>1, <1>2, <1>3, <1>4, <1>5, <1>6 DEF LeadInv, Open

\* The steps of a poll between its row's insert and update, and after it.
LEMMA LeadPasses ==
    ASSUME TableInv, LeadInv, FlightInv, Rest, NEW p \in Plugins, Passing(p),
           storageErrors' = 0 => storageErrors = 0
    PROVE  LeadInv'
<1>1. /\ UNCHANGED <<runs, nextId>>
      /\ \A q \in Plugins \ {p} : run'[q] = run[q] /\ since'[q] = since[q]
      /\ \A q \in Plugins \ {p} : pc'[q] = pc[q]
      /\ pc'[p] \in Open => pc[p] \in Open /\ run'[p] = run[p]
    <2>1. PICK label \in Labels : pc' = [pc EXCEPT ![p] = label]
        BY PassingMoves DEF TableInv
    <2> QED BY <2>1, PassingMoves DEF TableInv, Types
<1>2. \A q \in Plugins \ {p} : result'[q] = result[q]
    BY DEF Passing, BeginFails, CollectReturns, CollectRaises, StoreAndReconcile, FinishFails,
           Settle, HandleEscaped, HooksDone, TableInv, Types
<1>3. ASSUME pc'[p] \in {"finishing", "settling"}
      PROVE  pc'[p] # "settling" /\ result'[p].outcome \in Answers
    <2>1. CASE CollectRaises(p)
        BY <2>1 DEF CollectRaises, Goto, TableInv, Types, Answers
    <2>2. CASE StoreAndReconcile(p)
        BY <2>2 DEF StoreAndReconcile, Goto, TableInv, Types, Answers
    <2>3. CASE BeginFails(p) \/ CollectReturns(p) \/ FinishFails(p) \/ HandleEscaped(p)
               \/ HooksDone(p)
        BY <1>3, <2>3 DEF BeginFails, CollectReturns, FinishFails, HandleEscaped, HooksDone,
                          Goto, TableInv, Types
    <2>4. CASE Settle(p)
        <3>1. pc'[p] \in {"hooks", "idle"}
            BY <2>4 DEF Settle, Goto, TableInv, Types
        <3> QED BY <1>3, <3>1
    <2> QED BY <2>1, <2>2, <2>3, <2>4 DEF Passing
<1>4. ASSUME storageErrors' = 0
      PROVE  pc'[p] # "failed"
    <2>1. ~(BeginFails(p) \/ FinishFails(p))
        BY <1>4, NothingEscapes
    <2>2. CASE CollectReturns(p) \/ CollectRaises(p) \/ StoreAndReconcile(p)
               \/ HandleEscaped(p) \/ HooksDone(p)
        BY <2>2 DEF CollectReturns, CollectRaises, StoreAndReconcile, HandleEscaped, HooksDone,
                    Goto, TableInv, Types
    <2>3. CASE Settle(p)
        <3>1. pc'[p] \in {"hooks", "idle"}
            BY <2>3 DEF Settle, Goto, TableInv, Types
        <3> QED BY <3>1
    <2> QED BY <2>1, <2>2, <2>3 DEF Passing
<1>5. ASSUME NEW q \in Plugins, q # p
      PROVE  \A f : Answered(q, f) => Answered(q, f)'
    BY <1>1, <1>2, <1>5 DEF Answered, Top
<1>6. ASSUME NEW q \in Plugins, pc'[q] \in Open
      PROVE  Leads(q)'
    <2>1. pc[q] \in Open /\ run'[q] = run[q]
        BY <1>1, <1>6
    <2> QED BY <1>1, <2>1 DEF LeadInv, Leads
<1> QED BY <1>1, <1>2, <1>3, <1>4, <1>5, <1>6 DEF LeadInv

\* A prune keeps the answered row: it is the newest finished one.
LEMMA LeadApart ==
    ASSUME TableInv, LeadInv, Apart, storageErrors' = 0 => storageErrors = 0
    PROVE  LeadInv'
<1>1. /\ UNCHANGED <<pc, run, since, result, nextId>>
      /\ runs' = runs \/ runs' = Prune(runs, clock - Retention)
    BY ApartMoves
<1>2. runs' \subseteq runs
    BY <1>1 DEF Prune
<1>3. ASSUME NEW p \in Plugins, NEW f, Answered(p, f)
      PROVE  Answered(p, f)'
    <2>1. f \in Newest(FinishedOf(runs, f.plugin))
        BY <1>3 DEF Answered, Top, Newest, FinishedOf
    <2>2. f \in runs'
        BY <1>1, <1>3, <2>1 DEF Prune, Answered, Top
    <2> QED BY <1>1, <1>2, <1>3, <2>2, TopStays DEF Answered
<1>4. \A p \in Plugins : Leads(p) => Leads(p)'
    BY <1>1, <1>2 DEF Leads
<1> QED BY <1>1, <1>2, <1>3, <1>4 DEF LeadInv

LEMMA StepLead ==
    ASSUME TableInv, Rest, FlightInv, LeadInv, [Next]_vars
    PROVE  LeadInv'
<1>0. storageErrors' = 0 => storageErrors = 0
    BY ErrorsCounted
<1>1. CASE Recover \/ Crash \/ Exit
    <2>1. \A p \in Plugins : pc'[p] = "idle"
        BY <1>1 DEF Recover, Crash, Exit, LoseMemory, poll, TableInv, Quiet
    <2>2. nextId' = nextId
        BY <1>1 DEF Recover, Crash, Exit, table
    <2>3. \A s \in runs' : \E r \in runs : s.id = r.id
        <3>1. runs \in SUBSET Row /\ clock \in Nat
            BY DEF TableInv, Types
        <3>2. \A s \in CloseInterrupted(runs, clock) : \E r \in runs : SameRun(r, s)
            BY <3>1, CloseFacts
        <3> QED BY <1>1, <3>2 DEF Recover, Crash, Exit, table, SameRun
    <2> QED BY <2>1, <2>2, <2>3 DEF LeadInv, Open
<1>2. ASSUME NEW p \in Plugins, Begin(p) \/ Finish(p)
      PROVE  LeadInv'
    <2>1. storageErrors' = storageErrors
        BY <1>2 DEF Begin, Finish, budget
    <2> QED BY <1>2, <2>1, LeadBegins, LeadFinishes
<1>3. ASSUME NEW p \in Plugins, Fire(p)
      PROVE  LeadInv'
    <2>1. UNCHANGED <<runs, nextId, run, since, result>>
        BY <1>3, FireMoves DEF TableInv
    <2>2. \A q \in Plugins : pc'[q] = pc[q] \/ pc'[q] = "queued"
        BY <1>3, FireMoves DEF TableInv, Types
    <2>3. \A q \in Plugins : \A f : Answered(q, f) => Answered(q, f)'
        BY <2>1 DEF Answered, Top
    <2>4. \A q \in Plugins : Leads(q) => Leads(q)'
        BY <2>1 DEF Leads
    <2> QED BY <1>0, <2>1, <2>2, <2>3, <2>4 DEF LeadInv, Open
<1> QED BY <1>0, <1>1, <1>2, <1>3, LeadApart, LeadPasses, Steps

-----------------------------------------------------------------------------
\* The streak in memory

\* b is the streak that the table tells, or longer if its old end was pruned.
Agrees(b, p) ==
    \/ b = TrailingBackoff(runs, p)
    \/ /\ b > TrailingBackoff(runs, p) /\ SomeRowPruned
       /\ \A r \in RealOf(runs, p) : r.outcome = "refused"

\* Between finish_run and the handler the streak in memory is one behind.
StreakInv ==
    Serving /\ storageErrors = 0 =>
        \A p \in Plugins :
            /\ pc[p] # "settling" => Agrees(backoff[p], p)
            /\ pc[p] = "settling" /\ result[p].outcome = "refused" => Agrees(backoff[p] + 1, p)

LEMMA AgreesWhileSame ==
    ASSUME NEW b, NEW p, Agrees(b, p), RealOf(runs', p) = RealOf(runs, p),
           SomeRowPruned => SomeRowPruned'
    PROVE  Agrees(b, p)'
<1>1. TrailingBackoff(runs', p) = TrailingBackoff(runs, p)
    BY HealthIsReal
<1> QED BY <1>1 DEF Agrees

LEMMA AgreesAfterPrune ==
    ASSUME TableInv, LeadInv, NEW b \in Nat, NEW p \in Plugins, Agrees(b, p),
           NEW cutoff \in Int, runs' = Prune(runs, cutoff), nextId' = nextId,
           SomeRowPruned => SomeRowPruned'
    PROVE  Agrees(b, p)'
<1>0. IsFiniteSet(runs')
    <2>1. runs' \in SUBSET runs
        BY DEF Prune
    <2> QED BY <2>1, FiniteTable, FS_Subset
<1>1. /\ IsFiniteSet(Refusals(runs, p)) /\ TrailingBackoff(runs, p) = Cardinality(Refusals(runs, p))
      /\ TrailingBackoff(runs, p) \in Nat
    BY StreakType
<1>2. /\ TrailingBackoff(runs', p) = Cardinality(Refusals(runs', p))
      /\ TrailingBackoff(runs', p) \in Nat
    BY <1>0, CountType
<1>3. /\ Refusals(runs', p) \subseteq Refusals(runs, p)
      /\ \/ Refusals(runs', p) = Refusals(runs, p)
         \/ /\ \A s \in RealOf(runs', p) : s.outcome = "refused"
            /\ \E r \in runs : r \notin runs'
    BY PruneStreak
<1>4. TrailingBackoff(runs', p) <= TrailingBackoff(runs, p)
    BY <1>1, <1>2, <1>3, FS_Subset
<1>5. RealOf(runs', p) \subseteq RealOf(runs, p) /\ runs' \subseteq runs
    BY PruneCuts DEF Prune
<1>6. CASE Refusals(runs', p) = Refusals(runs, p)
    BY <1>1, <1>2, <1>5, <1>6 DEF Agrees
<1>7. CASE Refusals(runs', p) # Refusals(runs, p)
    <2>1. TrailingBackoff(runs', p) < TrailingBackoff(runs, p)
        BY <1>1, <1>2, <1>3, <1>4, <1>7, FS_Subset
    <2>2. b > TrailingBackoff(runs', p)
        BY <1>1, <1>2, <2>1 DEF Agrees
    <2>3. SomeRowPruned'
        <3>1. PICK r \in runs : r \notin runs'
            BY <1>3, <1>7
        <3>2. r.id \in 1 .. nextId' - 1
            BY DEF LeadInv, TableInv, Types, RowsOrdered, Row
        <3>3. \A s \in runs' : s.id # r.id
            BY <1>5, <3>1 DEF TableInv, RowsOrdered, OwnIds
        <3> QED BY <3>2, <3>3 DEF SomeRowPruned
    <2> QED BY <1>3, <1>7, <2>2, <2>3 DEF Agrees
<1> QED BY <1>6, <1>7

\* A refusal just recorded is one more, whatever was pruned.
LEMMA AgreesAfterRefusal ==
    ASSUME TableInv, NEW b \in Nat, NEW p \in Plugins, Agrees(b, p),
           NEW f, Answered(p, f)', f \notin runs, f.outcome = "refused",
           RealOf(runs', p) = RealOf(runs, p) \union {f},
           SomeRowPruned => SomeRowPruned'
    PROVE  Agrees(b + 1, p)'
<1>1. \A s \in RealOf(runs, p) : Newer(f, s)
    <2> SUFFICES ASSUME NEW s \in RealOf(runs, p) PROVE Newer(f, s)
        OBVIOUS
    <2>1. s \in RealOf(runs', p) /\ s \in runs
        BY DEF RealOf, FinishedOf
    <2>2. s \in runs' /\ s.plugin = p /\ s # f
        BY <2>1 DEF RealOf, FinishedOf
    <2> QED BY <2>2 DEF Answered, Top
<1>2. /\ IsFiniteSet(Refusals(runs, p)) /\ TrailingBackoff(runs, p) = Cardinality(Refusals(runs, p))
      /\ TrailingBackoff(runs, p) \in Nat
    BY StreakType
<1>3. TrailingBackoff(runs', p) = Cardinality(Refusals(runs', p))
    BY DEF TrailingBackoff, Refusals
<1>4. runs \in SUBSET Row
    BY DEF TableInv, Types
<1>5. TrailingBackoff(runs', p) = TrailingBackoff(runs, p) + 1
    <2>1. Cardinality(Refusals(runs', p)) = Cardinality(Refusals(runs, p)) + 1
        BY <1>1, <1>2, <1>4, RefusalExtends
    <2> QED BY <1>2, <1>3, <2>1
<1> QED BY <1>2, <1>5 DEF Agrees

\* A new process takes up the streak that the table tells.
LEMMA SlotsResume ==
    ASSUME TableInv, NEW p \in Plugins, NEW s \in InitialSlots(p, runs, clock)
    PROVE  /\ s.backoff = TrailingBackoff(runs, p)
           /\ TrailingBackoff(runs, p) > 0 =>
                \E r \in LatestRuns(runs, p) :
                    s.at = r.started + BackoffDelay(p, r.retryAfter, TrailingBackoff(runs, p))
<1> DEFINE trailing == TrailingBackoff(runs, p)
           Resumed(r) == [at |-> r.started + BackoffDelay(p, r.retryAfter, trailing),
                          backoff |-> trailing]
           Spread(from) == {[at |-> Greatest(clock + d, from), backoff |-> 0] : d \in StartDelays}
           latest == LatestRuns(runs, p)
<1>1. InitialSlots(p, runs, clock) =
        CASE latest = {}  -> Spread(clock)
          [] trailing > 0 -> {Resumed(r) : r \in latest}
          [] OTHER        -> UNION {Spread(r.started + Interval[p]) : r \in latest}
    BY DEF InitialSlots
<1>2. trailing \in Nat
    BY StreakType
<1>3. CASE latest = {}
    <2> DEFINE mine == {r \in runs : r.plugin = p}
    <2>1. mine = {}
        <3> SUFFICES ASSUME mine # {} PROVE FALSE
            OBVIOUS
        <3>1. /\ mine \in SUBSET Row /\ clock \in Nat /\ nextId \in Nat
              /\ \A r \in mine : r.started <= clock /\ r.id < nextId
              /\ OwnIds(mine)
            BY DEF TableInv, Types, RowsOrdered, OwnIds
        <3>2. PICK r : r \in Newest(mine)
            <4> HIDE DEF mine
            <4> QED BY <3>1, NewestExists
        <3>3. \A q \in mine : r.started >= q.started
            BY <3>1, <3>2 DEF Newest, Newer, Row
        <3>4. r \in latest
            BY <3>2, <3>3 DEF Newest, LatestRuns
        <3> QED BY <1>3, <3>4
    <2>2. Refusals(runs, p) = {}
        BY <2>1 DEF Refusals, RealOf, FinishedOf
    <2>3. trailing = 0
        BY <2>2, StreakType, FS_EmptySet
    <2>4. s.backoff = 0
        BY <1>1, <1>3
    <2> QED BY <2>3, <2>4
<1>4. CASE latest # {} /\ trailing > 0
    <2>1. InitialSlots(p, runs, clock) = {Resumed(r) : r \in latest}
        <3> HIDE DEF Spread, Resumed, latest, trailing
        <3> QED BY <1>1, <1>4
    <2> QED BY <2>1
<1>5. CASE latest # {} /\ ~(trailing > 0)
    <2>1. InitialSlots(p, runs, clock) = UNION {Spread(r.started + Interval[p]) : r \in latest}
        <3> HIDE DEF Spread, Resumed, latest, trailing
        <3> QED BY <1>1, <1>5
    <2>2. s.backoff = 0
        BY <2>1
    <2> QED BY <1>2, <1>5, <2>2
<1> QED BY <1>3, <1>4, <1>5

LEMMA StreakApart ==
    ASSUME TableInv, Rest, LeadInv, StreakInv, Apart, [Next]_vars
    PROVE  StreakInv'
<1> SUFFICES ASSUME Serving', storageErrors' = 0, NEW p \in Plugins
             PROVE  /\ pc'[p] # "settling" => Agrees(backoff[p], p)'
                    /\ pc'[p] = "settling" /\ result'[p].outcome = "refused" =>
                            Agrees(backoff[p] + 1, p)'
    BY DEF StreakInv
<1>1. /\ UNCHANGED <<pc, run, since, result, nextId>>
      /\ runs' = runs \/ runs' = Prune(runs, clock - Retention)
    BY ApartMoves
<1>2. SomeRowPruned => SomeRowPruned'
    BY PrunedStays
<1>3. CASE StartScheduler
    <2>1. PICK slot \in [Plugins -> UNION {InitialSlots(q, runs, clock) : q \in Plugins}] :
            /\ \A q \in Plugins : slot[q] \in InitialSlots(q, runs, clock)
            /\ backoff' = [q \in Plugins |-> slot[q].backoff]
        BY <1>3 DEF StartScheduler
    <2>2. runs' = runs /\ pc'[p] = "idle"
        BY <1>1, <1>3 DEF StartScheduler, TableInv, Quiet, table
    <2>3. backoff'[p] = TrailingBackoff(runs', p)
        BY <2>1, <2>2, SlotsResume
    <2> QED BY <2>2, <2>3 DEF Agrees
<1>4. CASE ~StartScheduler
    <2>1. UNCHANGED backoff /\ Serving
        BY <1>4 DEF Apart, Tick, Stop, FireMaintenance, MaintenancePrunes, MaintenanceDone,
                    vars, timer, Serving
    <2>2. storageErrors = 0
        BY ErrorsCounted
    <2>3. PICK b \in Nat : b = backoff[p]
        BY DEF Rest
    <2>4. ASSUME NEW c \in Nat, Agrees(c, p)
          PROVE  Agrees(c, p)'
        <3>1. CASE runs' = runs
            BY <1>2, <2>4, <3>1, AgreesWhileSame
        <3>2. CASE runs' = Prune(runs, clock - Retention)
            <4>1. clock - Retention \in Int
                BY DEF TableInv, Types
            <4> QED BY <1>1, <1>2, <2>4, <3>2, <4>1, AgreesAfterPrune
        <3> QED BY <1>1, <3>1, <3>2
    <2>5. /\ pc[p] # "settling" => Agrees(b, p)
          /\ pc[p] = "settling" /\ result[p].outcome = "refused" => Agrees(b + 1, p)
        BY <2>1, <2>2, <2>3 DEF StreakInv
    <2>6. /\ pc[p] # "settling" => Agrees(b, p)'
          /\ pc[p] = "settling" /\ result[p].outcome = "refused" => Agrees(b + 1, p)'
        BY <2>4, <2>5
    <2>7. backoff'[p] = b
        BY <2>1, <2>3
    <2> QED BY <1>1, <2>6, <2>7 DEF Agrees
<1> QED BY <1>3, <1>4

LEMMA StreakFinishes ==
    ASSUME TableInv, Rest, FlightInv, LeadInv, StreakInv, NEW p \in Plugins, Finish(p),
           [Next]_vars
    PROVE  StreakInv'
<1>1. /\ UNCHANGED <<backoff, result, proc, storageErrors>> /\ Serving
      /\ pc[p] = "finishing" /\ pc' = [pc EXCEPT ![p] = "settling"]
    BY FinishMoves DEF Finish, timer, budget, TableInv
<1>2. Flying(p) /\ Leads(p) /\ result[p].outcome \in Answers
    BY <1>1 DEF FlightInv, LeadInv, Open
<1>3. PICK f : /\ Answered(p, f)' /\ f \notin runs
               /\ RealOf(runs', p) = RealOf(runs, p) \union {f}
               /\ \A q \in Plugins \ {p} : RealOf(runs', q) = RealOf(runs, q)
    BY <1>2, FinishAnswers
<1>4. SomeRowPruned => SomeRowPruned'
    BY PrunedStays
<1> SUFFICES ASSUME storageErrors = 0, NEW q \in Plugins
             PROVE  /\ pc'[q] # "settling" => Agrees(backoff[q], q)'
                    /\ pc'[q] = "settling" /\ result'[q].outcome = "refused" =>
                            Agrees(backoff[q] + 1, q)'
    BY <1>1 DEF StreakInv
<1>5. PICK b \in Nat : b = backoff[q] /\ b = backoff'[q]
    BY <1>1 DEF Rest
<1>6. /\ pc[q] # "settling" => Agrees(b, q)
      /\ pc[q] = "settling" /\ result[q].outcome = "refused" => Agrees(b + 1, q)
    BY <1>1, <1>5 DEF StreakInv
<1>7. CASE q = p
    <2>1. pc'[p] = "settling" /\ pc[p] # "settling"
        BY <1>1 DEF TableInv, Types
    <2>2. ASSUME result'[p].outcome = "refused"
          PROVE  Agrees(b + 1, p)'
        <3>1. f.outcome = "refused"
            BY <1>3, <2>2 DEF Answered
        <3> QED BY <1>3, <1>4, <1>6, <1>7, <2>1, <3>1, AgreesAfterRefusal
    <2> QED BY <1>5, <1>7, <2>1, <2>2 DEF Agrees
<1>8. CASE q # p
    <2>1. pc'[q] = pc[q] /\ result'[q] = result[q]
        BY <1>1, <1>8 DEF TableInv, Types
    <2>2. \A c \in Nat : Agrees(c, q) => Agrees(c, q)'
        BY <1>3, <1>4, <1>8, AgreesWhileSame
    <2>3. /\ pc[q] # "settling" => Agrees(b, q)'
          /\ pc[q] = "settling" /\ result[q].outcome = "refused" => Agrees(b + 1, q)'
        BY <1>5, <1>6, <2>2
    <2> QED BY <1>5, <2>1, <2>3 DEF Agrees
<1> QED BY <1>7, <1>8

\* Other steps change no real outcome; the handler settles the streak.
LEMMA StreakElse ==
    ASSUME TableInv, Rest, FlightInv, LeadInv, StreakInv, [Next]_vars,
           NEW p \in Plugins, Fire(p) \/ Begin(p) \/ Passing(p)
    PROVE  StreakInv'
<1> SUFFICES ASSUME storageErrors' = 0, NEW q \in Plugins
             PROVE  /\ pc'[q] # "settling" => Agrees(backoff[q], q)'
                    /\ pc'[q] = "settling" /\ result'[q].outcome = "refused" =>
                            Agrees(backoff[q] + 1, q)'
    BY DEF StreakInv
<1>1. Serving /\ storageErrors = 0
    BY ErrorsCounted, FireMoves, BeginMoves, PassingMoves DEF TableInv
<1>2. SomeRowPruned => SomeRowPruned'
    BY PrunedStays
<1>3. \A g \in Plugins : RealOf(runs', g) = RealOf(runs, g)
    <2>1. CASE Fire(p) \/ Passing(p)
        BY <2>1, FireMoves, PassingMoves DEF TableInv
    <2>2. CASE Begin(p)
        BY <2>2, BeginMoves DEF TableInv, RealOf, FinishedOf
    <2> QED BY <2>1, <2>2
<1>4. \A c \in Nat : Agrees(c, q) => Agrees(c, q)'
    BY <1>2, <1>3, AgreesWhileSame
<1>5. PICK b \in Nat : b = backoff[q]
    BY DEF Rest
<1>6. /\ pc[q] # "settling" => Agrees(b, q)
      /\ pc[q] = "settling" /\ result[q].outcome = "refused" => Agrees(b + 1, q)
    BY <1>1, <1>5 DEF StreakInv
<1>7. CASE Settle(p) /\ q = p
    <2>1. pc[p] = "settling" /\ pc'[p] # "settling"
        BY <1>7 DEF Settle, Goto, TableInv, Types
    <2>2. CASE result[p].outcome = "refused"
        <3>1. backoff'[p] = b + 1
            BY <1>5, <1>7, <2>2 DEF Settle, Rest
        <3>2. Agrees(b + 1, p)'
            BY <1>4, <1>6, <1>7, <2>1, <2>2
        <3> QED BY <1>7, <2>1, <3>1, <3>2 DEF Agrees
    <2>3. CASE result[p].outcome # "refused"
        <3>1. backoff'[p] = 0
            BY <1>7, <2>3 DEF Settle, Rest
        <3>2. PICK f : Answered(p, f)
            BY <2>1 DEF LeadInv
        <3>3. f.outcome \in Answers \ {"refused"}
            BY <2>1, <2>3, <3>2 DEF LeadInv, Answered
        <3>4. Refusals(runs, p) = {}
            BY <3>2, <3>3, AnswerEnds
        <3>5. TrailingBackoff(runs', p) = 0
            BY <1>3, <3>4, HealthIsReal, StreakType, FS_EmptySet
        <3> QED BY <1>7, <2>1, <3>1, <3>5 DEF Agrees
    <2> QED BY <2>2, <2>3
<1>8. CASE ~(Settle(p) /\ q = p)
    <2>1. ~HandleEscaped(p)
        BY <1>1 DEF HandleEscaped, LeadInv
    <2>2. backoff'[q] = backoff[q]
        BY <1>8, <2>1 DEF Fire, Begin, Passing, BeginFails, CollectReturns, CollectRaises,
                          StoreAndReconcile, FinishFails, Settle, HooksDone, timer, Rest
    <2>3. pc'[q] = "settling" <=> pc[q] = "settling"
        BY <1>8, <2>1 DEF Fire, Begin, Passing, BeginFails, CollectReturns, CollectRaises,
                          StoreAndReconcile, FinishFails, Settle, HooksDone, Goto, TableInv, Types
    <2>4. pc[q] = "settling" => result'[q] = result[q]
        BY <1>8, <2>1 DEF Fire, Begin, Passing, BeginFails, CollectReturns, CollectRaises,
                          StoreAndReconcile, FinishFails, Settle, HooksDone, TableInv, Types
    <2>5. /\ pc[q] # "settling" => Agrees(b, q)'
          /\ pc[q] = "settling" /\ result[q].outcome = "refused" => Agrees(b + 1, q)'
        BY <1>4, <1>6
    <2>6. backoff'[q] = b
        BY <1>5, <2>2
    <2> QED BY <2>3, <2>4, <2>5, <2>6 DEF Agrees
<1> QED BY <1>7, <1>8

LEMMA StepStreak ==
    ASSUME TableInv, Rest, FlightInv, LeadInv, StreakInv, [Next]_vars
    PROVE  StreakInv'
<1>1. CASE Recover \/ Crash \/ Exit
    <2>1. ~Serving'
        BY <1>1 DEF Recover, Crash, Exit, LoseMemory, Serving
    <2> QED BY <2>1 DEF StreakInv
<1> QED BY <1>1, StreakApart, StreakFinishes, StreakElse, Steps

LEMMA StreaksHold ==
    ASSUME MaxPoll <= Retention
    PROVE  Spec => [](TableInv /\ Rest /\ FlightInv /\ LeadInv /\ StreakInv)
<1> DEFINE I == TableInv /\ Rest /\ FlightInv /\ LeadInv /\ StreakInv
<1>1. Init => I
    BY InitTable DEF Init, Rest, FlightInv, Open, LeadInv, StreakInv, Serving
<1>2. I /\ [Next]_vars => I'
    BY StepTable, StepRest, StepFlight, StepLead, StepStreak
<1> QED BY <1>1, <1>2, PTL DEF Spec

\* The streak the scheduler backs off by is the one that trailing_backoff_count
\* reads from the table, for any plugins, intervals, crashes and stops: every
\* restart resumes the streak where it was.  It is longer only after a prune,
\* when what is left of the history is one unbroken streak.
THEOREM StreakCorrect ==
    ASSUME MaxPoll <= Retention
    PROVE  Spec => []StreakAgrees
<1>1. StreakInv => StreakAgrees
    BY DEF StreakInv, StreakAgrees, Agrees, Serving
<1> QED BY <1>1, StreaksHold, PTL

-----------------------------------------------------------------------------
\* Refusals are honoured, when the retention is no shorter than the longest backoff

\* Another row of the plugin started in the same second.
Tied(r) == \E s \in runs \ {r} : s.plugin = r.plugin /\ s.started = r.started

\* When the backoff of r, the newest refusal, is over.
Ends(p, r) == r.started + BackoffDelay(p, r.retryAfter, TrailingBackoff(runs, p))

\* Until the backoff is over nothing of the plugin is newer than the refusal,
\* nothing of it is under way, and its job is due when the backoff ends.
Waits(p, r) ==
    /\ Top(p, r) /\ pc[p] \notin Open \union {"queued"}
    /\ proc = "up" /\ pc[p] \in {"idle", "hooks"} => due[p] >= Ends(p, r)

Heard(p, r) == r \in LatestFinished(runs, p) /\ r.outcome = "refused"

HonourInv ==
    storageErrors = 0 =>
        \A p \in Plugins : \A r \in runs :
            Heard(p, r) => clock >= Ends(p, r) \/ Tied(r) \/ Waits(p, r)

LEMMA HeardFacts ==
    ASSUME TableInv, NEW p \in Plugins, NEW r, Heard(p, r)
    PROVE  /\ r \in runs /\ r.plugin = p /\ r \in Refusals(runs, p)
           /\ r.started \in Nat /\ r.id \in Nat
           /\ TrailingBackoff(runs, p) \in Nat /\ TrailingBackoff(runs, p) > 0
           /\ BackoffDelay(p, r.retryAfter, TrailingBackoff(runs, p)) \in Nat
           /\ Ends(p, r) \in Nat /\ Ends(p, r) <= r.started + Cap
<1>1. /\ r \in RealOf(runs, p) /\ r.outcome = "refused"
      /\ \A s \in RealOf(runs, p) \ {r} : Newer(r, s)
    BY DEF Heard, LatestFinished, Newest
<1>2. r \in runs /\ r.plugin = p /\ r \in Refusals(runs, p)
    BY <1>1 DEF RealOf, FinishedOf, Refusals
<1>3. r.started \in Nat /\ r.id \in Nat /\ r.retryAfter \in Nat \union {None}
    BY <1>2 DEF TableInv, Types, Row
<1>4. /\ IsFiniteSet(Refusals(runs, p))
      /\ TrailingBackoff(runs, p) = Cardinality(Refusals(runs, p))
      /\ TrailingBackoff(runs, p) \in Nat
    BY StreakType
<1>5. TrailingBackoff(runs, p) # 0
    BY <1>2, <1>4, FS_EmptySet
<1>6. /\ BackoffDelay(p, r.retryAfter, TrailingBackoff(runs, p)) \in Nat
      /\ BackoffDelay(p, r.retryAfter, TrailingBackoff(runs, p)) <= Cap
    BY <1>3, <1>4, DelayType
<1> QED BY <1>2, <1>3, <1>4, <1>5, <1>6 DEF Ends

\* A step that leaves a plugin's real outcomes and its newest row alone, and
\* takes up no poll of it, keeps the refusal honoured.
LEMMA HonourFrame ==
    ASSUME TableInv, NEW p \in Plugins, NEW r, Heard(p, r)', RealOf(runs', p) = RealOf(runs, p),
           clock' >= clock, clock' \in Nat,
           Heard(p, r) => clock >= Ends(p, r) \/ Tied(r) \/ Waits(p, r),
           Tied(r) => Tied(r)',
           Waits(p, r) => clock >= Ends(p, r) \/ Waits(p, r)'
    PROVE  (clock >= Ends(p, r) \/ Tied(r) \/ Waits(p, r))'
<1>1. TrailingBackoff(runs', p) = TrailingBackoff(runs, p)
      /\ LatestFinished(runs', p) = LatestFinished(runs, p)
    BY HealthIsReal
<1>2. Heard(p, r) /\ Ends(p, r)' = Ends(p, r)
    BY <1>1 DEF Heard, Ends
<1>3. Ends(p, r) \in Nat /\ clock \in Nat
    BY <1>2, HeardFacts DEF TableInv, Types
<1> QED BY <1>2, <1>3

LEMMA HonourPrunes ==
    ASSUME Cap <= Retention, TableInv, Rest, HonourInv, MaintenancePrunes, storageErrors = 0,
           runs' = Prune(runs, clock - Retention)
    PROVE  HonourInv'
<1>1. UNCHANGED <<clock, proc, pc, due>>
    BY DEF MaintenancePrunes, poll, timer
<1> SUFFICES ASSUME NEW p \in Plugins, NEW r \in runs', Heard(p, r)'
             PROVE  (clock >= Ends(p, r) \/ Tied(r) \/ Waits(p, r))'
    BY DEF HonourInv
<1>2. clock \in Nat /\ clock - Retention \in Int /\ runs' \subseteq runs
    BY DEF TableInv, Types, Prune
<1>3. /\ Refusals(runs', p) \subseteq Refusals(runs, p)
      /\ LatestFinished(runs', p) \subseteq LatestFinished(runs, p)
    BY <1>2, PruneStreak
<1>4. Heard(p, r)
    BY <1>3 DEF Heard
<1>5. /\ r \in runs /\ r.plugin = p /\ r.started \in Nat
      /\ TrailingBackoff(runs, p) \in Nat
      /\ Ends(p, r) \in Nat /\ Ends(p, r) <= r.started + Cap
    BY <1>4, HeardFacts
<1>6. /\ TrailingBackoff(runs', p) \in Nat
      /\ TrailingBackoff(runs', p) <= TrailingBackoff(runs, p)
    <2>1. IsFiniteSet(runs')
        BY <1>2, FiniteTable, FS_Subset
    <2> QED BY <1>3, <2>1, FiniteTable, CountType, FS_Subset
<1>7. Ends(p, r)' \in Nat /\ Ends(p, r)' <= Ends(p, r)
    <2>1. r.retryAfter \in Nat \union {None}
        BY <1>5 DEF TableInv, Types, Row
    <2>2. /\ BackoffDelay(p, r.retryAfter, TrailingBackoff(runs', p)) \in Nat
          /\ BackoffDelay(p, r.retryAfter, TrailingBackoff(runs, p)) \in Nat
          /\ BackoffDelay(p, r.retryAfter, TrailingBackoff(runs', p))
                <= BackoffDelay(p, r.retryAfter, TrailingBackoff(runs, p))
        BY <1>5, <1>6, <2>1, DelayGrows
    <2> QED BY <1>5, <2>2 DEF Ends
<1>8. CASE clock >= Ends(p, r)
    BY <1>1, <1>2, <1>5, <1>7, <1>8
<1>9. CASE Tied(r)
    <2>1. PICK s \in runs \ {r} : s.plugin = r.plugin /\ s.started = r.started
        BY <1>9 DEF Tied
    <2>2. CASE s \in runs'
        BY <2>1, <2>2 DEF Tied
    <2>3. CASE s \notin runs'
        <3>1. ~(r.started >= clock - Retention)
            BY <2>1, <2>3 DEF Prune
        <3>2. clock >= Ends(p, r)
            BY <1>2, <1>5, <3>1
        <3> QED BY <1>8, <3>2
    <2> QED BY <2>2, <2>3
<1>10. CASE Waits(p, r)
    <2>1. Top(p, r)'
        BY <1>2, <1>10, TopStays DEF Waits
    <2>2. proc = "up" /\ pc[p] \in {"idle", "hooks"} => due[p] >= Ends(p, r)'
        <3> SUFFICES ASSUME proc = "up" /\ pc[p] \in {"idle", "hooks"}
                     PROVE  due[p] >= Ends(p, r)'
            OBVIOUS
        <3>1. due[p] >= Ends(p, r) /\ due[p] \in Nat
            BY <1>10 DEF Waits, Rest
        <3> QED BY <1>5, <1>7, <3>1
    <2> QED BY <1>1, <1>10, <2>1, <2>2 DEF Waits
<1> QED BY <1>4, <1>5, <1>8, <1>9, <1>10 DEF HonourInv

\* After a restart the job is due when the newest row's backoff ends: the
\* refusal's own, unless a newer poll has waited for that already.
LEMMA HonourResumes ==
    ASSUME TableInv, Rest, HonourInv, StartScheduler, storageErrors = 0
    PROVE  HonourInv'
<1>1. UNCHANGED <<clock, runs, pc, storageErrors>>
    BY DEF StartScheduler, table, poll, budget
<1> SUFFICES ASSUME NEW p \in Plugins, NEW r \in runs, Heard(p, r)
             PROVE  (clock >= Ends(p, r) \/ Tied(r) \/ Waits(p, r))'
    BY <1>1 DEF HonourInv, Heard
<1>2. Ends(p, r)' = Ends(p, r) /\ (Tied(r) <=> Tied(r)') /\ (Top(p, r) <=> Top(p, r)')
    BY <1>1 DEF Ends, Tied, Top
<1>3. /\ r.plugin = p /\ r.started \in Nat /\ r.id \in Nat
      /\ TrailingBackoff(runs, p) > 0 /\ Ends(p, r) \in Nat
    BY HeardFacts
<1>4. clock >= Ends(p, r) \/ Tied(r) \/ Waits(p, r)
    BY DEF HonourInv
<1>5. CASE Waits(p, r) /\ ~Tied(r)
    <2>1. PICK slot \in [Plugins -> UNION {InitialSlots(q, runs, clock) : q \in Plugins}] :
            /\ \A q \in Plugins : slot[q] \in InitialSlots(q, runs, clock)
            /\ due' = [q \in Plugins |-> slot[q].at]
        BY DEF StartScheduler
    <2>2. PICK q \in LatestRuns(runs, p) :
            slot[p].at = q.started + BackoffDelay(p, q.retryAfter, TrailingBackoff(runs, p))
        BY <1>3, <2>1, SlotsResume
    <2>3. q \in runs /\ q.plugin = p /\ q.started >= r.started /\ q.started \in Nat
        BY <1>3, <2>2 DEF LatestRuns, TableInv, Types, Row
    <2>4. q = r
        <3>1. q = r \/ Newer(r, q)
            BY <1>5, <2>3 DEF Waits, Top
        <3>2. q = r \/ q.started = r.started
            BY <1>3, <2>3, <3>1 DEF Newer
        <3> QED BY <1>3, <1>5, <2>3, <3>2 DEF Tied
    <2>5. due'[p] = Ends(p, r)
        BY <2>1, <2>2, <2>4 DEF Ends
    <2> QED BY <1>1, <1>2, <1>3, <1>5, <2>5 DEF Waits
<1> QED BY <1>1, <1>2, <1>4, <1>5

LEMMA HonourApart ==
    ASSUME Cap <= Retention, TableInv, Rest, HonourInv, Apart, storageErrors' = 0, [Next]_vars
    PROVE  HonourInv'
<1>1. storageErrors = 0
    BY ErrorsCounted
<1>2. CASE MaintenancePrunes
    <2>1. ~MayStorageFail
        BY <1>1 DEF MayStorageFail
    <2> QED BY <1>1, <1>2, <2>1, HonourPrunes DEF MaintenancePrunes
<1>3. CASE Apart /\ ~MaintenancePrunes /\ ~StartScheduler
    <2>1. UNCHANGED <<runs, pc, due>> /\ (proc' = "up" => proc = "up")
        BY <1>3 DEF Apart, Tick, Stop, FireMaintenance, MaintenanceDone, vars, table, poll, timer
    <2>2. clock' \in {clock, clock + 1} /\ clock \in Nat
        BY ApartMoves DEF TableInv, Types
    <2> SUFFICES ASSUME NEW p \in Plugins, NEW r \in runs, Heard(p, r)
                 PROVE  (clock >= Ends(p, r) \/ Tied(r) \/ Waits(p, r))'
        BY <2>1 DEF HonourInv, Heard
    <2>3. Heard(p, r)' /\ (Tied(r) => Tied(r)') /\ (Waits(p, r) => Waits(p, r)')
        BY <2>1 DEF Heard, Tied, Waits, Top, Ends
    <2>4. clock >= Ends(p, r) \/ Tied(r) \/ Waits(p, r)
        BY <1>1 DEF HonourInv
    <2> QED BY <2>1, <2>2, <2>3, <2>4, HonourFrame
<1> QED BY <1>1, <1>2, <1>3, HonourResumes

\* Rows keep their ids and starts through a restart and a crash.
LEMMA HonourRestarts ==
    ASSUME TableInv, HonourInv, storageErrors = 0, Recover \/ Crash \/ Exit
    PROVE  HonourInv'
<1>1. clock' = clock /\ proc' # "up" /\ \A p \in Plugins : pc'[p] = "idle"
    BY DEF Recover, Crash, Exit, LoseMemory, poll, TableInv, Quiet
<1>2. clock \in Nat /\ runs \in SUBSET Row
    BY DEF TableInv, Types
<1>3. runs' = runs \/ runs' = CloseInterrupted(runs, clock)
    BY DEF Recover, Crash, Exit, table
<1>4. \A p \in Plugins : RealOf(runs', p) = RealOf(runs, p)
    BY <1>2, <1>3, CloseKeepsReal
<1>5. /\ \A s \in runs' : \E r \in runs : SameRun(r, s)
      /\ \A r \in runs : \E s \in runs' : SameRun(r, s)
      /\ OwnIds(runs')
    <2>1. CASE runs' = runs
        BY <2>1 DEF SameRun, TableInv, RowsOrdered
    <2>2. CASE runs' = CloseInterrupted(runs, clock)
        BY <1>2, <2>2, CloseFacts DEF TableInv, RowsOrdered
    <2> QED BY <1>3, <2>1, <2>2
<1> SUFFICES ASSUME NEW p \in Plugins, NEW r \in runs', Heard(p, r)'
             PROVE  (clock >= Ends(p, r) \/ Tied(r) \/ Waits(p, r))'
    BY DEF HonourInv
<1>6. Heard(p, r)
    BY <1>4, HealthIsReal DEF Heard
<1>7. r \in runs /\ r.plugin = p
    BY <1>6, HeardFacts
<1>8. Tied(r) => Tied(r)'
    <2> SUFFICES ASSUME NEW s \in runs \ {r}, s.plugin = r.plugin, s.started = r.started
                 PROVE  Tied(r)'
        BY DEF Tied
    <2>1. PICK q \in runs' : SameRun(s, q)
        BY <1>5
    <2>2. s.id # r.id
        BY <1>7 DEF TableInv, RowsOrdered, OwnIds
    <2> QED BY <2>1, <2>2 DEF SameRun, Tied
<1>9. Top(p, r) => Top(p, r)'
    <2> SUFFICES ASSUME Top(p, r), NEW s \in runs', s.plugin = p
                 PROVE  s = r \/ Newer(r, s)
        BY <1>7 DEF Top
    <2>1. PICK q \in runs : SameRun(q, s)
        BY <1>5
    <2>2. q = r \/ Newer(r, q)
        BY <2>1 DEF Top, SameRun
    <2>3. CASE q = r
        BY <1>5, <2>1, <2>3 DEF SameRun, OwnIds
    <2>4. CASE Newer(r, q)
        BY <2>1, <2>4 DEF SameRun, Newer
    <2> QED BY <2>2, <2>3, <2>4
<1>10. Waits(p, r) => Waits(p, r)'
    BY <1>1, <1>9 DEF Waits, Open
<1>11. clock >= Ends(p, r) \/ Tied(r) \/ Waits(p, r)
    BY <1>6, <1>7 DEF HonourInv
<1> QED BY <1>1, <1>2, <1>4, <1>8, <1>10, <1>11, HonourFrame

\* The answer just recorded is the newest row, so a refusal heard is that one.
LEMMA HeardIsAnswer ==
    ASSUME TableInv, NEW p \in Plugins, NEW f, Answered(p, f), f.outcome \in Answers,
           NEW r, Heard(p, r)
    PROVE  r = f
<1>1. f \in RealOf(runs, p)
    BY DEF Answered, Top, RealOf, FinishedOf, Answers
<1>2. r \in runs /\ r.plugin = p /\ (r = f \/ Newer(r, f))
    BY <1>1, HeardFacts DEF Heard, LatestFinished, Newest
<1>3. r = f \/ Newer(f, r)
    BY <1>2 DEF Answered, Top
<1>4. f.started \in Nat /\ f.id \in Nat /\ r.started \in Nat /\ r.id \in Nat
    BY <1>2 DEF Answered, Top, TableInv, Types, Row
<1> QED BY <1>2, <1>3, <1>4 DEF Newer

\* A refusal that finish_run has just recorded waits for its handler.
LEMMA HonourFinishes ==
    ASSUME TableInv, TableInv', Rest, FlightInv, LeadInv, HonourInv, storageErrors = 0,
           NEW p \in Plugins, Finish(p)
    PROVE  HonourInv'
<1>1. /\ UNCHANGED <<clock, proc, due, result>>
      /\ pc[p] = "finishing" /\ pc' = [pc EXCEPT ![p] = "settling"]
    BY FinishMoves DEF Finish, timer, TableInv
<1>2. Flying(p) /\ Leads(p) /\ result[p].outcome \in Answers
    BY <1>1 DEF FlightInv, LeadInv, Open
<1>3. PICK f : /\ Answered(p, f)' /\ f \notin runs
               /\ RealOf(runs', p) = RealOf(runs, p) \union {f}
               /\ \A q \in Plugins \ {p} : RealOf(runs', q) = RealOf(runs, q)
               /\ \A q \in Plugins \ {p} : \A s : s.plugin = q => (s \in runs' <=> s \in runs)
    BY <1>2, FinishAnswers
<1> SUFFICES ASSUME NEW q \in Plugins, NEW r \in runs', Heard(q, r)'
             PROVE  (clock >= Ends(q, r) \/ Tied(r) \/ Waits(q, r))'
    BY DEF HonourInv
<1>4. r \in RealOf(runs', q) /\ r.plugin = q
    BY DEF Heard, LatestFinished, Newest, RealOf, FinishedOf
<1>5. CASE q = p
    <2>1. r = f \/ (Newer(r, f) /\ Newer(f, r))
        BY <1>3, <1>4, <1>5 DEF Heard, LatestFinished, Newest, Answered, Top
    <2>2. f.started \in Nat /\ f.id \in Nat /\ r.started \in Nat /\ r.id \in Nat
        BY <1>3 DEF Answered, Top, TableInv, Types, Row
    <2>3. r = f
        BY <2>1, <2>2 DEF Newer
    <2>4. pc'[p] = "settling"
        BY <1>1 DEF TableInv, Types
    <2> QED BY <1>3, <1>5, <2>3, <2>4 DEF Waits, Answered, Open
<1>6. CASE q # p
    <2>1. pc'[q] = pc[q]
        BY <1>1, <1>6 DEF TableInv, Types
    <2>2. RealOf(runs', q) = RealOf(runs, q)
        BY <1>3, <1>6
    <2>3. Heard(q, r) /\ r \in runs
        <3>1. Heard(q, r)
            BY <2>2, HealthIsReal DEF Heard
        <3> QED BY <1>3, <1>4, <1>6, <3>1
    <2>4. clock >= Ends(q, r) \/ Tied(r) \/ Waits(q, r)
        BY <2>3 DEF HonourInv
    <2>5. Tied(r) => Tied(r)'
        BY <1>3, <1>4, <1>6 DEF Tied
    <2>6. Ends(q, r)' = Ends(q, r)
        BY <2>2, HealthIsReal DEF Ends
    <2>7. Waits(q, r) => Waits(q, r)'
        BY <1>1, <1>3, <1>6, <2>1, <2>6 DEF Waits, Top
    <2> QED BY <1>1, <2>2, <2>4, <2>5, <2>7, HonourFrame DEF TableInv, Types
<1> QED BY <1>5, <1>6

\* The timer fires a job once its backoff is over.
LEMMA HonourFires ==
    ASSUME TableInv, Rest, HonourInv, storageErrors = 0, NEW p \in Plugins, Fire(p)
    PROVE  HonourInv'
<1>1. /\ UNCHANGED <<clock, proc, runs>> /\ due[p] <= clock
      /\ \A q \in Plugins \ {p} : due'[q] = due[q] /\ pc'[q] = pc[q]
      /\ pc'[p] = pc[p] \/ pc[p] = "idle"
    BY DEF Fire, table, Rest, TableInv, Types
<1> SUFFICES ASSUME NEW q \in Plugins, NEW r \in runs, Heard(q, r)
             PROVE  (clock >= Ends(q, r) \/ Tied(r) \/ Waits(q, r))'
    BY <1>1 DEF HonourInv, Heard
<1>2. Heard(q, r)' /\ Ends(q, r)' = Ends(q, r) /\ (Tied(r) <=> Tied(r)') /\ (Top(q, r) <=> Top(q, r)')
    BY <1>1 DEF Heard, Ends, Tied, Top
<1>3. clock >= Ends(q, r) \/ Tied(r) \/ Waits(q, r)
    BY DEF HonourInv
<1>4. clock \in Nat /\ due[q] \in Nat /\ Ends(q, r) \in Nat
    BY HeardFacts DEF TableInv, Types, Rest
<1>5. CASE q # p
    BY <1>1, <1>2, <1>3, <1>5 DEF Waits
<1>6. CASE q = p
    <2>1. proc = "up"
        BY DEF Fire
    <2>2. Waits(p, r) => clock >= Ends(p, r) \/ pc[p] \notin {"idle", "hooks"}
        BY <1>1, <1>4, <1>6, <2>1 DEF Waits
    <2> QED BY <1>1, <1>2, <1>3, <1>6, <2>2 DEF Waits
<1> QED BY <1>5, <1>6

\* A poll that begins was queued: nothing of its plugin was waiting.
LEMMA HonourBegins ==
    ASSUME TableInv, Rest, HonourInv, storageErrors = 0, NEW p \in Plugins, Begin(p)
    PROVE  HonourInv'
<1> DEFINE new == StartRow(nextId, p, clock)
<1>1. /\ runs' = runs \union {new} /\ new.plugin = p /\ new.finished = None
      /\ UNCHANGED <<clock, proc, due>> /\ pc[p] = "queued"
      /\ pc' = [pc EXCEPT ![p] = "collecting"]
    BY BeginMoves DEF TableInv, Begin, timer
<1> HIDE DEF new
<1>2. \A q \in Plugins : RealOf(runs', q) = RealOf(runs, q)
    BY <1>1 DEF RealOf, FinishedOf
<1> SUFFICES ASSUME NEW q \in Plugins, NEW r \in runs', Heard(q, r)'
             PROVE  (clock >= Ends(q, r) \/ Tied(r) \/ Waits(q, r))'
    BY DEF HonourInv
<1>3. Heard(q, r) /\ r \in runs
    <2>1. Heard(q, r)
        BY <1>2, HealthIsReal DEF Heard
    <2> QED BY <2>1, HeardFacts
<1>4. clock >= Ends(q, r) \/ Tied(r) \/ Waits(q, r)
    BY <1>3 DEF HonourInv
<1>5. Tied(r) => Tied(r)'
    BY <1>1 DEF Tied
<1>6. Ends(q, r)' = Ends(q, r)
    BY <1>2, HealthIsReal DEF Ends
<1>7. Waits(q, r) => Waits(q, r)'
    <2>1. Waits(q, r) => q # p
        BY <1>1 DEF Waits
    <2>2. q # p => pc'[q] = pc[q]
        BY <1>1 DEF TableInv, Types
    <2> QED BY <1>1, <1>6, <2>1, <2>2 DEF Waits, Top
<1>8. clock' >= clock /\ clock' \in Nat
    BY <1>1 DEF TableInv, Types
<1>9. RealOf(runs', q) = RealOf(runs, q)
    BY <1>2
<1> QED BY <1>4, <1>5, <1>7, <1>8, <1>9, HonourFrame

\* The handler moves the job to the end of the backoff: the streak it counts
\* with is no shorter than the table's, and it counts from no earlier time.
LEMMA HonourSettles ==
    ASSUME TableInv, Rest, LeadInv, StreakInv, HonourInv, storageErrors = 0,
           NEW p \in Plugins, Settle(p)
    PROVE  HonourInv'
<1>1. /\ UNCHANGED <<clock, proc, runs>> /\ Serving /\ pc[p] = "settling"
      /\ \A q \in Plugins \ {p} : due'[q] = due[q] /\ pc'[q] = pc[q]
      /\ pc'[p] \in {"hooks", "idle"}
    BY DEF Settle, table, Goto, Rest, TableInv, Types
<1> SUFFICES ASSUME NEW q \in Plugins, NEW r \in runs, Heard(q, r)
             PROVE  (clock >= Ends(q, r) \/ Tied(r) \/ Waits(q, r))'
    BY <1>1 DEF HonourInv, Heard
<1>2. Ends(q, r)' = Ends(q, r) /\ (Tied(r) <=> Tied(r)') /\ (Top(q, r) <=> Top(q, r)')
    BY <1>1 DEF Ends, Tied, Top
<1>3. clock >= Ends(q, r) \/ Tied(r) \/ Waits(q, r)
    BY DEF HonourInv
<1>4. CASE q # p
    BY <1>1, <1>2, <1>3, <1>4 DEF Waits
<1>5. CASE q = p
    <2>1. PICK f : Answered(p, f)
        BY <1>1 DEF LeadInv
    <2>2. f.outcome \in Answers /\ f.outcome = result[p].outcome
        BY <1>1, <2>1 DEF LeadInv, Answered
    <2>3. r = f /\ Top(p, r)
        BY <1>5, <2>1, <2>2, HeardIsAnswer DEF Answered
    <2>4. result[p].outcome = "refused"
        BY <2>2, <2>3 DEF Heard
    <2>5. CASE proc = "up"
        <3>1. PICK b \in Nat : b = backoff[p]
            BY DEF Rest
        <3>2. due' = [due EXCEPT ![p] = clock + BackoffDelay(p, result[p].retryAfter, b + 1)]
            BY <2>4, <2>5, <3>1 DEF Settle, Rest
        <3>3. due'[p] = clock + BackoffDelay(p, r.retryAfter, b + 1)
            BY <2>1, <2>3, <3>2 DEF Answered, Rest
        <3>4. TrailingBackoff(runs, p) \in Nat /\ TrailingBackoff(runs, p) <= b + 1
            <4>1. Agrees(b + 1, p)
                BY <1>1, <2>4, <3>1 DEF StreakInv
            <4> QED BY <1>5, <4>1, HeardFacts DEF Agrees
        <3>5. /\ BackoffDelay(p, r.retryAfter, TrailingBackoff(runs, p)) \in Nat
              /\ BackoffDelay(p, r.retryAfter, b + 1) \in Nat
              /\ BackoffDelay(p, r.retryAfter, TrailingBackoff(runs, p))
                    <= BackoffDelay(p, r.retryAfter, b + 1)
            <4>1. r.retryAfter \in Nat \union {None} /\ b + 1 \in Nat
                BY DEF TableInv, Types, Row
            <4> QED BY <3>4, <4>1, DelayGrows
        <3>6. r.started \in Nat /\ clock \in Nat /\ r.started <= clock
            BY DEF TableInv, Types, RowsOrdered, Row
        <3>7. due'[p] >= Ends(p, r)
            BY <3>3, <3>5, <3>6 DEF Ends
        <3> QED BY <1>1, <1>2, <1>5, <2>3, <3>7 DEF Waits, Open
    <2>6. CASE proc # "up"
        BY <1>1, <1>2, <1>5, <2>3, <2>6 DEF Waits, Open
    <2> QED BY <2>5, <2>6
<1> QED BY <1>4, <1>5

LEMMA HonourPasses ==
    ASSUME TableInv, Rest, HonourInv, storageErrors = 0, NEW p \in Plugins,
           CollectReturns(p) \/ CollectRaises(p) \/ StoreAndReconcile(p) \/ HooksDone(p)
    PROVE  HonourInv'
<1>1. /\ UNCHANGED <<clock, proc, runs, due>>
      /\ \A q \in Plugins \ {p} : pc'[q] = pc[q]
      /\ pc[p] \in Open \/ (pc[p] = "hooks" /\ pc'[p] = "idle")
    BY DEF CollectReturns, CollectRaises, StoreAndReconcile, HooksDone, table, timer, Goto, Open,
           TableInv, Types
<1> SUFFICES ASSUME NEW q \in Plugins, NEW r \in runs, Heard(q, r)
             PROVE  (clock >= Ends(q, r) \/ Tied(r) \/ Waits(q, r))'
    BY <1>1 DEF HonourInv, Heard
<1>2. Ends(q, r)' = Ends(q, r) /\ (Tied(r) <=> Tied(r)') /\ (Top(q, r) <=> Top(q, r)')
    BY <1>1 DEF Ends, Tied, Top
<1>3. Waits(q, r) => Waits(q, r)'
    BY <1>1, <1>2 DEF Waits, Open
<1>4. clock >= Ends(q, r) \/ Tied(r) \/ Waits(q, r)
    BY DEF HonourInv
<1> QED BY <1>1, <1>2, <1>3, <1>4

LEMMA StepHonour ==
    ASSUME Cap <= Retention, TableInv, Rest, FlightInv, LeadInv, StreakInv, HonourInv,
           [Next]_vars
    PROVE  HonourInv'
<1> SUFFICES ASSUME storageErrors' = 0 PROVE HonourInv'
    BY DEF HonourInv
<1>1. storageErrors = 0
    BY ErrorsCounted
<1>2. TableInv'
    BY StepTable
<1>3. ASSUME NEW p \in Plugins, Passing(p)
      PROVE  \/ CollectReturns(p) \/ CollectRaises(p) \/ StoreAndReconcile(p) \/ HooksDone(p)
             \/ Settle(p)
    <2>1. ~(BeginFails(p) \/ FinishFails(p))
        BY NothingEscapes
    <2>2. ~HandleEscaped(p)
        BY <1>1 DEF HandleEscaped, LeadInv
    <2> QED BY <1>3, <2>1, <2>2 DEF Passing
<1>4. CASE Recover \/ Crash \/ Exit
    BY <1>1, <1>4, HonourRestarts
<1>5. CASE Apart
    BY <1>5, HonourApart
<1>6. CASE \E p \in Plugins : Fire(p) \/ Begin(p) \/ Finish(p) \/ Passing(p)
    BY <1>1, <1>2, <1>3, <1>6, HonourFires, HonourBegins, HonourFinishes, HonourSettles, HonourPasses
<1> QED BY <1>4, <1>5, <1>6, Steps

LEMMA HonourHolds ==
    ASSUME MaxPoll <= Retention, Cap <= Retention
    PROVE  Spec => [](TableInv /\ Rest /\ FlightInv /\ LeadInv /\ StreakInv /\ HonourInv)
<1> DEFINE I == TableInv /\ Rest /\ FlightInv /\ LeadInv /\ StreakInv /\ HonourInv
<1>1. Init => I
    BY InitTable DEF Init, Rest, FlightInv, Open, LeadInv, StreakInv, HonourInv, Serving
<1>2. I /\ [Next]_vars => I'
    BY StepTable, StepRest, StepFlight, StepLead, StepStreak, StepHonour
<1> QED BY <1>1, <1>2, PTL DEF Spec

\* No poll starts inside the backoff of the newest refusal on record, for any
\* plugins, intervals, Retry-After values, crashes, stops and late timers, when
\* plugin_runs_retention_days covers the longest backoff, which is one day: a
\* prune that takes rows any sooner could take the one that a restart counts by.
THEOREM BackoffHonoured ==
    ASSUME MaxPoll <= Retention, Cap <= Retention
    PROVE  Spec => RefusalHonoured
<1> DEFINE I == TableInv /\ HonourInv
           A == storageErrors = 0 => \A p \in Plugins : pc[p] = "queued" /\ pc'[p] = "collecting" /\ DistinctStarts(p) =>
                  \A r \in LatestFinished(runs, p) : r.outcome = "refused" =>
                      clock >= r.started + BackoffDelay(p, r.retryAfter, TrailingBackoff(runs, p))
<1>1. I => A
    <2> SUFFICES ASSUME I, storageErrors = 0, NEW p \in Plugins, pc[p] = "queued",
                        DistinctStarts(p), NEW r \in LatestFinished(runs, p),
                        r.outcome = "refused"
                 PROVE  clock >= Ends(p, r)
        BY DEF Ends
    <2>1. Heard(p, r) /\ r \in runs /\ r.plugin = p
        <3>1. Heard(p, r)
            BY DEF Heard
        <3> QED BY <3>1, HeardFacts
    <2>2. ~Tied(r)
        BY <2>1 DEF Tied, DistinctStarts
    <2>3. ~Waits(p, r)
        BY DEF Waits
    <2> QED BY <2>1, <2>2, <2>3 DEF HonourInv
<1>2. I => [A]_vars
    BY <1>1
<1> QED BY <1>2, HonourHolds, PTL DEF RefusalHonoured
=============================================================================
