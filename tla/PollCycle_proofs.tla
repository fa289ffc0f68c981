-------------------------- MODULE PollCycle_proofs --------------------------
(***************************************************************************)
(* Proofs about PollCycle, for any plugins, intervals, pool, retention and *)
(* number of crashes, stops and storage failures: a row without an outcome *)
(* has a poll that will write it, the row of a poll in flight is there for *)
(* finish_run, "polling" is reported while one is, and retention leaves    *)
(* the run that a restart counts from.                                     *)
(***************************************************************************)
EXTENDS PollCycle, NumberLemmas, TLAPS

USE IntervalAssumption, CapAssumption, DelayAssumption, RetentionAssumption, BoundAssumption

-----------------------------------------------------------------------------
\* The parts of the inductive invariant.

Types ==
    /\ clock \in Nat /\ nextId \in Nat
    /\ proc \in {"down", "recovered", "up", "stopping"}
    /\ runs \in SUBSET Row
    /\ pc \in [Plugins -> Busy \union {"idle", "queued"}]
    /\ run \in [Plugins -> Nat]
    /\ since \in [Plugins -> Nat]
    /\ result \in [Plugins -> Results]

OwnIds(rows) == \A r, s \in rows : r.id = s.id => r = s

\* Rows are told apart by their id, and none is of the future.
RowsOrdered ==
    /\ \A r \in runs : r.id < nextId /\ r.started <= clock
    /\ OwnIds(runs)

\* A process that does not serve polls nothing.
Quiet == proc \in {"down", "recovered"} => \A p \in Plugins : pc[p] = "idle"

TableInv == Types /\ RowsOrdered /\ Quiet /\ UnfinishedRowsAccounted

\* A poll in flight is no older than MaxPoll, and has the plugin's newest row.
Flying(p) ==
    /\ since[p] <= clock /\ clock <= since[p] + MaxPoll
    /\ \A r \in runs : r.plugin = p => r.started <= since[p]
    /\ \E r \in runs : /\ r.id = run[p] /\ r.plugin = p
                       /\ r.finished = None /\ r.started = since[p]

FlightInv == \A p \in Plugins : pc[p] \in Open => Flying(p)

-----------------------------------------------------------------------------
\* What the statements do to the rows.

\* A row after a statement, and the row it was before.
SameRun(r, s) == s.id = r.id /\ s.plugin = r.plugin /\ s.started = r.started

\* Of the rows of `before`, those with the id now have an outcome.
Closed(before, after, id) ==
    /\ after \in SUBSET Row
    /\ OwnIds(before) => OwnIds(after)
    /\ \A s \in after : \E r \in before :
           /\ SameRun(r, s)
           /\ s.id # id => s = r
           /\ s.id = id => s.finished # None
    /\ \A r \in before : \E s \in after :
           /\ SameRun(r, s)
           /\ s.id # id => s = r
           /\ s.id = id => s.finished # None

LEMMA FinishRowFacts ==
    ASSUME NEW rows \in SUBSET Row, NEW id \in Nat, NEW outcome \in Outcomes,
           NEW ra \in Nat \union {None}, NEW at \in Nat
    PROVE  Closed(rows, FinishRow(rows, id, outcome, ra, at), id)
<1> DEFINE done(r) == [r EXCEPT !.finished = at, !.outcome = outcome, !.retryAfter = ra]
           next(r) == IF r.id = id THEN done(r) ELSE r
           after == FinishRow(rows, id, outcome, ra, at)
<1>1. after = {next(r) : r \in rows}
    BY DEF FinishRow
<1>2. \A r \in rows : /\ next(r) \in Row /\ SameRun(r, next(r))
                      /\ r.id # id => next(r) = r
                      /\ r.id = id => next(r).finished # None
    <2> SUFFICES ASSUME NEW r \in rows
                 PROVE  /\ next(r) \in Row /\ SameRun(r, next(r))
                        /\ r.id # id => next(r) = r
                        /\ r.id = id => next(r).finished # None
        OBVIOUS
    <2>1. r \in Row /\ at # None
        BY DEF None
    <2>2. CASE r.id = id
        BY <2>1, <2>2 DEF Row, SameRun
    <2>3. CASE r.id # id
        BY <2>1, <2>3 DEF SameRun
    <2> QED BY <2>2, <2>3
<1> HIDE DEF next, done, after
<1>3. after \in SUBSET Row
    BY <1>1, <1>2
<1>4. ASSUME NEW s \in after
      PROVE  \E r \in rows : /\ SameRun(r, s)
                             /\ s.id # id => s = r
                             /\ s.id = id => s.finished # None
    <2>1. PICK r \in rows : s = next(r)
        BY <1>1
    <2>2. s.id = r.id
        BY <1>2, <2>1 DEF SameRun
    <2> QED BY <1>2, <2>1, <2>2
<1>5. ASSUME NEW r \in rows
      PROVE  \E s \in after : /\ SameRun(r, s)
                              /\ s.id # id => s = r
                              /\ s.id = id => s.finished # None
    <2>1. next(r) \in after
        BY <1>1
    <2>2. next(r).id = r.id
        BY <1>2 DEF SameRun
    <2> QED BY <1>2, <2>1, <2>2
<1>6. ASSUME OwnIds(rows)
      PROVE  OwnIds(after)
    <2>1. \A r, q \in rows : next(r).id = next(q).id => r = q
        BY <1>2, <1>6 DEF OwnIds, SameRun
    <2> QED BY <1>1, <2>1 DEF OwnIds
<1> QED BY <1>3, <1>4, <1>5, <1>6 DEF after, Closed

LEMMA CloseFacts ==
    ASSUME NEW rows \in SUBSET Row, NEW at \in Nat
    PROVE  LET after == CloseInterrupted(rows, at)
           IN  /\ after \in SUBSET Row
               /\ \A s \in after : \E r \in rows :
                      SameRun(r, s) /\ s.finished # None
               /\ OwnIds(rows) => OwnIds(after)
               /\ \A r \in rows : \E s \in after : SameRun(r, s) /\ s.finished # None
<1> DEFINE next(r) == IF r.finished = None
                      THEN [r EXCEPT !.finished = at, !.outcome = "interrupted"] ELSE r
           after == CloseInterrupted(rows, at)
<1>1. after = {next(r) : r \in rows}
    BY DEF CloseInterrupted
<1>2. \A r \in rows : next(r) \in Row /\ SameRun(r, next(r)) /\ next(r).finished # None
    <2> SUFFICES ASSUME NEW r \in rows
                 PROVE  next(r) \in Row /\ SameRun(r, next(r)) /\ next(r).finished # None
        OBVIOUS
    <2>1. r \in Row /\ at # None /\ "interrupted" \in Outcomes
        BY DEF None, Outcomes
    <2>2. CASE r.finished = None
        BY <2>1, <2>2 DEF Row, SameRun
    <2>3. CASE r.finished # None
        BY <2>1, <2>3 DEF SameRun
    <2> QED BY <2>2, <2>3
<1> HIDE DEF after
<1>3. after \in SUBSET Row
    <2> HIDE DEF next
    <2> QED BY <1>1, <1>2
<1> HIDE DEF next
<1>4. ASSUME OwnIds(rows)
      PROVE  OwnIds(after)
    <2>1. \A r, q \in rows : next(r).id = next(q).id => r = q
        BY <1>2, <1>4 DEF OwnIds, SameRun
    <2> QED BY <1>1, <2>1 DEF OwnIds
<1> QED BY <1>1, <1>2, <1>3, <1>4 DEF after

\* Among rows of the past with ids of their own there is a newest.
LEMMA NewestExists ==
    ASSUME NEW rows \in SUBSET Row, rows # {}, NEW last \in Nat, NEW next \in Nat,
           \A r \in rows : r.started <= last /\ r.id < next,
           OwnIds(rows)
    PROVE  Newest(rows) # {}
<1>1. \A r \in rows : r.started \in Nat /\ r.id \in Nat
    BY DEF Row
<1> DEFINE age(r) == last - r.started
           ages == {age(r) : r \in rows}
<1>2. ages \in SUBSET Nat /\ ages # {}
    BY <1>1
<1>3. Min(ages) \in ages /\ \A y \in ages : Min(ages) <= y
    <2> HIDE DEF ages
    <2> QED BY <1>2, LeastElement
<1>4. PICK young \in rows : \A r \in rows : r.started <= young.started
    <2>1. PICK young \in rows : Min(ages) = age(young)
        BY <1>3
    <2>2. \A r \in rows : age(young) <= age(r)
        BY <1>3, <2>1
    <2> QED BY <1>1, <2>2
<1> DEFINE peers == {r \in rows : r.started = young.started}
           gap(r) == next - r.id
           gaps == {gap(r) : r \in peers}
<1>5. gaps \in SUBSET Nat /\ gaps # {}
    BY <1>1
<1>6. Min(gaps) \in gaps /\ \A y \in gaps : Min(gaps) <= y
    <2> HIDE DEF gaps
    <2> QED BY <1>5, LeastElement
<1>7. PICK top \in peers : \A r \in peers : r.id <= top.id
    <2>1. PICK top \in peers : Min(gaps) = gap(top)
        BY <1>6
    <2>2. \A r \in peers : gap(top) <= gap(r)
        BY <1>6, <2>1
    <2> QED BY <1>1, <2>2
<1>8. ASSUME NEW s \in rows \ {top}
      PROVE  Newer(top, s)
    <2>1. top \in rows /\ top.started = young.started /\ s.started <= young.started
        BY <1>4
    <2>2. CASE s.started = young.started
        <3>1. s.id <= top.id /\ s.id # top.id
            BY <1>7, <2>1, <2>2, <1>8 DEF OwnIds
        <3> QED BY <1>1, <2>1, <2>2, <3>1 DEF Newer
    <2>3. CASE s.started # young.started
        BY <1>1, <2>1, <2>3 DEF Newer
    <2> QED BY <2>2, <2>3
<1>9. top \in Newest(rows)
    BY <1>8 DEF Newest
<1> QED BY <1>9

\* Of a plugin's finished rows, a prune leaves the newest.
LEMMA PruneFacts ==
    ASSUME Types, RowsOrdered, NEW cutoff \in Int
    PROVE  /\ Prune(runs, cutoff) \subseteq runs
           /\ \A r \in runs : r.started >= cutoff => r \in Prune(runs, cutoff)
           /\ \A r \in runs : r.finished # None =>
                  \E s \in Prune(runs, cutoff) : s.plugin = r.plugin /\ s.started >= r.started
<1>1. ASSUME NEW r \in runs, r.finished # None
      PROVE  \E s \in Prune(runs, cutoff) : s.plugin = r.plugin /\ s.started >= r.started
    <2> DEFINE rows == FinishedOf(runs, r.plugin)
    <2>1. /\ rows \in SUBSET Row /\ rows \subseteq runs /\ r \in rows
          /\ \A s \in rows : s.plugin = r.plugin
        BY <1>1 DEF FinishedOf, Types
    <2>2. /\ \A s \in rows : s.started <= clock /\ s.id < nextId
          /\ OwnIds(rows)
          /\ clock \in Nat /\ nextId \in Nat /\ rows # {}
        BY <2>1 DEF RowsOrdered, OwnIds, Types
    <2>3. PICK top : top \in Newest(rows)
        <3> HIDE DEF rows
        <3> QED BY <2>1, <2>2, NewestExists
    <2>4. top \in rows /\ (r = top \/ Newer(top, r))
        <3> HIDE DEF rows
        <3> QED BY <2>1, <2>3 DEF Newest
    <2>5. top.started \in Nat /\ r.started \in Nat
        BY <2>1, <2>4 DEF Row
    <2>6. top.started >= r.started
        BY <2>4, <2>5 DEF Newer
    <2>7. top \in Newest(FinishedOf(runs, top.plugin))
        BY <2>1, <2>3, <2>4
    <2>8. top \in Prune(runs, cutoff) /\ top.plugin = r.plugin
        BY <2>1, <2>4, <2>7 DEF Prune
    <2> QED BY <2>6, <2>8
<1> QED BY <1>1 DEF Prune

-----------------------------------------------------------------------------
\* The table, and who will write what in it is unfinished.

Labels == Busy \union {"idle", "queued"}

LEMMA InitTable == Init => TableInv
<1> SUFFICES ASSUME Init PROVE TableInv
    OBVIOUS
<1>1. Types
    BY DEF Init, Types, NoResult, Results, Outcomes
<1> QED BY <1>1 DEF Init, TableInv, RowsOrdered, OwnIds, Quiet, UnfinishedRowsAccounted

\* A step of one poll that writes no row: its row stays its own, or is lost.
LEMMA MoveKeeps ==
    ASSUME TableInv, NEW p \in Plugins, NEW label \in Labels,
           pc' = [pc EXCEPT ![p] = label],
           UNCHANGED <<clock, proc, runs, nextId>>, Serving,
           run' \in [Plugins -> Nat], since' \in [Plugins -> Nat],
           result' \in [Plugins -> Results],
           \A q \in Plugins \ {p} : run'[q] = run[q],
           lost \subseteq lost',
           pc[p] \notin Open \/ run[p] \in lost' \/ (label \in Open /\ run'[p] = run[p])
    PROVE  TableInv'
<1>1. Types'
    BY DEF TableInv, Types, Labels
<1>2. RowsOrdered'
    BY DEF TableInv, RowsOrdered
<1>3. Quiet'
    BY DEF Serving, Quiet
<1>4. UnfinishedRowsAccounted'
    <2> SUFFICES ASSUME NEW r \in Unfinished(runs)
                 PROVE  \/ r.id \in lost'
                        \/ pc'[r.plugin] \in Open /\ run'[r.plugin] = r.id
        BY DEF UnfinishedRowsAccounted
    <2>1. r.plugin \in Plugins
        BY DEF Unfinished, TableInv, Types, Row
    <2>2. r.id \in lost \/ (pc[r.plugin] \in Open /\ run[r.plugin] = r.id)
        BY DEF Serving, TableInv, UnfinishedRowsAccounted
    <2>3. CASE r.plugin = p
        BY <2>1, <2>2, <2>3 DEF TableInv, Types
    <2>4. CASE r.plugin # p
        BY <2>1, <2>2, <2>4 DEF TableInv, Types
    <2> QED BY <2>3, <2>4
<1> QED BY <1>1, <1>2, <1>3, <1>4 DEF TableInv

\* The rest of a step of a poll that neither begins nor finishes a row.
Passing(p) ==
    \/ BeginFails(p) \/ CollectReturns(p) \/ CollectRaises(p) \/ StoreAndReconcile(p)
    \/ FinishFails(p) \/ Settle(p) \/ HandleEscaped(p) \/ HooksDone(p)

\* Where such a step leaves the poll.
LEMMA PassingMoves ==
    ASSUME Types, NEW p \in Plugins, Passing(p)
    PROVE  /\ UNCHANGED <<clock, proc, runs, nextId>> /\ Serving
           /\ run' \in [Plugins -> Nat] /\ since' \in [Plugins -> Nat]
           /\ result' \in [Plugins -> Results]
           /\ \A q \in Plugins \ {p} : run'[q] = run[q] /\ since'[q] = since[q]
           /\ lost \subseteq lost'
           /\ \E label \in Labels :
                 /\ pc' = [pc EXCEPT ![p] = label]
                 /\ label \in Open => pc[p] \in Open /\ run'[p] = run[p] /\ since'[p] = since[p]
                 /\ pc[p] \in Open => label \in Open \/ run[p] \in lost'
<1>1. CASE BeginFails(p)
    <2>1. pc' = [pc EXCEPT ![p] = "failed"] /\ pc[p] = "queued"
        BY <1>1 DEF BeginFails, Goto
    <2> QED BY <1>1, <2>1 DEF BeginFails, Types, table, Labels, Busy, Open
<1>2. CASE CollectReturns(p)
    <2>1. pc' = [pc EXCEPT ![p] = "storing"] /\ pc[p] = "collecting"
        BY <1>2 DEF CollectReturns, Goto
    <2> QED BY <1>2, <2>1 DEF CollectReturns, Types, table, Labels, Busy, Open
<1>3. CASE CollectRaises(p)
    <2>1. pc' = [pc EXCEPT ![p] = "finishing"] /\ pc[p] = "collecting"
        BY <1>3 DEF CollectRaises, Goto
    <2>2. \E answer \in Results : result' = [result EXCEPT ![p] = answer]
        BY <1>3 DEF CollectRaises, Results, Outcomes
    <2>3. result' \in [Plugins -> Results]
        BY <2>2 DEF Types
    <2> QED BY <1>3, <2>1, <2>3 DEF CollectRaises, Types, table, Labels, Busy, Open
<1>4. CASE StoreAndReconcile(p)
    <2>1. pc' = [pc EXCEPT ![p] = "finishing"] /\ pc[p] = "storing"
        BY <1>4 DEF StoreAndReconcile, Goto
    <2>2. \E answer \in Results : result' = [result EXCEPT ![p] = answer]
        BY <1>4 DEF StoreAndReconcile, Results, Outcomes
    <2>3. result' \in [Plugins -> Results]
        BY <2>2 DEF Types
    <2> QED BY <1>4, <2>1, <2>3 DEF StoreAndReconcile, Types, table, Labels, Busy, Open
<1>5. CASE FinishFails(p)
    <2>1. pc' = [pc EXCEPT ![p] = "failed"] /\ lost' = lost \union {run[p]}
        BY <1>5 DEF FinishFails, Goto
    <2> QED BY <1>5, <2>1 DEF FinishFails, Types, Labels, Busy, Open
<1>6. CASE Settle(p)
    <2>1. \E label \in {"hooks", "idle"} : pc' = [pc EXCEPT ![p] = label]
        BY <1>6 DEF Settle, Goto
    <2>2. pc[p] = "settling"
        BY <1>6 DEF Settle
    <2> QED BY <1>6, <2>1, <2>2 DEF Settle, Types, table, Labels, Busy, Open
<1>7. CASE HandleEscaped(p)
    <2>1. pc' = [pc EXCEPT ![p] = "hooks"] /\ pc[p] = "failed"
        BY <1>7 DEF HandleEscaped, Goto
    <2> QED BY <1>7, <2>1 DEF HandleEscaped, Types, table, Labels, Busy, Open
<1>8. CASE HooksDone(p)
    <2>1. pc' = [pc EXCEPT ![p] = "idle"] /\ pc[p] = "hooks"
        BY <1>8 DEF HooksDone, Goto
    <2>2. NoResult \in Results
        BY DEF NoResult, Results, Outcomes
    <2> QED BY <1>8, <2>1, <2>2 DEF HooksDone, Types, table, Labels, Busy, Open
<1> QED BY <1>1, <1>2, <1>3, <1>4, <1>5, <1>6, <1>7, <1>8 DEF Passing

\* The executor gets a job, or the job is skipped.
LEMMA FireMoves ==
    ASSUME Types, NEW p \in Plugins, Fire(p)
    PROVE  /\ UNCHANGED <<clock, proc, runs, nextId, run, since, result, lost>> /\ Serving
           /\ \E label \in Labels : /\ pc' = [pc EXCEPT ![p] = label]
                                    /\ label = pc[p] \/ (pc[p] = "idle" /\ label = "queued")
<1>1. /\ UNCHANGED <<clock, proc, runs, nextId, run, since, result, lost>> /\ Serving
      /\ pc' = IF pc[p] = "idle" THEN [pc EXCEPT ![p] = "queued"] ELSE pc
    BY DEF Fire, table, Serving
<1>2. CASE pc[p] = "idle"
    BY <1>1, <1>2 DEF Labels
<1>3. CASE pc[p] # "idle"
    <2>1. pc' = [pc EXCEPT ![p] = pc[p]] /\ pc[p] \in Labels
        BY <1>1, <1>3 DEF Types, Labels
    <2> QED BY <1>1, <2>1
<1> QED BY <1>2, <1>3

LEMMA PassingKeeps ==
    ASSUME TableInv, NEW p \in Plugins, Passing(p)
    PROVE  TableInv'
    BY PassingMoves, MoveKeeps DEF TableInv

LEMMA FireKeeps ==
    ASSUME TableInv, NEW p \in Plugins, Fire(p)
    PROVE  TableInv'
<1>1. /\ UNCHANGED <<clock, proc, runs, nextId, run, since, result, lost>> /\ Serving
      /\ \E label \in Labels : /\ pc' = [pc EXCEPT ![p] = label]
                               /\ label = pc[p] \/ (pc[p] = "idle" /\ label = "queued")
    BY FireMoves DEF TableInv
<1>2. run' \in [Plugins -> Nat] /\ since' \in [Plugins -> Nat] /\ result' \in [Plugins -> Results]
    BY <1>1 DEF TableInv, Types
<1> QED BY <1>1, <1>2, MoveKeeps DEF Open

\* start_run's row: a new id, the poll's own plugin and time.
LEMMA BeginMoves ==
    ASSUME Types, NEW p \in Plugins, Begin(p)
    PROVE  LET new == StartRow(nextId, p, clock)
           IN  /\ new \in Row /\ runs' = runs \union {new}
               /\ new.id = nextId /\ new.plugin = p
               /\ new.started = clock /\ new.finished = None
               /\ nextId' = nextId + 1 /\ UNCHANGED <<clock, proc, lost, result>> /\ Serving
               /\ pc[p] = "queued" /\ pc' = [pc EXCEPT ![p] = "collecting"]
               /\ run' = [run EXCEPT ![p] = nextId] /\ since' = [since EXCEPT ![p] = clock]
<1>1. StartRow(nextId, p, clock) \in Row
    BY DEF StartRow, Types, Row, Outcomes
<1> QED BY <1>1 DEF Begin, StartRow, Goto

LEMMA BeginKeeps ==
    ASSUME TableInv, NEW p \in Plugins, Begin(p)
    PROVE  TableInv'
<1> DEFINE new == StartRow(nextId, p, clock)
<1>1. /\ new \in Row /\ runs' = runs \union {new}
      /\ new.id = nextId /\ new.plugin = p
      /\ new.started = clock /\ new.finished = None
      /\ nextId' = nextId + 1 /\ UNCHANGED <<clock, proc, lost, result>> /\ Serving
      /\ pc[p] = "queued" /\ pc' = [pc EXCEPT ![p] = "collecting"]
      /\ run' = [run EXCEPT ![p] = nextId] /\ since' = [since EXCEPT ![p] = clock]
    BY BeginMoves DEF TableInv
<1> HIDE DEF new
<1>2. Types'
    BY <1>1 DEF TableInv, Types, Busy
<1>3. RowsOrdered'
    <2>1. clock \in Nat /\ nextId \in Nat
        BY DEF TableInv, Types
    <2>2. \A r \in runs : r.id \in Nat /\ r.id < nextId /\ r.started <= clock
        BY DEF TableInv, Types, RowsOrdered, Row
    <2>3. \A r \in runs' : r.id < nextId' /\ r.started <= clock'
        BY <1>1, <2>1, <2>2
    <2>4. \A r \in runs : r.id # new.id
        BY <1>1, <2>1, <2>2
    <2>5. OwnIds(runs')
        BY <1>1, <2>4 DEF TableInv, RowsOrdered, OwnIds
    <2> QED BY <2>3, <2>5 DEF RowsOrdered
<1>4. Quiet'
    BY <1>1 DEF Serving, Quiet
<1>5. UnfinishedRowsAccounted'
    <2> SUFFICES ASSUME NEW r \in runs', r.finished = None
                 PROVE  \/ r.id \in lost'
                        \/ pc'[r.plugin] \in Open /\ run'[r.plugin] = r.id
        BY DEF UnfinishedRowsAccounted, Unfinished
    <2>1. CASE r = new
        BY <1>1, <2>1 DEF TableInv, Types, Open
    <2>2. CASE r \in runs
        <3>1. r.id \in lost \/ (pc[r.plugin] \in Open /\ run[r.plugin] = r.id)
            BY <1>1, <2>2 DEF Serving, TableInv, UnfinishedRowsAccounted, Unfinished
        <3>2. r.plugin \in Plugins
            BY <2>2 DEF TableInv, Types, Row
        <3>3. pc[r.plugin] \in Open => r.plugin # p
            BY <1>1 DEF Open
        <3> QED BY <1>1, <3>1, <3>2, <3>3 DEF TableInv, Types
    <2> QED BY <1>1, <2>1, <2>2
<1> QED BY <1>2, <1>3, <1>4, <1>5 DEF TableInv

\* finish_run's update: it touches the poll's own row, and all are still there.
LEMMA FinishMoves ==
    ASSUME Types, NEW p \in Plugins, Finish(p)
    PROVE  /\ Closed(runs, runs', run[p])
           /\ UNCHANGED <<clock, proc, nextId, lost, run, since, result>> /\ Serving
           /\ pc[p] = "finishing" /\ pc' = [pc EXCEPT ![p] = "settling"]
<1>1. PICK outcome \in Outcomes, ra \in Nat \union {None}, at \in Nat, id \in Nat :
          /\ outcome = result[p].outcome /\ ra = result[p].retryAfter
          /\ at = since[p] /\ id = run[p]
    BY DEF Types, Results
<1>2. runs' = FinishRow(runs, id, outcome, ra, at) /\ runs \in SUBSET Row
    BY <1>1 DEF Finish, Types
<1>3. Closed(runs, FinishRow(runs, id, outcome, ra, at), id)
    BY <1>2, FinishRowFacts
<1>4. /\ UNCHANGED <<clock, proc, nextId, lost, run, since, result>> /\ Serving
      /\ pc[p] = "finishing" /\ pc' = [pc EXCEPT ![p] = "settling"]
    BY DEF Finish, Goto
<1> QED BY <1>1, <1>2, <1>3, <1>4

LEMMA FinishKeeps ==
    ASSUME TableInv, NEW p \in Plugins, Finish(p)
    PROVE  TableInv'
<1>1. /\ Closed(runs, runs', run[p])
      /\ UNCHANGED <<clock, proc, nextId, lost, run, since, result>> /\ Serving
      /\ pc[p] = "finishing" /\ pc' = [pc EXCEPT ![p] = "settling"]
    BY FinishMoves DEF TableInv
<1>2. Types'
    BY <1>1 DEF TableInv, Types, Busy, Closed
<1>3. RowsOrdered'
    <2>1. \A t \in runs' : t.id < nextId' /\ t.started <= clock'
        BY <1>1 DEF TableInv, RowsOrdered, SameRun, Closed
    <2> QED BY <1>1, <2>1 DEF TableInv, RowsOrdered, Closed
<1>4. Quiet'
    BY <1>1 DEF Serving, Quiet
<1>5. UnfinishedRowsAccounted'
    <2> SUFFICES ASSUME NEW t \in runs', t.finished = None
                 PROVE  \/ t.id \in lost'
                        \/ pc'[t.plugin] \in Open /\ run'[t.plugin] = t.id
        BY DEF UnfinishedRowsAccounted, Unfinished
    <2>1. t \in runs /\ t.id # run[p]
        BY <1>1 DEF Closed
    <2>2. t.id \in lost \/ (pc[t.plugin] \in Open /\ run[t.plugin] = t.id)
        BY <1>1, <2>1 DEF Serving, TableInv, UnfinishedRowsAccounted, Unfinished
    <2>3. t.plugin \in Plugins
        BY <2>1 DEF TableInv, Types, Row
    <2> QED BY <1>1, <2>1, <2>2, <2>3 DEF TableInv, Types
<1> QED BY <1>2, <1>3, <1>4, <1>5 DEF TableInv

\* close_interrupted_runs: afterwards no row is unfinished.
LEMMA RecoverKeeps ==
    ASSUME TableInv, Recover
    PROVE  TableInv'
<1>1. runs' = CloseInterrupted(runs, clock) /\ clock \in Nat /\ runs \in SUBSET Row
    BY DEF Recover, TableInv, Types
<1>2. /\ runs' \in SUBSET Row
      /\ \A t \in runs' : \E r \in runs :
             SameRun(r, t) /\ t.finished # None
      /\ OwnIds(runs) => OwnIds(runs')
    BY <1>1, CloseFacts
<1>3. Types'
    BY <1>2 DEF Recover, TableInv, Types, poll
<1>4. RowsOrdered'
    <2>1. \A t \in runs' : t.id < nextId' /\ t.started <= clock'
        BY <1>2 DEF Recover, TableInv, RowsOrdered, SameRun
    <2> QED BY <1>2, <2>1 DEF TableInv, RowsOrdered
<1>5. Quiet'
    BY DEF Recover, TableInv, Quiet, poll
<1>6. UnfinishedRowsAccounted'
    BY <1>2 DEF UnfinishedRowsAccounted, Unfinished
<1> QED BY <1>3, <1>4, <1>5, <1>6 DEF TableInv

LEMMA DownKeeps ==
    ASSUME TableInv, Crash \/ Exit
    PROVE  TableInv'
<1>1. LoseMemory /\ UNCHANGED <<clock, runs, nextId>>
    BY DEF Crash, Exit, table
<1>2. NoResult \in Results
    BY DEF NoResult, Results, Outcomes
<1>3. Types'
    BY <1>1, <1>2 DEF LoseMemory, TableInv, Types
<1>4. RowsOrdered' /\ Quiet' /\ UnfinishedRowsAccounted'
    BY <1>1 DEF LoseMemory, TableInv, RowsOrdered, Quiet, UnfinishedRowsAccounted
<1> QED BY <1>3, <1>4 DEF TableInv

\* Steps that leave the polls alone, and write no row but for a prune.
Apart ==
    \/ Tick \/ StartScheduler \/ Stop \/ FireMaintenance \/ MaintenancePrunes
    \/ MaintenanceDone \/ UNCHANGED vars

LEMMA ApartMoves ==
    ASSUME TableInv, Apart
    PROVE  /\ UNCHANGED <<pc, run, since, result, nextId, lost>>
           /\ clock' \in {clock, clock + 1}
           /\ runs' = runs \/ (runs' = Prune(runs, clock - Retention) /\ clock' = clock)
           /\ proc' = proc \/ (proc # "down" /\ proc' \in {"up", "stopping"})
<1>1. CASE MaintenancePrunes
    BY <1>1 DEF MaintenancePrunes, poll
<1>2. CASE Apart /\ ~MaintenancePrunes
    BY <1>2 DEF Apart, Tick, StartScheduler, Stop, FireMaintenance, MaintenanceDone, vars,
                table, poll
<1> QED BY <1>1, <1>2

LEMMA ApartKeeps ==
    ASSUME TableInv, Apart
    PROVE  TableInv'
<1>1. /\ UNCHANGED <<pc, run, since, result, nextId, lost>>
      /\ clock' \in {clock, clock + 1}
      /\ runs' = runs \/ (runs' = Prune(runs, clock - Retention) /\ clock' = clock)
      /\ proc' = proc \/ (proc # "down" /\ proc' \in {"up", "stopping"})
    BY ApartMoves
<1>2. runs' \subseteq runs
    BY <1>1 DEF Prune
<1>3. Types'
    BY <1>1, <1>2 DEF TableInv, Types
<1>4. RowsOrdered'
    <2>1. clock \in Nat /\ \A r \in runs : r.started \in Nat
        BY DEF TableInv, Types, Row
    <2> QED BY <1>1, <1>2, <2>1 DEF TableInv, RowsOrdered, OwnIds
<1>5. Quiet' /\ UnfinishedRowsAccounted'
    BY <1>1, <1>2 DEF TableInv, Quiet, UnfinishedRowsAccounted, Unfinished
<1> QED BY <1>3, <1>4, <1>5 DEF TableInv

\* What a step is, for the proofs.
LEMMA Steps ==
    ASSUME [Next]_vars
    PROVE  \/ Apart \/ Recover \/ Crash \/ Exit
           \/ \E p \in Plugins : Fire(p) \/ Begin(p) \/ Finish(p) \/ Passing(p)
    BY DEF Next, Horizon, Thread, Apart, Passing

LEMMA StepTable == TableInv /\ [Next]_vars => TableInv'
<1> SUFFICES ASSUME TableInv, [Next]_vars PROVE TableInv'
    OBVIOUS
<1>1. CASE \E p \in Plugins : Fire(p) \/ Begin(p) \/ Finish(p) \/ Passing(p)
    BY <1>1, FireKeeps, BeginKeeps, FinishKeeps, PassingKeeps
<1> QED BY <1>1, Steps, ApartKeeps, RecoverKeeps, DownKeeps

\* Rows have ids of their own, and each without an outcome has its poll.
THEOREM TableHolds == Spec => []TableInv
<1>1. Init => TableInv
    BY InitTable
<1>2. TableInv /\ [Next]_vars => TableInv'
    BY StepTable
<1> QED BY <1>1, <1>2, PTL DEF Spec

\* While the process lives, a row without an outcome belongs to a poll that is
\* still going to write it, or its finish_run raised.
THEOREM RowsAccounted == Spec => []UnfinishedRowsAccounted
<1>1. TableInv => UnfinishedRowsAccounted
    BY DEF TableInv
<1> QED BY <1>1, TableHolds, PTL

-----------------------------------------------------------------------------
\* The row of a poll in flight, when the retention is no shorter than a poll.

\* A poll that is in flight after a step of its own or another's was so before,
\* with the same row.
LEMMA FlightStays ==
    ASSUME TableInv, FlightInv, UNCHANGED <<clock, runs>>,
           \A p \in Plugins : pc'[p] \in Open =>
               pc[p] \in Open /\ run'[p] = run[p] /\ since'[p] = since[p]
    PROVE  FlightInv'
<1> SUFFICES ASSUME NEW p \in Plugins, pc'[p] \in Open PROVE Flying(p)'
    BY DEF FlightInv
<1>1. Flying(p) /\ run'[p] = run[p] /\ since'[p] = since[p]
    BY DEF FlightInv
<1> QED BY <1>1 DEF Flying

LEMMA FlightApart ==
    ASSUME MaxPoll <= Retention, TableInv, FlightInv, Apart
    PROVE  FlightInv'
<1> SUFFICES ASSUME NEW p \in Plugins, pc'[p] \in Open PROVE Flying(p)'
    BY DEF FlightInv
<1>1. /\ UNCHANGED <<pc, run, since>>
      /\ runs' = runs \/ (runs' = Prune(runs, clock - Retention) /\ clock' = clock)
    BY ApartMoves
<1>2. Flying(p) /\ pc[p] \in Open
    BY <1>1 DEF FlightInv
<1>3. clock \in Nat /\ since[p] \in Nat /\ MaxPoll \in Nat /\ Retention \in Nat
    BY DEF TableInv, Types
<1>4. since[p] <= clock' /\ clock' <= since[p] + MaxPoll
    <2>1. clock' = clock \/ (clock' = clock + 1 /\ clock < since[p] + MaxPoll)
        BY <1>2 DEF Apart, Tick, StartScheduler, Stop, FireMaintenance, MaintenancePrunes,
                    MaintenanceDone, vars
    <2> QED BY <1>2, <1>3, <2>1 DEF Flying
<1>5. PICK r \in runs : /\ r.id = run[p] /\ r.plugin = p
                        /\ r.finished = None /\ r.started = since[p]
    BY <1>2 DEF Flying
<1>6. r \in runs'
    <2>1. CASE runs' = Prune(runs, clock - Retention)
        <3>1. r.started >= clock - Retention /\ clock - Retention \in Int
            BY <1>2, <1>3, <1>5 DEF Flying
        <3> QED BY <2>1, <3>1, PruneFacts DEF TableInv
    <2> QED BY <1>1, <1>5, <2>1
<1>7. runs' \subseteq runs
    BY <1>1 DEF Prune
<1> QED BY <1>1, <1>2, <1>4, <1>5, <1>6, <1>7 DEF Flying

LEMMA FlightBegins ==
    ASSUME TableInv, FlightInv, NEW p \in Plugins, Begin(p)
    PROVE  FlightInv'
<1> DEFINE new == StartRow(nextId, p, clock)
<1>1. /\ new \in Row /\ runs' = runs \union {new}
      /\ new.id = nextId /\ new.plugin = p
      /\ new.started = clock /\ new.finished = None
      /\ UNCHANGED clock
      /\ pc' = [pc EXCEPT ![p] = "collecting"]
      /\ run' = [run EXCEPT ![p] = nextId] /\ since' = [since EXCEPT ![p] = clock]
    BY BeginMoves DEF TableInv
<1> HIDE DEF new
<1> SUFFICES ASSUME NEW q \in Plugins, pc'[q] \in Open PROVE Flying(q)'
    BY DEF FlightInv
<1>2. CASE q = p
    <2>1. run'[p] = nextId /\ since'[p] = clock /\ clock \in Nat /\ MaxPoll \in Nat
        BY <1>1 DEF TableInv, Types
    <2>2. \A r \in runs' : r.started <= clock
        BY <1>1, <2>1 DEF TableInv, RowsOrdered
    <2> QED BY <1>1, <1>2, <2>1, <2>2 DEF Flying
<1>3. CASE q # p
    <2>1. run'[q] = run[q] /\ since'[q] = since[q] /\ pc'[q] = pc[q]
        BY <1>1, <1>3 DEF TableInv, Types
    <2>2. Flying(q)
        BY <2>1 DEF FlightInv
    <2> QED BY <1>1, <1>3, <2>1, <2>2 DEF Flying
<1> QED BY <1>2, <1>3

\* finish_run's update passes the rows of the other polls in flight by.
LEMMA FlightFinishes ==
    ASSUME TableInv, FlightInv, NEW p \in Plugins, Finish(p)
    PROVE  FlightInv'
<1>1. /\ Closed(runs, runs', run[p]) /\ UNCHANGED <<clock, run, since>>
      /\ pc[p] = "finishing" /\ pc' = [pc EXCEPT ![p] = "settling"]
    BY FinishMoves DEF TableInv
<1> SUFFICES ASSUME NEW q \in Plugins, pc'[q] \in Open PROVE Flying(q)'
    BY DEF FlightInv
<1>2. q # p /\ pc[q] \in Open
    BY <1>1 DEF TableInv, Types, Open
<1>3. Flying(q) /\ Flying(p)
    BY <1>1, <1>2 DEF FlightInv, Open
<1>4. PICK r \in runs : /\ r.id = run[q] /\ r.plugin = q
                        /\ r.finished = None /\ r.started = since[q]
    BY <1>3 DEF Flying
<1>5. run[q] # run[p]
    <2>1. PICK s \in runs : s.id = run[p] /\ s.plugin = p
        BY <1>3 DEF Flying
    <2> QED BY <1>2, <1>4, <2>1 DEF TableInv, RowsOrdered, OwnIds
<1>6. r \in runs'
    BY <1>1, <1>4, <1>5 DEF Closed, SameRun
<1>7. \A t \in runs' : t.plugin = q => t.started <= since[q]
    BY <1>1, <1>3 DEF Closed, SameRun, Flying
<1> QED BY <1>1, <1>3, <1>4, <1>6, <1>7 DEF Flying

LEMMA StepFlight ==
    ASSUME MaxPoll <= Retention, TableInv, FlightInv, [Next]_vars
    PROVE  FlightInv'
<1>1. CASE Recover \/ Crash \/ Exit
    <2>1. \A p \in Plugins : pc'[p] = "idle"
        BY <1>1 DEF Recover, Crash, Exit, LoseMemory, poll, TableInv, Quiet
    <2> QED BY <2>1 DEF FlightInv, Open
<1>2. ASSUME NEW p \in Plugins, Fire(p) \/ Passing(p)
      PROVE  FlightInv'
    <2>1. UNCHANGED <<clock, runs>>
        BY <1>2, FireMoves, PassingMoves DEF TableInv
    <2>2. \A q \in Plugins \ {p} : /\ run'[q] = run[q] /\ since'[q] = since[q]
                                   /\ pc'[q] = pc[q]
        BY <1>2, FireMoves, PassingMoves DEF TableInv, Types
    <2>3. pc'[p] \in Open => pc[p] \in Open /\ run'[p] = run[p] /\ since'[p] = since[p]
        <3>1. CASE Fire(p)
            BY <3>1, FireMoves DEF TableInv, Types, Open
        <3>2. CASE Passing(p)
            BY <3>2, PassingMoves DEF TableInv, Types
        <3> QED BY <1>2, <3>1, <3>2
    <2> QED BY <2>1, <2>2, <2>3, FlightStays
<1> QED BY <1>1, <1>2, FlightApart, FlightBegins, FlightFinishes, Steps

LEMMA FlightHolds ==
    ASSUME MaxPoll <= Retention
    PROVE  Spec => [](TableInv /\ FlightInv)
<1>1. Init => TableInv /\ FlightInv
    BY InitTable DEF Init, FlightInv, Open
<1>2. TableInv /\ FlightInv /\ [Next]_vars => (TableInv /\ FlightInv)'
    BY StepTable, StepFlight
<1> QED BY <1>1, <1>2, PTL DEF Spec

\* The row of a poll in flight is there for finish_run to write, whatever the
\* maintenance job deletes meanwhile.
THEOREM FlightRowKept ==
    ASSUME MaxPoll <= Retention
    PROVE  Spec => []InFlightRowKept
<1>1. TableInv /\ FlightInv => InFlightRowKept
    BY DEF FlightInv, Flying, InFlightRowKept
<1> QED BY <1>1, FlightHolds, PTL

\* /api/plugins says "polling" while a poll is in flight and never otherwise,
\* whichever row latest_run picks, but for a same-second tie and a failed
\* finish_run.
THEOREM PollingShown ==
    ASSUME MaxPoll <= Retention
    PROVE  Spec => []PollingReported
<1>1. TableInv /\ FlightInv => PollingReported
    <2> SUFFICES ASSUME TableInv, FlightInv, Serving, NEW p \in Plugins,
                        \A r \in runs : r.plugin = p => r.id \notin lost
                 PROVE  /\ pc[p] \notin Open =>
                               \A r \in LatestRuns(runs, p) : r.finished # None
                        /\ pc[p] \in Open /\ StartsAlone(p) =>
                               /\ LatestRuns(runs, p) # {}
                               /\ \A r \in LatestRuns(runs, p) : r.finished = None
        BY DEF PollingReported
    <2>1. ASSUME NEW r \in LatestRuns(runs, p), r.finished = None
          PROVE  pc[p] \in Open
        <3>1. r \in Unfinished(runs) /\ r.plugin = p
            BY <2>1 DEF LatestRuns, Unfinished
        <3> QED BY <3>1 DEF TableInv, UnfinishedRowsAccounted, Serving, Unfinished
    <2>2. ASSUME pc[p] \in Open, StartsAlone(p)
          PROVE  LatestRuns(runs, p) # {} /\ \A r \in LatestRuns(runs, p) : r.finished = None
        <3>1. Flying(p)
            BY <2>2 DEF FlightInv
        <3>2. PICK r \in runs : /\ r.id = run[p] /\ r.plugin = p
                                /\ r.finished = None /\ r.started = since[p]
            BY <3>1 DEF Flying
        <3>3. r \in LatestRuns(runs, p)
            BY <3>1, <3>2 DEF Flying, LatestRuns
        <3>4. ASSUME NEW s \in LatestRuns(runs, p)
              PROVE  s = r
            <4>1. s \in runs /\ s.plugin = p /\ s.started >= r.started /\ s.started <= since[p]
                BY <3>1, <3>2 DEF LatestRuns, Flying
            <4>2. s.started \in Nat /\ since[p] \in Nat
                BY <4>1 DEF TableInv, Types, Row
            <4>3. s.id = run[p]
                BY <2>2, <3>2, <4>1, <4>2 DEF StartsAlone
            <4> QED BY <3>2, <4>1, <4>3 DEF TableInv, RowsOrdered, OwnIds
        <3> QED BY <3>2, <3>3, <3>4
    <2> QED BY <2>1, <2>2
<1> QED BY <1>1, FlightHolds, PTL

-----------------------------------------------------------------------------
\* What a restart counts the next poll from.

\* A row that is neither lost nor finished is that of a poll in flight, hence
\* of the last Retention; of the finished ones the newest stays.
LEMMA PruneKeepsNewest ==
    ASSUME MaxPoll <= Retention, TableInv, FlightInv, proc # "down",
           NEW r \in runs, r.id \notin lost
    PROVE  \E s \in Prune(runs, clock - Retention) :
               s.plugin = r.plugin /\ s.started >= r.started
<1>1. clock \in Nat /\ Retention \in Nat /\ MaxPoll \in Nat /\ clock - Retention \in Int
    BY DEF TableInv, Types
<1>2. r.started \in Nat /\ r.plugin \in Plugins
    BY DEF TableInv, Types, Row
<1>3. CASE r.finished = None
    <2> DEFINE p == r.plugin
    <2>1. pc[p] \in Open /\ run[p] = r.id
        BY <1>3 DEF TableInv, UnfinishedRowsAccounted, Unfinished
    <2>2. Flying(p) /\ since[p] \in Nat
        BY <1>2, <2>1 DEF FlightInv, TableInv, Types
    <2>3. PICK s \in runs : s.id = run[p] /\ s.started = since[p]
        BY <2>2 DEF Flying
    <2>4. r.started = since[p]
        BY <2>1, <2>3 DEF TableInv, RowsOrdered, OwnIds
    <2>5. r.started >= clock - Retention
        BY <1>1, <2>2, <2>4 DEF Flying
    <2>6. r \in Prune(runs, clock - Retention)
        BY <1>1, <2>5, PruneFacts DEF TableInv
    <2> QED BY <1>2, <2>6
<1>4. CASE r.finished # None
    BY <1>1, <1>4, PruneFacts DEF TableInv
<1> QED BY <1>3, <1>4

LEMMA StepNewest ==
    ASSUME MaxPoll <= Retention, TableInv, FlightInv, [Next]_vars,
           NEW r \in runs, r.id \notin lost
    PROVE  \E s \in runs' : s.plugin = r.plugin /\ s.started >= r.started
<1>1. r.started \in Nat
    BY DEF TableInv, Types, Row
<1>2. CASE \E s \in runs' : SameRun(r, s)
    BY <1>1, <1>2 DEF SameRun
<1>3. CASE Apart
    <2>1. CASE runs' = runs
        BY <1>2, <2>1 DEF SameRun
    <2>2. CASE MaintenancePrunes
        <3>1. proc # "down" /\ runs' \in {runs, Prune(runs, clock - Retention)}
            BY <2>2 DEF MaintenancePrunes, Serving
        <3> QED BY <2>1, <3>1, PruneKeepsNewest
    <2>3. CASE Apart /\ ~MaintenancePrunes
        BY <2>1, <2>3 DEF Apart, Tick, StartScheduler, Stop, FireMaintenance, MaintenanceDone,
                          vars, table
    <2> QED BY <1>3, <2>2, <2>3
<1>4. CASE Recover
    <2>1. runs' = CloseInterrupted(runs, clock) /\ clock \in Nat /\ runs \in SUBSET Row
        BY <1>4 DEF Recover, TableInv, Types
    <2>2. PICK rows \in SUBSET Row, at \in Nat : rows = runs /\ at = clock
        BY <2>1
    <2>3. \A q \in rows : \E t \in CloseInterrupted(rows, at) :
              SameRun(q, t) /\ t.finished # None
        BY CloseFacts
    <2> QED BY <1>2, <2>1, <2>2, <2>3
<1>5. CASE Crash \/ Exit
    BY <1>2, <1>5 DEF Crash, Exit, table, SameRun
<1>6. ASSUME NEW p \in Plugins, Fire(p) \/ Passing(p) \/ Begin(p)
      PROVE  \E s \in runs' : SameRun(r, s)
    <2>1. CASE Begin(p)
        BY <2>1 DEF Begin, SameRun
    <2>2. CASE Fire(p) \/ Passing(p)
        <3>1. runs' = runs
            BY <2>2, FireMoves, PassingMoves DEF TableInv
        <3> QED BY <3>1 DEF SameRun
    <2> QED BY <1>6, <2>1, <2>2
<1>7. ASSUME NEW p \in Plugins, Finish(p)
      PROVE  \E s \in runs' : SameRun(r, s)
    BY <1>7, FinishMoves DEF TableInv, Closed
<1> QED BY <1>2, <1>3, <1>4, <1>5, <1>6, <1>7, Steps

\* The newest start on record of a plugin never goes back, whatever maintenance
\* prunes, unless finish_run raised for that run: a restart resumes the
\* plugin's interval or backoff from it.
THEOREM NewestRunStays ==
    ASSUME MaxPoll <= Retention
    PROVE  Spec => NewestRunKept
<1> DEFINE Stays == \A r \in runs : r.id \notin lost =>
                        \E s \in runs' : s.plugin = r.plugin /\ s.started >= r.started
<1>1. TableInv /\ FlightInv /\ [Next]_vars => [Stays]_vars
    BY StepNewest
<1> QED BY <1>1, FlightHolds, PTL DEF Spec, NewestRunKept
=============================================================================
