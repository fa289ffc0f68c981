------------------------------ MODULE Milestones ------------------------------
(***************************************************************************)
(* Milestone alerts (milestones.py): after every ok poll the evaluator     *)
(* compares each returned key's value with the one before it, queues a     *)
(* notification for the highest threshold crossed and POSTs it; what is    *)
(* not acknowledged stays queued, one slot per key, and is tried again     *)
(* after the plugin's next ok poll until it is MaxAge old.                 *)
(*                                                                         *)
(* Marker and slot are rows of the `state` table and survive the process;  *)
(* each write is one transaction.  A crash, or a failing storage call, may *)
(* come between any two steps, and the webhook may get a POST whose answer *)
(* the evaluator never sees.                                               *)
(*                                                                         *)
(* Keys are those of one plugin: its polls run one at a time and the       *)
(* evaluator reads and writes no other plugin's rows.                      *)
(***************************************************************************)
EXTENDS Integers, FiniteSetsExt

CONSTANTS
    Keys,
    Values,         \* Values[k]: what a poll may report for k
    Rules,          \* the rules a config may hold: [every : Nat, at : SUBSET Nat]
    MaxAge,         \* PENDING_MAX_AGE_SECONDS
    \* bounds of the model
    MaxTime, MaxFaults

ASSUME MilestoneValues ==
    Values \in [Keys -> SUBSET Nat] /\ IsFiniteSet(UNION {Values[k] : k \in Keys})
ASSUME MilestoneRules ==
    \A r \in Rules : r.every \in Nat /\ r.at \subseteq Nat \ {0} /\ IsFiniteSet(r.at)
ASSUME MilestoneBounds == MaxAge \in Nat /\ MaxTime \in Nat /\ MaxFaults \in Nat

VARIABLES
    clock,
    up,
    rule,       \* rule[k]: the first configured rule that matches k, if any
    value,      \* value[k]: last_value of the series
    marker,     \* marker[k]: state row milestone:<k>
    pending,    \* pending[k]: state row milestone_pending:<k>
    pc,         \* "idle", "evaluating" the returned keys, "retrying" the slots
    previous,   \* previous[k]: last_value before the poll stored its samples
    now,        \* the poll's time.time()
    todo,       \* keys the current loop has not reached
    attempted,  \* keys whose delivery this poll has tried
    post,       \* the POST in progress
    fate,       \* history: fate[k][t], what became of the notification for t
    copies,     \* history: copies[k][t], how often the webhook got it
    tries,      \* history: tries[k], POSTs for k in this poll
    faults      \* crashes, lost answers and failed writes so far

rows == <<value, marker, pending>>
evaluation == <<pc, previous, now, todo, attempted, tries>>
vars == <<clock, up, rule, rows, evaluation, post, fate, copies, faults>>

------------------------------------------------------------------------------
\* Rules and thresholds

NoRule == [every |-> 0, at |-> {}]
NoValue == -1
NoMarker == -1
NoRecord == [threshold |-> 0, queuedAt |-> 0]

\* Mutant: the next multiple, rounding up.
NextMultiple(r, v) ==
    IF r.every = 0 THEN {} ELSE {m \in {((v \div r.every) + 1) * r.every} : m > 0}

\* The last multiple of `every` the value has reached.
LastMultiple(r, v) ==
    IF r.every = 0 THEN {} ELSE {m \in {(v \div r.every) * r.every} : m > 0}

Reached(r, v) == LastMultiple(r, v) \cup {t \in r.at : t <= v}

\* _highest_threshold_at_or_below, and 0 if there is none.
HighestReached(r, v) == Max(Reached(r, v) \cup {0})

\* Mutant: what has fired fires again on the next climb.
CrossedAgain(r, before, v, mark) == {t \in Reached(r, v) : t > before}

\* The candidates of _highest_crossed_threshold.
Crossed(r, before, v, mark) == {t \in Reached(r, v) : t > before /\ t > mark}

\* Every threshold any notification can be about.
Thresholds == 1 .. Max(UNION {Values[k] : k \in Keys})

Records == [threshold : Thresholds \cup {0}, queuedAt : Nat]
NoPost == [answer |-> "none"]
Posting == [key : Keys, record : Records, answer : {"awaited", "accepted", "failed"}]
Fates == {"none", "queued", "delivered", "dropped", "displaced"}

IsPending(k) == pending[k] # NoRecord

TypeOK ==
    /\ clock \in Nat /\ up \in BOOLEAN
    /\ rule \in [Keys -> Rules \cup {NoRule}]
    /\ \A k \in Keys : value[k] \in Values[k] \cup {NoValue}
    /\ marker \in [Keys -> Thresholds \cup {0, NoMarker}]
    /\ pending \in [Keys -> Records]
    /\ pc \in {"idle", "evaluating", "retrying"}
    /\ \A k \in Keys : previous[k] \in Values[k] \cup {NoValue}
    /\ now \in Nat
    /\ todo \subseteq Keys /\ attempted \subseteq Keys
    /\ tries \in [Keys -> Nat]
    /\ post \in Posting \cup {NoPost}
    /\ fate \in [Keys -> [Thresholds -> Fates]]
    /\ copies \in [Keys -> [Thresholds -> Nat]]
    /\ faults \in Nat

------------------------------------------------------------------------------
Init ==
    /\ clock = 0 /\ up = FALSE
    /\ rule = [k \in Keys |-> NoRule]
    /\ value = [k \in Keys |-> NoValue]
    /\ marker = [k \in Keys |-> NoMarker]
    /\ pending = [k \in Keys |-> NoRecord]
    /\ pc = "idle"
    /\ previous = [k \in Keys |-> NoValue]
    /\ now = 0 /\ todo = {} /\ attempted = {}
    /\ tries = [k \in Keys |-> 0]
    /\ post = NoPost
    /\ fate = [k \in Keys |-> [t \in Thresholds |-> "none"]]
    /\ copies = [k \in Keys |-> [t \in Thresholds |-> 0]]
    /\ faults = 0

Tick ==
    /\ clock < MaxTime
    /\ clock' = clock + 1
    /\ UNCHANGED <<up, rule, rows, evaluation, post, fate, copies, faults>>

\* The process starts with the rules config.yaml has now.
Start ==
    /\ ~up
    /\ up' = TRUE
    /\ rule' \in [Keys -> Rules \cup {NoRule}]
    /\ UNCHANGED <<clock, rows, evaluation, post, fate, copies, faults>>

\* A crash, a lost answer or a failing storage call; MaxFaults bounds them.
Fault == faults < MaxFaults /\ faults' = faults + 1

ForgetPoll ==
    /\ pc' = "idle"
    /\ previous' = [k \in Keys |-> NoValue]
    /\ now' = 0 /\ todo' = {} /\ attempted' = {}
    /\ tries' = [k \in Keys |-> 0]

Crash ==
    /\ up /\ Fault
    /\ up' = FALSE
    /\ ForgetPoll
    /\ post' = NoPost
    /\ UNCHANGED <<clock, rule, rows, fate, copies>>

------------------------------------------------------------------------------
\* One poll

\* The poll returned some keys, each with a value.
Reports(some) ==
    \E values \in [some -> UNION {Values[k] : k \in some}] :
        /\ \A k \in some : values[k] \in Values[k]
        /\ value' = [k \in Keys |-> IF k \in some THEN values[k] ELSE value[k]]

\* run_plugin_once stored the poll's samples but the poll is not ok (a contract
\* violation, a failed reconciliation): on_poll_finished returns at once.
PollNotOk ==
    /\ up /\ pc = "idle"
    /\ \E some \in SUBSET Keys : Reports(some)
    /\ UNCHANGED <<clock, up, rule, marker, pending, evaluation, post, fate, copies, faults>>

\* ... and is ok: the evaluator goes through the returned keys.
PollOk ==
    /\ up /\ pc = "idle"
    /\ \E some \in SUBSET Keys : Reports(some) /\ todo' = some
    /\ previous' = value
    /\ now' = clock
    /\ pc' = "evaluating"
    /\ UNCHANGED <<clock, up, rule, marker, pending, attempted, tries, post, fate, copies, faults>>

\* The loop turns to k.
Take(k) == k \in todo /\ post = NoPost /\ todo' = todo \ {k}

\* No marker yet: start from the current value, silently.
InitialiseMarker(k) ==
    /\ up /\ pc = "evaluating" /\ Take(k)
    /\ rule[k] # NoRule /\ marker[k] = NoMarker
    /\ marker' = [marker EXCEPT ![k] = HighestReached(rule[k], value[k])]
    /\ UNCHANGED <<clock, up, rule, value, pending, pc, previous, now, attempted, tries,
                   post, fate, copies, faults>>

CrossedNow(k) == Crossed(rule[k], previous[k], value[k], marker[k])

\* No rule, a first sample, or nothing new crossed.
NothingCrossed(k) ==
    /\ up /\ pc = "evaluating" /\ Take(k)
    /\ \/ rule[k] = NoRule
       \/ marker[k] # NoMarker /\ (previous[k] = NoValue \/ CrossedNow(k) = {})
    /\ UNCHANGED <<clock, up, rule, rows, pc, previous, now, attempted, tries,
                   post, fate, copies, faults>>

Send(k, record) ==
    /\ post' = [key |-> k, record |-> record, answer |-> "awaited"]
    /\ tries' = [tries EXCEPT ![k] = @ + 1]

\* What history says of a notification that leaves the slot without an answer.
Leaves(k, how) ==
    IF IsPending(k) /\ fate[k][pending[k].threshold] = "queued"
    THEN [fate EXCEPT ![k][pending[k].threshold] = how] ELSE fate

\* Mutant: the marker moves only once the notification is delivered.
StampNothing(k, threshold) == marker[k]

\* _marker_at_least, for the new threshold and the record it replaces.
Stamp(k, threshold) == Max({marker[k], threshold, pending[k].threshold})

\* Mutant: an older notification keeps the slot.
FillEmptySlot(k, record) ==
    pending' = IF IsPending(k) THEN pending ELSE [pending EXCEPT ![k] = record]

FillSlot(k, record) == pending' = [pending EXCEPT ![k] = record]

\* The highest threshold crossed takes the slot and moves the marker, in one
\* transaction, before it is sent.
Queue(k) ==
    /\ up /\ pc = "evaluating" /\ Take(k)
    /\ rule[k] # NoRule /\ marker[k] # NoMarker
    /\ previous[k] # NoValue /\ CrossedNow(k) # {}
    /\ LET threshold == Max(CrossedNow(k))
           record == [threshold |-> threshold, queuedAt |-> now]
       IN  /\ FillSlot(k, record)
           /\ marker' = [marker EXCEPT ![k] = Stamp(k, threshold)]
           /\ fate' = [Leaves(k, "displaced") EXCEPT ![k][threshold] = "queued"]
           /\ Send(k, record)
    /\ UNCHANGED <<clock, up, rule, value, pc, previous, now, attempted, copies, faults>>

\* A storage call raises before anything is written: this key is skipped.
EvaluationFails(k) ==
    /\ up /\ pc = "evaluating" /\ Take(k) /\ Fault
    /\ rule[k] # NoRule
    /\ UNCHANGED <<clock, up, rule, rows, pc, previous, now, attempted, tries,
                   post, fate, copies>>

\* Mutant: what this poll has just tried is tried again.
ToRetryAll == {k \in Keys : IsPending(k)}

\* _retry_pending_for_plugin reads the slots, except those just tried.
ToRetry == {k \in Keys : IsPending(k)} \ attempted

StartRetrying ==
    /\ up /\ pc = "evaluating" /\ todo = {} /\ post = NoPost
    /\ pc' = "retrying"
    /\ todo' = ToRetry
    /\ UNCHANGED <<clock, up, rule, rows, previous, now, attempted, tries,
                   post, fate, copies, faults>>

RetryFails ==
    /\ up /\ pc = "evaluating" /\ todo = {} /\ post = NoPost /\ Fault
    /\ ForgetPoll
    /\ UNCHANGED <<clock, up, rule, rows, post, fate, copies>>

Retry(k) ==
    /\ up /\ pc = "retrying" /\ Take(k)
    /\ Send(k, pending[k])
    /\ UNCHANGED <<clock, up, rule, rows, pc, previous, now, attempted, fate, copies, faults>>

PollEnds ==
    /\ up /\ pc = "retrying" /\ todo = {} /\ post = NoPost
    /\ ForgetPoll
    /\ UNCHANGED <<clock, up, rule, rows, post, fate, copies, faults>>

------------------------------------------------------------------------------
\* One POST: _send, then the second half of _attempt_delivery

Arrives ==
    /\ copies' = [copies EXCEPT ![post.key][post.record.threshold] = @ + 1]
    /\ fate' = [fate EXCEPT ![post.key][post.record.threshold] = "delivered"]

\* The webhook answers 2xx; or it got the POST and the answer is lost; or the
\* POST failed: refused, unreachable, or the shared client is closed.
Answer ==
    /\ up /\ post.answer = "awaited"
    /\ \/ Arrives /\ post' = [post EXCEPT !.answer = "accepted"] /\ UNCHANGED faults
       \/ Arrives /\ post' = [post EXCEPT !.answer = "failed"] /\ Fault
       \/ post' = [post EXCEPT !.answer = "failed"] /\ UNCHANGED <<fate, copies, faults>>
    /\ UNCHANGED <<clock, up, rule, rows, evaluation>>

\* Mutant: a dead webhook is retried for ever.
ExpiredNever(record) == FALSE

Expired(record) == clock - record.queuedAt >= MaxAge

\* Mutant: the marker is affirmed but the slot is not cleared.
AffirmMarker(k) ==
    /\ marker' = [marker EXCEPT ![k] = Max({@, post.record.threshold})]
    /\ UNCHANGED pending

\* The slot is cleared and the marker affirmed, in one transaction.
ClearSlot(k) ==
    /\ pending' = [pending EXCEPT ![k] = NoRecord]
    /\ marker' = [marker EXCEPT ![k] = Max({@, post.record.threshold})]

Done(k) ==
    /\ post' = NoPost
    /\ attempted' = IF pc = "evaluating" THEN attempted \cup {k} ELSE attempted

Settle ==
    /\ up /\ post.answer \in {"accepted", "failed"}
    /\ LET k == post.key IN
        /\ Done(k)
        /\ IF post.answer = "accepted" \/ Expired(post.record)
           THEN ClearSlot(k) /\ fate' = Leaves(k, "dropped")
           ELSE UNCHANGED <<pending, marker, fate>>
    /\ UNCHANGED <<clock, up, rule, value, pc, previous, now, todo, tries, copies, faults>>

\* The write raises: the slot stays, and a fresh crossing does not count as
\* attempted.
SettleFails ==
    /\ up /\ post.answer \in {"accepted", "failed"} /\ Fault
    /\ post.answer = "accepted" \/ Expired(post.record)
    /\ post' = NoPost
    /\ UNCHANGED <<clock, up, rule, rows, evaluation, fate, copies>>

------------------------------------------------------------------------------
EvaluateKey(k) == InitialiseMarker(k) \/ NothingCrossed(k) \/ Queue(k) \/ EvaluationFails(k)

\* The worker thread, once it is in the hook.
Hook ==
    \/ \E k \in Keys : EvaluateKey(k) \/ Retry(k)
    \/ StartRetrying \/ RetryFails \/ PollEnds
    \/ Answer \/ Settle \/ SettleFails

Next == Tick \/ Start \/ Crash \/ PollNotOk \/ PollOk \/ Hook

Spec == Init /\ [][Next]_vars

\* Time passes, the container is restarted, and the hook, which waits for
\* nothing but a POST with a timeout, returns.
FairSpec == Spec /\ WF_vars(Tick) /\ WF_vars(Start) /\ WF_vars(Hook)

------------------------------------------------------------------------------
\* Properties

\* Each threshold fires once, ever, and only upwards: a dip and a second
\* climb, a restart, a changed rule, or a notification still stuck in the slot
\* never queues a threshold again, nor one below a threshold already queued.
FiresOnce ==
    [][\A k \in Keys, t \in Thresholds :
        fate'[k][t] = "queued" /\ fate[k][t] # "queued" =>
            \A u \in Thresholds : u >= t => fate[k][u] = "none"]_vars

\* The marker covers all that was ever queued, and the slot holds the newest of
\* it: the two rows never contradict each other, whatever fails in between.
MarkerCoversSlot ==
    \A k \in Keys :
        /\ \A t \in Thresholds : fate[k][t] # "none" => t <= marker[k]
        /\ IsPending(k) => /\ pending[k].threshold = marker[k]
                           /\ fate[k][marker[k]] \in {"queued", "delivered"}

\* A notification that was neither delivered, nor dropped for its age, nor
\* replaced by a newer one is still in the slot: no crash, restart or failing
\* storage call loses it.
QueuedIsPending ==
    \A k \in Keys, t \in Thresholds :
        fate[k][t] = "queued" => pending[k].threshold = t

\* The webhook hears of a threshold once, and once more at most for every lost
\* answer, crash or failed write.
RepeatsNeedFaults ==
    \A k \in Keys, t \in Thresholds :
        copies[k][t] <= 1 + faults

\* An ok poll that runs to its end has tried every slot, whatever happened to
\* another key's, and tried it once: a fresh crossing that failed is not sent
\* again by the retry loop, unless the write after it failed.
EachSlotTriedOnce ==
    [][pc = "retrying" /\ pc' = "idle" /\ up' =>
        \A k \in Keys : tries[k] <= 1 + faults /\ (IsPending(k) => tries[k] >= 1)]_vars

Matures(k) == IsPending(k) /\ pending[k].queuedAt + MaxAge <= MaxTime

\* If the plugin keeps polling ok, no notification is stuck: it is delivered,
\* or replaced by a newer one, or it ages out - a dead webhook is not retried
\* for ever.  (Those queued in the last MaxAge of the model's time are exempt:
\* its clock stops.)
SlotIsFreed ==
    ([]<>(pc = "evaluating")) =>
        \A k \in Keys : Matures(k) ~> ~Matures(k)

==============================================================================
