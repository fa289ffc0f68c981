-------------------------- MODULE Milestones_proofs --------------------------
(***************************************************************************)
(* Proofs about Milestones, for any keys, values and rules, and any number *)
(* of crashes, lost answers and failed writes: marker and slot agree, no   *)
(* notification is lost, a threshold fires once, and what the webhook gets *)
(* twice is paid for by a fault.                                           *)
(***************************************************************************)
EXTENDS Milestones, NumberLemmas, TLAPS

USE MilestoneValues, MilestoneRules, MilestoneBounds

-----------------------------------------------------------------------------
\* The parts of the inductive invariant.

\* The two rows of a key, and what became of its notifications.
RowTypes ==
    /\ marker \in [Keys -> Thresholds \union {0, NoMarker}]
    /\ pending \in [Keys -> Records]
    /\ fate \in [Keys -> [Thresholds -> Fates]]

\* What a poll works on.
PollTypes ==
    /\ clock \in Nat /\ up \in BOOLEAN
    /\ rule \in [Keys -> Rules \union {NoRule}]
    /\ DOMAIN value = Keys /\ \A k \in Keys : value[k] \in Values[k] \union {NoValue}
    /\ \A k \in Keys : previous[k] \in Values[k] \union {NoValue}
    /\ pc \in {"idle", "evaluating", "retrying"}
    /\ now \in Nat
    /\ todo \subseteq Keys /\ attempted \subseteq Keys

\* What is counted.
CountTypes ==
    /\ tries \in [Keys -> Nat]
    /\ copies \in [Keys -> [Thresholds -> Nat]]
    /\ faults \in Nat

\* A POST is about the record in its key's slot, which the loop has passed; the
\* retry loop goes through slots that are filled.
Phases ==
    /\ pc = "idle" => post = NoPost /\ todo = {}
    /\ pc = "retrying" => \A k \in todo : IsPending(k)
    /\ post # NoPost =>
          /\ post \in Posting
          /\ post.key \notin todo
          /\ IsPending(post.key) /\ post.record = pending[post.key]

\* A slot that is filled is about a threshold.
SlotHasThreshold == \A k \in Keys : IsPending(k) => pending[k].threshold \in Thresholds

\* The webhook may know of the record in a slot once more than there were
\* faults, but only while the answer is on its way into the rows.
AcceptedNow(k) == post # NoPost /\ post.key = k /\ post.answer = "accepted"

CopiesPaidFor ==
    /\ \A k \in Keys, t \in Thresholds : fate[k][t] = "none" => copies[k][t] = 0
    /\ \A k \in Keys : IsPending(k) /\ ~AcceptedNow(k) =>
          copies[k][pending[k].threshold] <= faults

RowsInv   == RowTypes /\ SlotHasThreshold /\ MarkerCoversSlot /\ QueuedIsPending
CountsInv == CountTypes /\ CopiesPaidFor /\ RepeatsNeedFaults
IInv      == RowsInv /\ PollTypes /\ Phases /\ CountsInv

-----------------------------------------------------------------------------
\* Rules and thresholds.

LEMMA RuleTypes ==
    ASSUME NEW r \in Rules \union {NoRule}
    PROVE  r.every \in Nat /\ r.at \subseteq Nat \ {0} /\ IsFiniteSet(r.at)
<1>1. CASE r \in Rules
    BY <1>1
<1>2. CASE r = NoRule
    BY <1>2, FS_EmptySet DEF NoRule
<1> QED BY <1>1, <1>2

\* No value is higher than the highest that a poll may report.
LEMMA ThresholdsCoverValues ==
    ASSUME NEW k \in Keys, NEW v \in Values[k], NEW t \in Nat \ {0}, t <= v
    PROVE  t \in Thresholds
<1> DEFINE all == UNION {Values[j] : j \in Keys}
<1>1. all \in SUBSET Nat /\ IsFiniteSet(all) /\ v \in all
    OBVIOUS
<1>2. Max(all) \in all /\ v <= Max(all)
    <2> HIDE DEF all
    <2>1. all # {}
        BY <1>1
    <2> QED BY <1>1, <2>1, GreatestElement
<1>3. Max(all) \in Nat /\ v \in Nat
    <2> HIDE DEF all
    <2> QED BY <1>1, <1>2
<1>4. Thresholds = 1..Max(all)
    BY DEF Thresholds
<1> HIDE DEF all
<1> QED BY <1>2, <1>3, <1>4

\* What a value has reached are finitely many thresholds, none above it.
LEMMA ReachedTypes ==
    ASSUME NEW r \in Rules \union {NoRule}, NEW k \in Keys,
           NEW v \in Values[k] \union {NoValue}
    PROVE  /\ Reached(r, v) \subseteq Thresholds
           /\ Reached(r, v) \subseteq Nat \ {0}
           /\ IsFiniteSet(Reached(r, v))
<1>1. r.every \in Nat /\ r.at \subseteq Nat \ {0} /\ IsFiniteSet(r.at)
    BY RuleTypes
<1>2. v \in Nat \union {-1}
    BY DEF NoValue
<1>3. \A m \in LastMultiple(r, v) : m \in Nat \ {0} /\ m <= v
    <2> SUFFICES ASSUME NEW m \in LastMultiple(r, v)
                 PROVE  m \in Nat \ {0} /\ m <= v
        OBVIOUS
    <2>1. r.every # 0 /\ m = (v \div r.every) * r.every /\ m > 0
        BY DEF LastMultiple
    <2>2. (v \div r.every) * r.every \in Int /\ (v \div r.every) * r.every <= v
        <3> DEFINE e == r.every
                   q == v \div e
        <3>1. e \in Nat /\ e > 0 /\ v \in Int
            BY <1>1, <1>2, <2>1
        <3> HIDE DEF e
        <3>2. q \in Int /\ v = e * q + (v % e) /\ v % e \in 0..e - 1
            BY <3>1
        <3> HIDE DEF q
        <3>3. e * q = q * e /\ q * e \in Int
            BY <3>1, <3>2
        <3>4. q * e <= v
            BY <3>1, <3>2, <3>3
        <3> QED BY <3>3, <3>4 DEF e, q
    <2> QED BY <1>2, <2>1, <2>2
<1>4. \A t \in Reached(r, v) : t \in Nat \ {0} /\ t <= v
    BY <1>1, <1>3 DEF Reached
<1>5. \A t \in Reached(r, v) : v \in Values[k] /\ t \in Thresholds
    <2> SUFFICES ASSUME NEW t \in Reached(r, v)
                 PROVE  v \in Values[k] /\ t \in Thresholds
        OBVIOUS
    <2>1. t \in Nat \ {0} /\ t <= v
        BY <1>4
    <2>2. v # -1
        BY <1>2, <2>1
    <2>3. v \in Values[k]
        BY <2>2 DEF NoValue
    <2> QED BY <2>1, <2>3, ThresholdsCoverValues
<1>6. IsFiniteSet(LastMultiple(r, v))
    <2>1. \/ LastMultiple(r, v) = {}
          \/ LastMultiple(r, v) = {(v \div r.every) * r.every}
        BY DEF LastMultiple
    <2>2. CASE LastMultiple(r, v) = {}
        BY <2>2, FS_EmptySet
    <2>3. CASE LastMultiple(r, v) = {(v \div r.every) * r.every}
        <3> DEFINE x == (v \div r.every) * r.every
        <3>1. LastMultiple(r, v) = {x}
            BY <2>3
        <3> HIDE DEF x
        <3>2. IsFiniteSet({x})
            BY FS_Singleton
        <3> QED BY <3>1, <3>2
    <2> QED BY <2>1, <2>2, <2>3
<1>7. IsFiniteSet({t \in r.at : t <= v})
    BY <1>1, FS_Subset
<1>8. IsFiniteSet(Reached(r, v))
    BY <1>6, <1>7, FS_Union DEF Reached
<1> QED BY <1>4, <1>5, <1>8

LEMMA HighestReachedType ==
    ASSUME NEW r \in Rules \union {NoRule}, NEW k \in Keys,
           NEW v \in Values[k] \union {NoValue}
    PROVE  HighestReached(r, v) \in Thresholds \union {0}
<1> DEFINE S == Reached(r, v) \union {0}
<1>1. /\ Reached(r, v) \subseteq Thresholds /\ Reached(r, v) \subseteq Nat
      /\ IsFiniteSet(Reached(r, v))
    BY ReachedTypes
<1>2. IsFiniteSet(S)
    BY <1>1, FS_AddElement
<1>3. S \in SUBSET Nat /\ S # {}
    BY <1>1
<1>4. Max(S) \in S
    BY <1>2, <1>3, GreatestElement
<1> QED BY <1>1, <1>4 DEF HighestReached

\* The threshold that fires is a new one, above the marker.
LEMMA CrossedTypes ==
    ASSUME PollTypes, RowTypes, NEW k \in Keys, CrossedNow(k) # {}
    PROVE  Max(CrossedNow(k)) \in Thresholds /\ Max(CrossedNow(k)) > marker[k]
<1> DEFINE S == CrossedNow(k)
<1>1. rule[k] \in Rules \union {NoRule} /\ value[k] \in Values[k] \union {NoValue}
    BY DEF PollTypes
<1>2. /\ Reached(rule[k], value[k]) \subseteq Thresholds
      /\ Reached(rule[k], value[k]) \subseteq Nat
      /\ IsFiniteSet(Reached(rule[k], value[k]))
    BY <1>1, ReachedTypes
<1>3. S \subseteq Reached(rule[k], value[k]) /\ \A t \in S : t > marker[k]
    BY DEF CrossedNow, Crossed
<1>4. S \in SUBSET Nat /\ IsFiniteSet(S) /\ S # {}
    BY <1>2, <1>3, FS_Subset
<1>5. Max(S) \in S
    BY <1>4, GreatestElement
<1> QED BY <1>2, <1>3, <1>5

LEMMA ThresholdNumbers ==
    /\ Thresholds \subseteq Int
    /\ \A t \in Thresholds : t > 0
<1> SUFFICES ASSUME NEW t \in Thresholds PROVE t \in Int /\ t > 0
    OBVIOUS
<1> DEFINE top == Max(UNION {Values[k] : k \in Keys})
<1>1. t \in 1..top
    BY DEF Thresholds
<1> HIDE DEF top
<1> QED BY <1>1

-----------------------------------------------------------------------------
\* What an action that leaves the variables of a part alone leaves true.

LEMMA RowsStay ==
    ASSUME RowsInv, UNCHANGED <<marker, pending, fate>>
    PROVE  RowsInv'
    BY DEF RowsInv, RowTypes, SlotHasThreshold, MarkerCoversSlot, QueuedIsPending,
           IsPending

LEMMA PhasesStay ==
    ASSUME Phases, UNCHANGED <<pending, pc, todo, post>>
    PROVE  Phases'
    BY DEF Phases, IsPending

LEMMA CountsStay ==
    ASSUME CountsInv, SlotHasThreshold,
           UNCHANGED <<pending, fate, copies, post>>, tries' \in [Keys -> Nat],
           faults' \in {faults, faults + 1}
    PROVE  CountsInv'
<1>1. faults \in Nat /\ faults' \in Nat /\ faults <= faults'
    BY DEF CountsInv, CountTypes
<1>2. CountTypes'
    BY <1>1 DEF CountsInv, CountTypes
<1>3. CopiesPaidFor'
    <2>1. ASSUME NEW k \in Keys, IsPending(k), ~AcceptedNow(k)
          PROVE  copies[k][pending[k].threshold] <= faults'
        <3>1. copies[k][pending[k].threshold] <= faults
            BY <2>1 DEF CountsInv, CopiesPaidFor
        <3>2. copies[k][pending[k].threshold] \in Nat
            BY <2>1 DEF CountsInv, CountTypes, SlotHasThreshold
        <3> QED BY <1>1, <3>1, <3>2
    <2> QED BY <2>1 DEF CountsInv, CopiesPaidFor, IsPending, AcceptedNow
<1>4. RepeatsNeedFaults'
    BY <1>1 DEF CountsInv, CountTypes, RepeatsNeedFaults
<1> QED BY <1>2, <1>3, <1>4 DEF CountsInv

\* A fault pays for the copy whose answer it lost, whatever POST was in progress.
LEMMA FaultPays ==
    ASSUME CountsInv, SlotHasThreshold,
           UNCHANGED <<pending, fate, copies>>, tries' \in [Keys -> Nat],
           faults' = faults + 1
    PROVE  CountsInv'
<1>1. faults \in Nat /\ faults' \in Nat
    BY DEF CountsInv, CountTypes
<1>2. CountTypes'
    BY <1>1 DEF CountsInv, CountTypes
<1>3. \A k \in Keys, t \in Thresholds : copies[k][t] <= faults'
    BY DEF CountsInv, CountTypes, RepeatsNeedFaults
<1>4. CopiesPaidFor'
    <2>1. \A k \in Keys : IsPending(k) => pending[k].threshold \in Thresholds
        BY DEF SlotHasThreshold
    <2> QED BY <1>3, <2>1 DEF CountsInv, CopiesPaidFor, IsPending
<1>5. RepeatsNeedFaults'
    BY <1>1, <1>3 DEF CountsInv, CountTypes, RepeatsNeedFaults
<1> QED BY <1>2, <1>4, <1>5 DEF CountsInv

\* A POST in progress is one.
LEMMA PostIsPosting ==
    ASSUME Phases, post.answer \in {"awaited", "accepted", "failed"}
    PROVE  /\ post # NoPost /\ post \in Posting
           /\ post.key \in Keys /\ post.record \in Records
           /\ post.key \notin todo
           /\ IsPending(post.key) /\ post.record = pending[post.key]
           /\ pc # "idle"
<1>1. post # NoPost
    BY DEF NoPost
<1> QED BY <1>1 DEF Phases, Posting

LEMMA ReportsTypes ==
    ASSUME PollTypes, NEW some \in SUBSET Keys, Reports(some)
    PROVE  DOMAIN value' = Keys /\ \A k \in Keys : value'[k] \in Values[k] \union {NoValue}
<1>1. PICK values \in [some -> UNION {Values[k] : k \in some}] :
          /\ \A k \in some : values[k] \in Values[k]
          /\ value' = [k \in Keys |-> IF k \in some THEN values[k] ELSE value[k]]
    BY DEF Reports
<1> QED BY <1>1 DEF PollTypes

-----------------------------------------------------------------------------
LEMMA InitIInv == Init => IInv
<1> SUFFICES ASSUME Init PROVE IInv
    OBVIOUS
<1>1. \A k \in Keys : ~IsPending(k)
    BY DEF Init, IsPending
<1>2. RowsInv
    <2>1. NoRecord \in Records
        BY DEF NoRecord, Records
    <2>2. RowTypes
        BY <2>1 DEF Init, RowTypes, Fates
    <2>3. \A k \in Keys, t \in Thresholds : fate[k][t] = "none"
        BY DEF Init
    <2> QED BY <1>1, <2>2, <2>3 DEF RowsInv, SlotHasThreshold, MarkerCoversSlot, QueuedIsPending
<1>3. PollTypes
    BY DEF Init, PollTypes
<1>4. Phases
    BY DEF Init, Phases
<1>5. CountsInv
    <2>1. CountTypes
        BY DEF Init, CountTypes
    <2>2. \A k \in Keys, t \in Thresholds : copies[k][t] = 0
        BY DEF Init
    <2>3. faults = 0
        BY DEF Init
    <2> QED BY <1>1, <2>1, <2>2, <2>3 DEF CountsInv, CopiesPaidFor, RepeatsNeedFaults
<1> QED BY <1>2, <1>3, <1>4, <1>5 DEF IInv

LEMMA TickKeeps ==
    ASSUME IInv, Tick
    PROVE  IInv'
<1>1. PollTypes'
    BY DEF Tick, IInv, PollTypes, rows, evaluation
<1> QED
    BY <1>1, RowsStay, PhasesStay, CountsStay
    DEF Tick, IInv, RowsInv, CountsInv, CountTypes, rows, evaluation

LEMMA StartKeeps ==
    ASSUME IInv, Start
    PROVE  IInv'
<1>1. PollTypes'
    <2>1. up' \in BOOLEAN
        BY Zenon DEF Start
    <2> QED BY <2>1 DEF Start, IInv, PollTypes, rows, evaluation
<1> QED
    BY <1>1, RowsStay, PhasesStay, CountsStay
    DEF Start, IInv, RowsInv, CountsInv, CountTypes, rows, evaluation

LEMMA ForgotPoll ==
    ASSUME IInv, ForgetPoll, UNCHANGED <<clock, rule, value>>, up' \in BOOLEAN
    PROVE  PollTypes' /\ tries' \in [Keys -> Nat]
    BY DEF ForgetPoll, IInv, PollTypes

LEMMA CrashKeeps ==
    ASSUME IInv, Crash
    PROVE  IInv'
<1>1. PollTypes' /\ tries' \in [Keys -> Nat]
    <2>1. up' \in BOOLEAN
        BY Zenon DEF Crash
    <2> QED BY <2>1, ForgotPoll DEF Crash, rows
<1>2. Phases'
    BY DEF Crash, Phases, ForgetPoll
<1>3. CountsInv'
    BY <1>1, FaultPays DEF Crash, Fault, IInv, RowsInv, rows
<1> QED BY <1>1, <1>2, <1>3, RowsStay DEF Crash, IInv, rows

LEMMA PollNotOkKeeps ==
    ASSUME IInv, PollNotOk
    PROVE  IInv'
<1>1. PollTypes'
    <2>1. DOMAIN value' = Keys /\ \A k \in Keys : value'[k] \in Values[k] \union {NoValue}
        BY ReportsTypes DEF PollNotOk, IInv
    <2> QED BY <2>1 DEF PollNotOk, IInv, PollTypes, evaluation
<1> QED
    BY <1>1, RowsStay, PhasesStay, CountsStay
    DEF PollNotOk, IInv, RowsInv, CountsInv, CountTypes, evaluation

LEMMA PollOkKeeps ==
    ASSUME IInv, PollOk
    PROVE  IInv'
<1>1. PollTypes'
    <2>1. DOMAIN value' = Keys /\ \A k \in Keys : value'[k] \in Values[k] \union {NoValue}
        BY ReportsTypes DEF PollOk, IInv
    <2>2. todo' \subseteq Keys
        BY DEF PollOk
    <2> QED BY <2>1, <2>2 DEF PollOk, IInv, PollTypes
<1>2. Phases'
    BY DEF PollOk, IInv, Phases
<1> QED
    BY <1>1, <1>2, RowsStay, CountsStay
    DEF PollOk, IInv, RowsInv, CountsInv, CountTypes

-----------------------------------------------------------------------------
\* The steps of the evaluation.

LEMMA InitialiseMarkerKeeps ==
    ASSUME IInv, NEW k \in Keys, InitialiseMarker(k)
    PROVE  IInv'
<1> DEFINE high == HighestReached(rule[k], value[k])
<1>1. high \in Thresholds \union {0}
    BY HighestReachedType DEF IInv, PollTypes
<1>2. /\ marker[k] = NoMarker /\ marker' = [marker EXCEPT ![k] = high]
      /\ UNCHANGED <<pending, fate>>
    BY DEF InitialiseMarker
<1> HIDE DEF high
<1>3. ~IsPending(k) /\ \A t \in Thresholds : fate[k][t] = "none"
    <2>1. \A t \in Thresholds : ~(t <= marker[k])
        <3> TAKE t \in Thresholds
        <3>1. t \in Int /\ t > 0
            BY ThresholdNumbers
        <3>2. marker[k] = -1
            BY <1>2 DEF NoMarker
        <3> QED BY <3>1, <3>2
    <2> QED
        BY <2>1, <1>2, ThresholdNumbers
        DEF IInv, RowsInv, MarkerCoversSlot, SlotHasThreshold, NoMarker
<1>4. RowsInv'
    <2>1. RowTypes'
        BY <1>1, <1>2 DEF IInv, RowsInv, RowTypes
    <2>2. MarkerCoversSlot'
        <3> SUFFICES ASSUME NEW j \in Keys
                     PROVE  /\ \A t \in Thresholds : fate[j][t] # "none" => t <= marker'[j]
                            /\ IsPending(j) => /\ pending[j].threshold = marker'[j]
                                               /\ fate[j][marker'[j]] \in {"queued", "delivered"}
            BY <1>2 DEF MarkerCoversSlot, IsPending
        <3>1. CASE j = k
            BY <1>3, <3>1
        <3>2. CASE j # k
            <4>1. marker'[j] = marker[j]
                BY <1>2, <3>2 DEF IInv, RowsInv, RowTypes
            <4> QED BY <4>1 DEF IInv, RowsInv, MarkerCoversSlot
        <3> QED BY <3>1, <3>2
    <2>3. SlotHasThreshold' /\ QueuedIsPending'
        BY <1>2 DEF IInv, RowsInv, SlotHasThreshold, QueuedIsPending, IsPending
    <2> QED BY <2>1, <2>2, <2>3 DEF RowsInv
<1>5. PollTypes'
    BY DEF InitialiseMarker, Take, IInv, PollTypes
<1>6. Phases'
    BY DEF InitialiseMarker, Take, IInv, Phases, IsPending
<1> QED
    BY <1>4, <1>5, <1>6, CountsStay
    DEF InitialiseMarker, IInv, RowsInv, CountsInv, CountTypes

\* A key that the loop passes without a change of its rows.
LEMMA PassedKeeps ==
    ASSUME IInv, NEW k \in Keys, NothingCrossed(k) \/ EvaluationFails(k)
    PROVE  IInv'
<1>1. PollTypes'
    BY DEF NothingCrossed, EvaluationFails, Take, IInv, PollTypes, rows
<1>2. Phases'
    BY DEF NothingCrossed, EvaluationFails, Take, IInv, Phases, IsPending, rows
<1>3. faults' \in {faults, faults + 1}
    BY DEF NothingCrossed, EvaluationFails, Fault
<1> QED
    BY <1>1, <1>2, <1>3, RowsStay, CountsStay
    DEF NothingCrossed, EvaluationFails, IInv, RowsInv, CountsInv, CountTypes, rows

\* The crossing that is queued is above the marker and above all that was ever
\* queued: marker and slot move to it, and the slot's last notification leaves.
LEMMA QueueMoves ==
    ASSUME IInv, NEW k \in Keys, Queue(k)
    PROVE  LET threshold == Max(CrossedNow(k))
               record == [threshold |-> threshold, queuedAt |-> now]
           IN  /\ threshold \in Thresholds /\ record \in Records /\ record # NoRecord
               /\ \A u \in Thresholds : u >= threshold => fate[k][u] = "none"
               /\ marker' = [marker EXCEPT ![k] = threshold]
               /\ pending' = [pending EXCEPT ![k] = record]
               /\ fate' = [Leaves(k, "displaced") EXCEPT ![k][threshold] = "queued"]
               /\ post' = [key |-> k, record |-> record, answer |-> "awaited"]
<1> DEFINE threshold == Max(CrossedNow(k))
           record == [threshold |-> threshold, queuedAt |-> now]
<1>1. threshold \in Thresholds /\ threshold > marker[k]
    BY CrossedTypes DEF Queue, IInv, RowsInv
<1>2. marker[k] \in Thresholds \union {0}
    BY DEF Queue, IInv, RowsInv, RowTypes
<1>3. /\ marker' = [marker EXCEPT ![k] = Stamp(k, threshold)]
      /\ pending' = [pending EXCEPT ![k] = record]
      /\ fate' = [Leaves(k, "displaced") EXCEPT ![k][threshold] = "queued"]
      /\ post' = [key |-> k, record |-> record, answer |-> "awaited"]
    BY DEF Queue, FillSlot, Send
<1> HIDE DEF threshold
<1>4. threshold \in Int /\ marker[k] \in Int /\ threshold > 0 /\ marker[k] >= 0
    <2>1. threshold \in Int /\ threshold > 0
        BY <1>1, ThresholdNumbers
    <2>2. CASE marker[k] \in Thresholds
        <3>1. marker[k] \in Int /\ marker[k] > 0
            BY <2>2, ThresholdNumbers
        <3> QED BY <2>1, <3>1
    <2>3. CASE marker[k] = 0
        BY <2>1, <2>3
    <2> QED BY <1>2, <2>2, <2>3
<1>5. record \in Records /\ record # NoRecord
    <2>1. threshold \in Thresholds \union {0} /\ now \in Nat
        BY <1>1 DEF IInv, PollTypes
    <2>2. record \in Records
        BY <2>1 DEF Records
    <2>3. record.threshold # NoRecord.threshold
        BY <1>4 DEF NoRecord
    <2> QED BY <2>2, <2>3
<1>6. pending[k].threshold \in {0, marker[k]}
    <2>1. CASE IsPending(k)
        BY <2>1 DEF IInv, RowsInv, MarkerCoversSlot
    <2>2. CASE ~IsPending(k)
        BY <2>2 DEF IsPending, NoRecord
    <2> QED BY <2>1, <2>2
<1>7. Stamp(k, threshold) = threshold
    <2>1. /\ Stamp(k, threshold) \in {marker[k], threshold, pending[k].threshold}
          /\ threshold <= Stamp(k, threshold)
        <3> DEFINE a == marker[k]
                   c == pending[k].threshold
        <3>1. a \in Int /\ c \in Int /\ threshold \in Int
            BY <1>4, <1>6
        <3>2. Stamp(k, threshold) = Max({a, threshold, c})
            BY DEF Stamp
        <3> HIDE DEF a, c
        <3>3. /\ Max({a, threshold, c}) \in {a, threshold, c}
              /\ threshold <= Max({a, threshold, c})
            BY <3>1, GreatestOfThree
        <3>4. Stamp(k, threshold) \in {a, threshold, c} /\ threshold <= Stamp(k, threshold)
            BY <3>2, <3>3
        <3> QED BY <3>4 DEF a, c
    <2> QED BY <1>1, <1>4, <1>6, <2>1
<1>8. \A u \in Thresholds : u >= threshold => fate[k][u] = "none"
    <2> TAKE u \in Thresholds
    <2>1. u \in Int
        BY ThresholdNumbers
    <2>2. fate[k][u] # "none" => u <= marker[k]
        BY DEF IInv, RowsInv, MarkerCoversSlot
    <2> QED BY <1>1, <1>4, <2>1, <2>2
<1> QED BY <1>1, <1>3, <1>5, <1>7, <1>8 DEF threshold

\* A notification that leaves the slot changes only what history says of it.
LEMMA LeavesTypes ==
    ASSUME RowsInv, NEW k \in Keys, NEW how \in Fates \ {"none", "queued"}
    PROVE  /\ Leaves(k, how) \in [Keys -> [Thresholds -> Fates]]
           /\ \A j \in Keys \ {k} : Leaves(k, how)[j] = fate[j]
           /\ \A t \in Thresholds :
                  /\ Leaves(k, how)[k][t] \in {fate[k][t], how}
                  /\ fate[k][t] = "none" => Leaves(k, how)[k][t] = "none"
                  /\ Leaves(k, how)[k][t] # "queued"
<1>1. CASE IsPending(k) /\ fate[k][pending[k].threshold] = "queued"
    <2> DEFINE held == pending[k].threshold
    <2>1. held \in Thresholds
        BY <1>1 DEF RowsInv, SlotHasThreshold
    <2>2. Leaves(k, how) = [fate EXCEPT ![k][held] = how]
        BY <1>1 DEF Leaves
    <2>3. \A t \in Thresholds : fate[k][t] = "queued" => held = t
        BY DEF RowsInv, QueuedIsPending
    <2>4. fate[k][held] = "queued"
        BY <1>1
    <2> HIDE DEF held
    <2> QED BY <2>1, <2>2, <2>3, <2>4 DEF RowsInv, RowTypes
<1>2. CASE ~(IsPending(k) /\ fate[k][pending[k].threshold] = "queued")
    <2>1. Leaves(k, how) = fate
        BY <1>2 DEF Leaves
    <2>2. ASSUME NEW t \in Thresholds, fate[k][t] = "queued"
          PROVE  FALSE
        <3>1. pending[k].threshold = t
            BY <2>2 DEF RowsInv, QueuedIsPending
        <3>2. t # 0
            BY ThresholdNumbers
        <3>3. pending[k] # NoRecord
            BY <3>1, <3>2 DEF NoRecord
        <3> QED BY <1>2, <2>2, <3>1, <3>3 DEF IsPending
    <2> QED BY <2>1, <2>2 DEF RowsInv, RowTypes
<1> QED BY <1>1, <1>2

LEMMA QueueKeeps ==
    ASSUME IInv, NEW k \in Keys, Queue(k)
    PROVE  IInv'
<1> DEFINE threshold == Max(CrossedNow(k))
           record == [threshold |-> threshold, queuedAt |-> now]
           left == Leaves(k, "displaced")
<1>1. /\ threshold \in Thresholds /\ record \in Records /\ record # NoRecord
      /\ \A u \in Thresholds : u >= threshold => fate[k][u] = "none"
      /\ marker' = [marker EXCEPT ![k] = threshold]
      /\ pending' = [pending EXCEPT ![k] = record]
      /\ fate' = [left EXCEPT ![k][threshold] = "queued"]
      /\ post' = [key |-> k, record |-> record, answer |-> "awaited"]
    BY QueueMoves
<1>2. /\ left \in [Keys -> [Thresholds -> Fates]]
      /\ \A j \in Keys \ {k} : left[j] = fate[j]
      /\ \A t \in Thresholds :
             /\ left[k][t] \in {fate[k][t], "displaced"}
             /\ fate[k][t] = "none" => left[k][t] = "none"
             /\ left[k][t] # "queued"
    BY LeavesTypes DEF IInv, Fates
<1> HIDE DEF threshold, left
<1>3. /\ marker'[k] = threshold /\ pending'[k] = record
      /\ fate'[k][threshold] = "queued"
      /\ \A t \in Thresholds \ {threshold} : fate'[k][t] = left[k][t]
      /\ \A j \in Keys \ {k} : /\ marker'[j] = marker[j]
                               /\ pending'[j] = pending[j]
                               /\ fate'[j] = fate[j]
    BY <1>1, <1>2 DEF IInv, RowsInv, RowTypes
<1>4. IsPending(k)' /\ pending'[k].threshold = threshold
    BY <1>1, <1>3 DEF IsPending
<1>5. fate[k][threshold] = "none" /\ threshold \in Int
    BY <1>1, ThresholdNumbers
<1>6. RowsInv'
    <2>1. RowTypes'
        BY <1>1, <1>2 DEF IInv, RowsInv, RowTypes, Fates
    <2>2. SlotHasThreshold'
        BY <1>1, <1>3, <1>4 DEF IInv, RowsInv, SlotHasThreshold, IsPending
    <2>3. \A t \in Thresholds : fate'[k][t] # "none" => t <= threshold
        <3> TAKE t \in Thresholds
        <3>1. t \in Int
            BY ThresholdNumbers
        <3>2. t > threshold => fate'[k][t] = "none"
            BY <1>1, <1>2, <1>3, <1>5, <3>1
        <3> QED BY <1>5, <3>1, <3>2
    <2>4. MarkerCoversSlot'
        BY <1>1, <1>3, <1>4, <2>3 DEF IInv, RowsInv, MarkerCoversSlot, IsPending
    <2>5. QueuedIsPending'
        BY <1>2, <1>3, <1>4 DEF IInv, RowsInv, QueuedIsPending
    <2> QED BY <2>1, <2>2, <2>4, <2>5 DEF RowsInv
<1>7. PollTypes'
    BY DEF Queue, Take, IInv, PollTypes
<1>8. Phases'
    <2>1. post' \in Posting /\ post'.key = k /\ post'.record = record
        BY <1>1 DEF Posting
    <2>2. k \notin todo' /\ pc' = "evaluating"
        BY DEF Queue, Take
    <2> QED BY <1>3, <1>4, <2>1, <2>2 DEF Phases
<1>9. CountsInv'
    <2>1. copies' = copies /\ faults' = faults
        BY DEF Queue
    <2>2. CountTypes'
        BY <2>1 DEF Queue, Send, IInv, CountsInv, CountTypes
    <2>3. copies[k][threshold] = 0 /\ faults \in Nat
        BY <1>1, <1>5 DEF IInv, CountsInv, CopiesPaidFor, CountTypes
    <2>4. ASSUME NEW j \in Keys, NEW t \in Thresholds, fate'[j][t] = "none"
          PROVE  copies'[j][t] = 0
        <3>1. fate[j][t] = "none"
            BY <1>2, <1>3, <2>4
        <3> QED BY <2>1, <3>1 DEF IInv, CountsInv, CopiesPaidFor
    <2>5. ASSUME NEW j \in Keys, IsPending(j)', ~AcceptedNow(j)'
          PROVE  copies'[j][pending'[j].threshold] <= faults'
        <3>1. CASE j = k
            BY <1>3, <1>4, <2>1, <2>3, <3>1
        <3>2. CASE j # k
            <4>1. IsPending(j) /\ pending'[j] = pending[j]
                BY <1>3, <2>5, <3>2 DEF IsPending
            <4>2. post = NoPost
                BY DEF Queue, Take
            <4> QED BY <2>1, <4>1, <4>2 DEF AcceptedNow, IInv, CountsInv, CopiesPaidFor
        <3> QED BY <3>1, <3>2
    <2>6. CopiesPaidFor'
        BY <2>4, <2>5 DEF CopiesPaidFor
    <2>7. RepeatsNeedFaults'
        BY <2>1 DEF IInv, CountsInv, RepeatsNeedFaults
    <2> QED BY <2>2, <2>6, <2>7 DEF CountsInv
<1> QED BY <1>6, <1>7, <1>8, <1>9 DEF IInv

-----------------------------------------------------------------------------
\* The steps of the retry loop.

LEMMA StartRetryingKeeps ==
    ASSUME IInv, StartRetrying
    PROVE  IInv'
<1>1. PollTypes'
    BY DEF StartRetrying, ToRetry, IInv, PollTypes, rows
<1>2. Phases'
    BY DEF StartRetrying, ToRetry, Phases, IsPending, rows
<1> QED
    BY <1>1, <1>2, RowsStay, CountsStay
    DEF StartRetrying, IInv, RowsInv, CountsInv, CountTypes, rows

LEMMA PollOverKeeps ==
    ASSUME IInv, RetryFails \/ PollEnds
    PROVE  IInv'
<1>1. PollTypes' /\ tries' \in [Keys -> Nat]
    <2>1. up' \in BOOLEAN
        BY DEF RetryFails, PollEnds, IInv, PollTypes
    <2> QED BY <2>1, ForgotPoll DEF RetryFails, PollEnds, rows
<1>2. Phases'
    BY DEF RetryFails, PollEnds, ForgetPoll, Phases
<1>3. faults' \in {faults, faults + 1}
    BY DEF RetryFails, PollEnds, Fault
<1> QED
    BY <1>1, <1>2, <1>3, RowsStay, CountsStay
    DEF RetryFails, PollEnds, IInv, RowsInv, rows

LEMMA RetryKeeps ==
    ASSUME IInv, NEW k \in Keys, Retry(k)
    PROVE  IInv'
<1>1. PollTypes'
    BY DEF Retry, Take, IInv, PollTypes, rows
<1>2. post' = [key |-> k, record |-> pending[k], answer |-> "awaited"]
    BY DEF Retry, Send
<1>3. IsPending(k) /\ pending[k] \in Records
    BY DEF Retry, Take, IInv, Phases, RowsInv, RowTypes
<1>4. Phases'
    BY <1>2, <1>3 DEF Retry, Take, IInv, Phases, Posting, IsPending, rows
<1>5. RowsInv'
    BY RowsStay DEF Retry, IInv, rows
<1>6. CountsInv'
    <2>1. CountTypes'
        BY DEF Retry, Send, IInv, CountsInv, CountTypes
    <2>2. post = NoPost
        BY DEF Retry, Take
    <2>3. CopiesPaidFor'
        BY <2>2 DEF Retry, rows, IInv, CountsInv, CopiesPaidFor, IsPending, AcceptedNow
    <2>4. RepeatsNeedFaults'
        BY DEF Retry, IInv, CountsInv, RepeatsNeedFaults
    <2> QED BY <2>1, <2>3, <2>4 DEF CountsInv
<1> QED BY <1>1, <1>4, <1>5, <1>6 DEF IInv

-----------------------------------------------------------------------------
\* The steps of a POST.

\* The record that was sent is about the threshold of the marker, and has been
\* delivered no oftener than there were faults.
LEMMA PostedThreshold ==
    ASSUME IInv, post.answer \in {"awaited", "accepted", "failed"}
    PROVE  LET k == post.key
               t == post.record.threshold
           IN  /\ k \in Keys /\ IsPending(k) /\ post.record = pending[k] /\ k \notin todo
               /\ t \in Thresholds /\ t = marker[k] /\ t = pending[k].threshold
               /\ fate[k][t] \in {"queued", "delivered"}
               /\ post \in Posting /\ pc # "idle"
<1>1. /\ post.key \in Keys /\ IsPending(post.key) /\ post.record = pending[post.key]
      /\ post.key \notin todo /\ post \in Posting /\ pc # "idle"
    BY PostIsPosting DEF IInv
<1> QED BY <1>1 DEF IInv, RowsInv, MarkerCoversSlot, SlotHasThreshold

\* The webhook gets the record of the slot.
LEMMA ArrivesKeeps ==
    ASSUME IInv, post.answer = "awaited", Arrives, UNCHANGED <<marker, pending, tries>>,
           post'.key = post.key, post' # NoPost,
           \/ faults' = faults /\ post'.answer = "accepted"
           \/ faults' = faults + 1
    PROVE  RowsInv' /\ CountsInv'
<1> DEFINE k == post.key
           t == post.record.threshold
<1>1. /\ k \in Keys /\ t \in Thresholds /\ t = marker[k] /\ t = pending[k].threshold
      /\ IsPending(k) /\ fate[k][t] \in {"queued", "delivered"}
    BY PostedThreshold
<1>2. /\ copies' = [copies EXCEPT ![k][t] = @ + 1]
      /\ fate' = [fate EXCEPT ![k][t] = "delivered"]
    BY DEF Arrives
<1>3. post'.key = k /\ post.key = k
    OBVIOUS
<1> HIDE DEF k, t
<1>4. /\ fate'[k][t] = "delivered"
      /\ \A j \in Keys, u \in Thresholds : j # k \/ u # t => fate'[j][u] = fate[j][u]
    BY <1>1, <1>2 DEF IInv, RowsInv, RowTypes
<1>5. RowsInv'
    <2>1. RowTypes'
        BY <1>1, <1>2 DEF IInv, RowsInv, RowTypes, Fates
    <2>2. SlotHasThreshold'
        BY DEF IInv, RowsInv, SlotHasThreshold, IsPending
    <2>3. MarkerCoversSlot'
        <3>1. \A j \in Keys, u \in Thresholds : fate'[j][u] # "none" => fate[j][u] # "none"
            BY <1>1, <1>4
        <3>2. \A j \in Keys : IsPending(j) =>
                  /\ pending[j].threshold = marker[j]
                  /\ fate'[j][marker[j]] \in {"queued", "delivered"}
            <4> TAKE j \in Keys
            <4> HAVE IsPending(j)
            <4>1. /\ pending[j].threshold = marker[j] /\ pending[j].threshold \in Thresholds
                  /\ fate[j][marker[j]] \in {"queued", "delivered"}
                BY DEF IInv, RowsInv, MarkerCoversSlot, SlotHasThreshold
            <4> QED BY <1>4, <4>1
        <3> QED BY <3>1, <3>2 DEF IInv, RowsInv, MarkerCoversSlot, IsPending
    <2>4. QueuedIsPending'
        BY <1>4 DEF IInv, RowsInv, QueuedIsPending
    <2> QED BY <2>1, <2>2, <2>3, <2>4 DEF RowsInv
<1>6. CountsInv'
    <2>1. faults \in Nat /\ faults' \in Nat /\ faults <= faults'
        BY DEF IInv, CountsInv, CountTypes
    <2>2. CountTypes'
        BY <1>1, <1>2, <2>1 DEF IInv, CountsInv, CountTypes
    <2>3. copies[k][t] \in Nat /\ copies[k][t] <= faults
        <3>1. ~AcceptedNow(k)
            BY DEF AcceptedNow
        <3> QED BY <1>1, <3>1 DEF IInv, CountsInv, CountTypes, CopiesPaidFor
    <2>4. /\ copies'[k][t] = copies[k][t] + 1
          /\ \A j \in Keys, u \in Thresholds : j # k \/ u # t => copies'[j][u] = copies[j][u]
        BY <1>1, <1>2 DEF IInv, CountsInv, CountTypes
    <2>5. RepeatsNeedFaults'
        <3> SUFFICES ASSUME NEW j \in Keys, NEW u \in Thresholds
                     PROVE  copies'[j][u] <= 1 + faults'
            BY DEF RepeatsNeedFaults
        <3>1. copies[j][u] \in Nat /\ copies[j][u] <= 1 + faults
            BY DEF IInv, CountsInv, CountTypes, RepeatsNeedFaults
        <3>2. CASE j # k \/ u # t
            BY <2>1, <2>4, <3>1, <3>2
        <3>3. CASE j = k /\ u = t
            BY <2>1, <2>3, <2>4, <3>3
        <3> QED BY <3>2, <3>3
    <2>6. ASSUME NEW j \in Keys, IsPending(j), ~AcceptedNow(j)'
          PROVE  copies'[j][pending[j].threshold] <= faults'
        <3>1. CASE j = k
            <4>1. faults' = faults + 1
                BY <1>3, <2>6, <3>1 DEF AcceptedNow
            <4> QED BY <1>1, <2>1, <2>3, <2>4, <3>1, <4>1
        <3>2. CASE j # k
            <4>1. ~AcceptedNow(j)
                BY <1>3, <3>2 DEF AcceptedNow
            <4>2. pending[j].threshold \in Thresholds
                BY <2>6 DEF IInv, RowsInv, SlotHasThreshold
            <4>3. copies[j][pending[j].threshold] <= faults
                BY <2>6, <4>1 DEF IInv, CountsInv, CopiesPaidFor
            <4>4. copies[j][pending[j].threshold] \in Nat
                BY <4>2 DEF IInv, CountsInv, CountTypes
            <4>5. copies'[j][pending[j].threshold] = copies[j][pending[j].threshold]
                BY <2>4, <3>2, <4>2
            <4> QED BY <2>1, <4>3, <4>4, <4>5
        <3> QED BY <3>1, <3>2
    <2>7. \A j \in Keys, u \in Thresholds : fate'[j][u] = "none" => copies'[j][u] = 0
        BY <1>4, <2>4 DEF IInv, CountsInv, CopiesPaidFor
    <2>8. CopiesPaidFor'
        BY <2>6, <2>7 DEF CopiesPaidFor, IsPending
    <2> QED BY <2>2, <2>5, <2>8 DEF CountsInv
<1> QED BY <1>5, <1>6

LEMMA AnswerKeeps ==
    ASSUME IInv, Answer
    PROVE  IInv'
<1>1. post.answer = "awaited" /\ UNCHANGED <<clock, up, rule, rows, evaluation>>
    BY DEF Answer
<1>2. \E answer \in {"accepted", "failed"} : post' = [post EXCEPT !.answer = answer]
    BY DEF Answer
<1>3. post \in Posting
    BY <1>1, PostedThreshold
<1>4. /\ post' \in Posting /\ post'.key = post.key /\ post'.record = post.record
      /\ post' # NoPost /\ post'.answer \in {"accepted", "failed"}
    BY <1>2, <1>3 DEF Posting, NoPost
<1>5. PollTypes'
    BY <1>1 DEF IInv, PollTypes, rows, evaluation
<1>6. Phases'
    <2>1. post # NoPost
        BY <1>1 DEF NoPost
    <2> QED BY <1>1, <1>4, <2>1 DEF IInv, Phases, IsPending, rows, evaluation
<1>7. RowsInv' /\ CountsInv'
    <2>1. CASE Arrives /\ post' = [post EXCEPT !.answer = "accepted"] /\ UNCHANGED faults
        <3>1. post'.answer = "accepted"
            BY <1>3, <2>1 DEF Posting
        <3> QED BY <1>1, <1>4, <2>1, <3>1, ArrivesKeeps DEF rows, evaluation
    <2>2. CASE Arrives /\ post' = [post EXCEPT !.answer = "failed"] /\ Fault
        BY <1>1, <1>4, <2>2, ArrivesKeeps DEF rows, evaluation, Fault
    <2>3. CASE post' = [post EXCEPT !.answer = "failed"] /\ UNCHANGED <<fate, copies, faults>>
        <3>1. \A k \in Keys : ~AcceptedNow(k)
            BY <1>1 DEF AcceptedNow
        <3>2. RowsInv'
            BY <1>1, <2>3, RowsStay DEF IInv, rows
        <3>3. CountsInv'
            BY <1>1, <2>3, <3>1
            DEF IInv, CountsInv, CountTypes, CopiesPaidFor, RepeatsNeedFaults, IsPending,
                rows, evaluation
        <3> QED BY <3>2, <3>3
    <2> QED BY <2>1, <2>2, <2>3 DEF Answer
<1> QED BY <1>5, <1>6, <1>7 DEF IInv

LEMMA SettleKeeps ==
    ASSUME IInv, Settle
    PROVE  IInv'
<1> PICK k \in Keys : k = post.key
    BY PostedThreshold DEF Settle
<1> DEFINE left == Leaves(k, "dropped")
<1>1. /\ k \in Keys /\ IsPending(k) /\ k \notin todo /\ pc # "idle"
      /\ post.record.threshold \in Thresholds /\ post.record.threshold = marker[k]
    BY PostedThreshold DEF Settle
<1>2. /\ post' = NoPost
      /\ attempted' = IF pc = "evaluating" THEN attempted \union {k} ELSE attempted
      /\ UNCHANGED <<clock, up, rule, value, pc, previous, now, todo, tries, copies, faults>>
    BY DEF Settle, Done
<1>3. PollTypes'
    BY <1>1, <1>2 DEF IInv, PollTypes
<1>4. CASE ClearSlot(k) /\ fate' = left
    <2>1. marker' = marker /\ pending' = [pending EXCEPT ![k] = NoRecord]
        <3>1. marker[k] \in Int
            BY <1>1, ThresholdNumbers
        <3>2. Max({marker[k], marker[k]}) = marker[k]
            BY <3>1, GreaterOfTwo
        <3>3. marker' = [marker EXCEPT ![k] = Max({marker[k], marker[k]})]
            BY <1>1, <1>4 DEF ClearSlot
        <3> QED BY <1>4, <3>2, <3>3 DEF ClearSlot, IInv, RowsInv, RowTypes
    <2>2. /\ left \in [Keys -> [Thresholds -> Fates]]
          /\ \A j \in Keys \ {k} : left[j] = fate[j]
          /\ \A t \in Thresholds : /\ left[k][t] \in {fate[k][t], "dropped"}
                                   /\ fate[k][t] = "none" => left[k][t] = "none"
                                   /\ left[k][t] # "queued"
        BY <1>1, LeavesTypes DEF IInv, Fates
    <2>3. /\ pending'[k] = NoRecord
          /\ \A j \in Keys \ {k} : pending'[j] = pending[j] /\ fate'[j] = fate[j]
          /\ \A t \in Thresholds : /\ fate'[k][t] = "none" <=> fate[k][t] = "none"
                                   /\ fate'[k][t] # "queued"
        BY <1>1, <1>4, <2>1, <2>2 DEF IInv, RowsInv, RowTypes
    <2>4. ~IsPending(k)'
        BY <2>3 DEF IsPending
    <2> HIDE DEF left
    <2>5. RowsInv'
        <3>1. NoRecord \in Records
            BY DEF NoRecord, Records
        <3>2. RowTypes'
            BY <1>1, <1>4, <2>1, <2>2, <3>1 DEF IInv, RowsInv, RowTypes
        <3>3. SlotHasThreshold' /\ MarkerCoversSlot' /\ QueuedIsPending'
            BY <1>1, <2>1, <2>3, <2>4
            DEF IInv, RowsInv, SlotHasThreshold, MarkerCoversSlot, QueuedIsPending, IsPending
        <3> QED BY <3>2, <3>3 DEF RowsInv
    <2>6. Phases'
        <3>1. todo \subseteq Keys \ {k}
            BY <1>1 DEF IInv, PollTypes
        <3> QED BY <1>1, <1>2, <2>3, <3>1 DEF IInv, Phases, IsPending
    <2>7. CountsInv'
        <3>1. CountTypes' /\ RepeatsNeedFaults'
            BY <1>2 DEF IInv, CountsInv, CountTypes, RepeatsNeedFaults
        <3>2. ASSUME NEW j \in Keys, IsPending(j)'
              PROVE  copies'[j][pending'[j].threshold] <= faults'
            <4>1. j # k
                BY <2>4, <3>2
            <4>2. IsPending(j) /\ pending'[j] = pending[j]
                BY <2>3, <3>2, <4>1 DEF IsPending
            <4>3. ~AcceptedNow(j)
                BY <4>1 DEF AcceptedNow
            <4> QED BY <1>2, <4>2, <4>3 DEF IInv, CountsInv, CopiesPaidFor
        <3>3. \A j \in Keys, t \in Thresholds : fate'[j][t] = "none" => copies'[j][t] = 0
            BY <1>2, <2>3 DEF IInv, CountsInv, CopiesPaidFor
        <3> QED BY <3>1, <3>2, <3>3 DEF CountsInv, CopiesPaidFor
    <2> QED BY <1>3, <2>5, <2>6, <2>7 DEF IInv
<1>5. CASE post.answer = "failed" /\ UNCHANGED <<pending, marker, fate>>
    <2>1. RowsInv'
        BY <1>5, RowsStay DEF IInv
    <2>2. Phases'
        BY <1>1, <1>2, <1>5 DEF IInv, Phases, IsPending
    <2>3. \A j \in Keys : ~AcceptedNow(j)
        BY <1>5 DEF AcceptedNow
    <2>4. CountsInv'
        BY <1>2, <1>5, <2>3
        DEF IInv, CountsInv, CountTypes, CopiesPaidFor, RepeatsNeedFaults, IsPending
    <2> QED BY <1>3, <2>1, <2>2, <2>4 DEF IInv
<1>6. \/ ClearSlot(k) /\ fate' = left
      \/ post.answer = "failed" /\ UNCHANGED <<pending, marker, fate>>
    BY DEF Settle
<1> QED BY <1>4, <1>5, <1>6

LEMMA SettleFailsKeeps ==
    ASSUME IInv, SettleFails
    PROVE  IInv'
<1>1. pc # "idle"
    BY PostedThreshold DEF SettleFails
<1>2. /\ post' = NoPost /\ faults' = faults + 1
      /\ UNCHANGED <<clock, up, rule, rows, evaluation, fate, copies>>
    BY DEF SettleFails, Fault
<1>3. PollTypes'
    BY <1>2 DEF IInv, PollTypes, rows, evaluation
<1>4. Phases'
    BY <1>1, <1>2 DEF IInv, Phases, IsPending, rows, evaluation
<1>5. RowsInv'
    BY <1>2, RowsStay DEF IInv, rows
<1>6. CountsInv'
    BY <1>2, FaultPays DEF IInv, RowsInv, CountsInv, CountTypes, rows, evaluation
<1> QED BY <1>3, <1>4, <1>5, <1>6 DEF IInv

-----------------------------------------------------------------------------
LEMMA StepIInv == IInv /\ [Next]_vars => IInv'
<1> SUFFICES ASSUME IInv, [Next]_vars PROVE IInv'
    OBVIOUS
<1>1. CASE Tick
    BY <1>1, TickKeeps
<1>2. CASE Start
    BY <1>2, StartKeeps
<1>3. CASE Crash
    BY <1>3, CrashKeeps
<1>4. CASE PollNotOk
    BY <1>4, PollNotOkKeeps
<1>5. CASE PollOk
    BY <1>5, PollOkKeeps
<1>6. CASE \E k \in Keys : EvaluateKey(k)
    <2> PICK k \in Keys : EvaluateKey(k)
        BY <1>6
    <2> QED BY InitialiseMarkerKeeps, PassedKeeps, QueueKeeps DEF EvaluateKey
<1>7. CASE \E k \in Keys : Retry(k)
    BY <1>7, RetryKeeps
<1>8. CASE StartRetrying
    BY <1>8, StartRetryingKeeps
<1>9. CASE RetryFails \/ PollEnds
    BY <1>9, PollOverKeeps
<1>10. CASE Answer
    BY <1>10, AnswerKeeps
<1>11. CASE Settle
    BY <1>11, SettleKeeps
<1>12. CASE SettleFails
    BY <1>12, SettleFailsKeeps
<1>13. CASE UNCHANGED vars
    <2>1. UNCHANGED <<clock, up, rule, rows, evaluation, post, fate, copies, faults>>
        BY <1>13 DEF vars
    <2>2. PollTypes' /\ CountTypes'
        BY <2>1 DEF IInv, CountsInv, PollTypes, CountTypes, rows, evaluation
    <2> QED
        BY <2>1, <2>2, RowsStay, PhasesStay, CountsStay
        DEF IInv, RowsInv, CountTypes, rows, evaluation
<1> QED
    BY <1>1, <1>2, <1>3, <1>4, <1>5, <1>6, <1>7, <1>8, <1>9, <1>10, <1>11, <1>12, <1>13
    DEF Next, Hook

\* The rows, the poll and the counts agree in every reachable state.
THEOREM InvariantHolds == Spec => []IInv
<1>1. Init => IInv
    BY InitIInv
<1>2. IInv /\ [Next]_vars => IInv'
    BY StepIInv
<1> QED BY <1>1, <1>2, PTL DEF Spec

\* milestones.py's variables and rows always have their types.
THEOREM TypeCorrect == Spec => []TypeOK
<1>1. IInv => TypeOK
    <2> SUFFICES ASSUME IInv PROVE TypeOK
        OBVIOUS
    <2>1. post \in Posting \union {NoPost}
        BY DEF IInv, Phases
    <2>2. up \in BOOLEAN
        BY DEF IInv, PollTypes
    <2>3. /\ clock \in Nat /\ rule \in [Keys -> Rules \union {NoRule}]
          /\ \A k \in Keys : value[k] \in Values[k] \union {NoValue}
          /\ \A k \in Keys : previous[k] \in Values[k] \union {NoValue}
          /\ pc \in {"idle", "evaluating", "retrying"}
          /\ now \in Nat /\ todo \subseteq Keys /\ attempted \subseteq Keys
        BY DEF IInv, PollTypes
    <2>4. RowTypes /\ CountTypes
        BY DEF IInv, RowsInv, CountsInv
    <2> QED BY <2>1, <2>2, <2>3, <2>4 DEF TypeOK, RowTypes, CountTypes
<1> QED BY <1>1, InvariantHolds, PTL

\* Marker and slot never contradict each other, whatever crash, lost answer or
\* failed write comes between two of the evaluator's transactions.
THEOREM RowsAgree == Spec => []MarkerCoversSlot
<1>1. IInv => MarkerCoversSlot
    BY DEF IInv, RowsInv
<1> QED BY <1>1, InvariantHolds, PTL

\* No crash, restart or failing storage call loses a queued notification.
THEOREM NothingLost == Spec => []QueuedIsPending
<1>1. IInv => QueuedIsPending
    BY DEF IInv, RowsInv
<1> QED BY <1>1, InvariantHolds, PTL

\* The webhook hears of a threshold once, and once more for a fault at most.
THEOREM RepeatsPaidFor == Spec => []RepeatsNeedFaults
<1>1. IInv => RepeatsNeedFaults
    BY DEF IInv, CountsInv
<1> QED BY <1>1, InvariantHolds, PTL

\* A threshold fires once, ever, and only upwards.
THEOREM FiredOnce == Spec => FiresOnce
<1> DEFINE Fires ==
        \A k \in Keys, t \in Thresholds :
            fate'[k][t] = "queued" /\ fate[k][t] # "queued" =>
                \A u \in Thresholds : u >= t => fate[k][u] = "none"
<1>1. IInv /\ [Next]_vars => [Fires]_vars
    <2> SUFFICES ASSUME IInv, Next,
                        NEW k \in Keys, NEW t \in Thresholds,
                        fate'[k][t] = "queued", fate[k][t] # "queued",
                        NEW u \in Thresholds, u >= t
                 PROVE  fate[k][u] = "none"
        OBVIOUS
    <2>1. PICK j \in Keys : Queue(j)
        <3>1. CASE Arrives
            <4>1. fate' = [fate EXCEPT ![post.key][post.record.threshold] = "delivered"]
                BY <3>1 DEF Arrives
            <4> QED BY <4>1 DEF IInv, RowsInv, RowTypes
        <3>2. CASE Settle
            <4>1. fate' = fate \/ fate' = Leaves(post.key, "dropped")
                BY <3>2 DEF Settle
            <4>2. CASE fate' = Leaves(post.key, "dropped")
                <5>1. post.key \in Keys
                    BY <3>2, PostedThreshold DEF Settle
                <5>2. /\ \A i \in Keys \ {post.key} : fate'[i] = fate[i]
                      /\ fate'[post.key][t] # "queued" \/ post.key # k
                    BY <4>2, <5>1, LeavesTypes DEF IInv, Fates
                <5> QED BY <5>2
            <4> QED BY <4>1, <4>2
        <3>3. CASE fate' = fate
            BY <3>3
        <3>4. \/ fate' = fate \/ Arrives \/ Settle \/ \E j \in Keys : Queue(j)
            BY DEF Next, Tick, Start, Crash, PollNotOk, PollOk, Hook, EvaluateKey,
                   InitialiseMarker, NothingCrossed, EvaluationFails, Retry,
                   StartRetrying, RetryFails, PollEnds, Answer, SettleFails
        <3> QED BY <3>1, <3>2, <3>3, <3>4
    <2> DEFINE threshold == Max(CrossedNow(j))
               left == Leaves(j, "displaced")
    <2>2. /\ threshold \in Thresholds
          /\ \A v \in Thresholds : v >= threshold => fate[j][v] = "none"
          /\ fate' = [left EXCEPT ![j][threshold] = "queued"]
        BY <2>1, QueueMoves
    <2>3. /\ left \in [Keys -> [Thresholds -> Fates]]
          /\ \A i \in Keys \ {j} : left[i] = fate[i]
          /\ \A v \in Thresholds : left[j][v] # "queued"
        BY LeavesTypes DEF IInv, Fates
    <2> HIDE DEF threshold, left
    <2>4. j = k /\ t = threshold
        BY <2>2, <2>3
    <2> QED BY <2>2, <2>4
<1> QED BY <1>1, InvariantHolds, PTL DEF Spec, FiresOnce

-----------------------------------------------------------------------------
\* How often a poll has tried a key: never before its turn but for a write that
\* failed, and once, but for such a write, when the loops are through.

Sending(k) == post # NoPost /\ post.key = k

TriedInv ==
    /\ pc = "idle" => attempted = {} /\ \A k \in Keys : tries[k] = 0
    /\ \A k \in Keys : tries[k] <= 1 + faults
    /\ \A k \in todo : tries[k] <= faults
    /\ \A k \in Keys : Sending(k) => tries[k] >= 1
    /\ pc = "evaluating" => \A k \in Keys :
          /\ k \in attempted => tries[k] >= 1
          /\ k \notin attempted /\ ~Sending(k) => tries[k] <= faults
    /\ pc = "retrying" => \A k \in Keys : IsPending(k) => k \in todo \/ tries[k] >= 1

\* A step that sends nothing and ends no POST.
LEMMA TriedStays ==
    ASSUME IInv, TriedInv, UNCHANGED <<pc, tries, attempted, pending>>,
           \A k \in Keys : Sending(k)' <=> Sending(k),
           todo' \subseteq todo, pc = "retrying" => todo' = todo,
           faults' \in {faults, faults + 1}
    PROVE  TriedInv'
<1>1. faults \in Nat /\ faults' \in Nat /\ faults <= faults'
    BY DEF IInv, CountsInv, CountTypes
<1>2. \A k \in Keys : tries[k] \in Nat
    BY DEF IInv, CountsInv, CountTypes
<1>3. todo \subseteq Keys
    BY DEF IInv, PollTypes
<1>4. \A k \in Keys : tries'[k] <= 1 + faults'
    BY <1>1, <1>2 DEF TriedInv
<1>5. \A k \in todo' : tries'[k] <= faults'
    BY <1>1, <1>2, <1>3 DEF TriedInv
<1>6. \A k \in Keys : Sending(k)' => tries'[k] >= 1
    BY DEF TriedInv
<1>7. pc' = "evaluating" => \A k \in Keys :
          /\ k \in attempted' => tries'[k] >= 1
          /\ k \notin attempted' /\ ~Sending(k)' => tries'[k] <= faults'
    BY <1>1, <1>2 DEF TriedInv
<1>8. pc' = "idle" => attempted' = {} /\ \A k \in Keys : tries'[k] = 0
    BY DEF TriedInv
<1>9. pc' = "retrying" => \A k \in Keys : IsPending(k)' => k \in todo' \/ tries'[k] >= 1
    BY DEF TriedInv, IsPending
<1> QED BY <1>4, <1>5, <1>6, <1>7, <1>8, <1>9 DEF TriedInv

\* A poll that is over, or cut short, has nothing in progress.
LEMMA TriedForgotten ==
    ASSUME IInv, ForgetPoll, post' = NoPost, faults' \in {faults, faults + 1}
    PROVE  TriedInv'
<1>1. faults' \in Nat
    BY DEF IInv, CountsInv, CountTypes
<1>2. /\ pc' = "idle" /\ todo' = {} /\ attempted' = {}
      /\ \A k \in Keys : tries'[k] = 0
    BY DEF ForgetPoll
<1> QED BY <1>1, <1>2 DEF TriedInv, Sending

\* The loop sends a key's record.
LEMMA SendTries ==
    ASSUME IInv, TriedInv, NEW k \in Keys, k \in todo, todo' = todo \ {k}, post = NoPost,
           NEW record, Send(k, record), UNCHANGED <<pc, attempted, faults>>,
           pc # "idle", pc = "retrying" => pending' = pending
    PROVE  TriedInv'
<1>1. /\ post' = [key |-> k, record |-> record, answer |-> "awaited"]
      /\ tries' = [tries EXCEPT ![k] = @ + 1]
    BY DEF Send
<1>2. /\ tries \in [Keys -> Nat] /\ faults \in Nat /\ todo \subseteq Keys
      /\ tries[k] \in Nat /\ tries[k] <= faults
    BY DEF IInv, CountsInv, CountTypes, PollTypes, TriedInv
<1>3. /\ tries'[k] = tries[k] + 1
      /\ \A j \in Keys \ {k} : tries'[j] = tries[j]
    BY <1>1, <1>2
<1>4. /\ \A j \in Keys : Sending(j)' <=> j = k
      /\ \A j \in Keys : ~Sending(j)
    BY <1>1 DEF Sending, NoPost
<1>5. \A j \in Keys : tries'[j] <= 1 + faults'
    BY <1>2, <1>3 DEF TriedInv
<1>6. \A j \in todo' : tries'[j] <= faults'
    BY <1>2, <1>3 DEF TriedInv
<1>7. \A j \in Keys : Sending(j)' => tries'[j] >= 1
    BY <1>2, <1>3, <1>4
<1>8. pc' = "evaluating" => \A j \in Keys :
          /\ j \in attempted' => tries'[j] >= 1
          /\ j \notin attempted' /\ ~Sending(j)' => tries'[j] <= faults'
    BY <1>2, <1>3, <1>4 DEF TriedInv
<1>9. pc' = "retrying" => \A j \in Keys : IsPending(j)' => j \in todo' \/ tries'[j] >= 1
    BY <1>2, <1>3 DEF TriedInv, IsPending
<1> QED BY <1>5, <1>6, <1>7, <1>8, <1>9 DEF TriedInv

\* A POST ends: its key counts as attempted, unless the write failed.
LEMMA SettledTries ==
    ASSUME IInv, TriedInv, NEW k \in Keys, Sending(k), post' = NoPost,
           UNCHANGED <<pc, todo, tries>>, pc # "idle",
           pending' \in {pending, [pending EXCEPT ![k] = NoRecord]},
           \/ attempted' = attempted \union {k} /\ faults' = faults
           \/ attempted' = attempted /\ faults' = faults + 1
           \/ attempted' = attempted /\ faults' = faults /\ pc # "evaluating"
    PROVE  TriedInv'
<1>1. faults \in Nat /\ faults' \in Nat /\ faults <= faults'
    BY DEF IInv, CountsInv, CountTypes
<1>2. \A j \in Keys : tries[j] \in Nat
    BY DEF IInv, CountsInv, CountTypes
<1>3. todo \subseteq Keys
    BY DEF IInv, PollTypes
<1>4. \A j \in Keys : Sending(j) <=> j = k
    BY DEF Sending
<1>5. tries[k] >= 1 /\ tries[k] <= 1 + faults
    BY DEF TriedInv
<1>6. \A j \in Keys : tries'[j] <= 1 + faults'
    BY <1>1, <1>2 DEF TriedInv
<1>7. \A j \in todo' : tries'[j] <= faults'
    BY <1>1, <1>2, <1>3 DEF TriedInv
<1>8. \A j \in Keys : ~Sending(j)'
    BY DEF Sending
<1>9. pc' = "evaluating" => \A j \in Keys :
          /\ j \in attempted' => tries'[j] >= 1
          /\ j \notin attempted' => tries'[j] <= faults'
    <2> SUFFICES ASSUME pc = "evaluating", NEW j \in Keys
                 PROVE  /\ j \in attempted' => tries[j] >= 1
                        /\ j \notin attempted' => tries[j] <= faults'
        OBVIOUS
    <2>1. CASE j = k
        BY <1>1, <1>2, <1>5, <2>1
    <2>2. CASE j # k
        <3>1. j \in attempted' <=> j \in attempted
            BY <2>2
        <3>2. /\ j \in attempted => tries[j] >= 1
              /\ j \notin attempted => tries[j] <= faults
            BY <1>4, <2>2 DEF TriedInv
        <3> QED BY <1>1, <1>2, <3>1, <3>2
    <2> QED BY <2>1, <2>2
<1>10. pc' = "retrying" => \A j \in Keys : IsPending(j)' => j \in todo' \/ tries'[j] >= 1
    <2>1. pending \in [Keys -> Records]
        BY DEF IInv, RowsInv, RowTypes
    <2>2. \A j \in Keys : IsPending(j)' => IsPending(j)
        BY <2>1 DEF IsPending
    <2> QED BY <2>2 DEF TriedInv
<1> QED BY <1>6, <1>7, <1>8, <1>9, <1>10 DEF TriedInv

LEMMA StepTried == IInv /\ TriedInv /\ [Next]_vars => TriedInv'
<1> SUFFICES ASSUME IInv, TriedInv, [Next]_vars PROVE TriedInv'
    OBVIOUS
<1>1. CASE Tick \/ Start \/ PollNotOk \/ UNCHANGED vars
    <2>1. UNCHANGED <<pc, todo, tries, attempted, pending, post, faults>>
        BY <1>1 DEF Tick, Start, PollNotOk, vars, rows, evaluation
    <2>2. \A k \in Keys : Sending(k)' <=> Sending(k)
        BY <2>1 DEF Sending
    <2> QED BY <2>1, <2>2, TriedStays
<1>2. CASE Crash
    BY <1>2, TriedForgotten DEF Crash, Fault
<1>3. CASE PollOk
    <2>1. /\ pc = "idle" /\ post' = NoPost /\ pc' = "evaluating" /\ todo' \subseteq Keys
          /\ UNCHANGED <<attempted, tries, faults>>
        BY <1>3 DEF PollOk, IInv, Phases
    <2>2. faults \in Nat /\ \A k \in Keys : tries[k] = 0
        BY <2>1 DEF TriedInv, IInv, CountsInv, CountTypes
    <2>3. \A k \in Keys : ~Sending(k)'
        BY <2>1 DEF Sending
    <2>4. attempted' = {}
        BY <2>1 DEF TriedInv
    <2> QED BY <2>1, <2>2, <2>3, <2>4 DEF TriedInv
<1>4. ASSUME NEW k \in Keys, InitialiseMarker(k) \/ NothingCrossed(k) \/ EvaluationFails(k)
      PROVE  TriedInv'
    <2>1. /\ UNCHANGED <<pc, tries, attempted, pending, post>>
          /\ todo' \subseteq todo /\ pc = "evaluating" /\ faults' \in {faults, faults + 1}
        BY <1>4 DEF InitialiseMarker, NothingCrossed, EvaluationFails, Take, Fault, rows
    <2>2. \A j \in Keys : Sending(j)' <=> Sending(j)
        BY <2>1 DEF Sending
    <2> QED BY <2>1, <2>2, TriedStays
<1>5. ASSUME NEW k \in Keys, Queue(k)
      PROVE  TriedInv'
    <2>1. /\ k \in todo /\ todo' = todo \ {k} /\ post = NoPost /\ pc = "evaluating"
          /\ UNCHANGED <<pc, attempted, faults>>
        BY <1>5 DEF Queue, Take
    <2>2. PICK record : Send(k, record)
        BY <1>5 DEF Queue
    <2> QED BY <2>1, <2>2, SendTries
<1>6. ASSUME NEW k \in Keys, Retry(k)
      PROVE  TriedInv'
    <2>1. /\ k \in todo /\ todo' = todo \ {k} /\ post = NoPost /\ pc = "retrying"
          /\ UNCHANGED <<pc, attempted, faults, pending>> /\ Send(k, pending[k])
        BY <1>6 DEF Retry, Take, rows
    <2> QED BY <2>1, SendTries
<1>7. CASE StartRetrying
    <2>1. /\ pc = "evaluating" /\ pc' = "retrying" /\ post = NoPost
          /\ todo' = {k \in Keys : IsPending(k)} \ attempted
          /\ UNCHANGED <<tries, attempted, post, faults, pending>>
        BY <1>7 DEF StartRetrying, ToRetry, rows
    <2>2. \A k \in Keys : ~Sending(k) /\ ~Sending(k)'
        BY <2>1 DEF Sending
    <2>3. \A k \in todo' : tries'[k] <= faults'
        BY <2>1, <2>2 DEF TriedInv
    <2>4. \A k \in Keys : IsPending(k)' => k \in todo' \/ tries'[k] >= 1
        BY <2>1 DEF TriedInv, IsPending
    <2> QED BY <2>1, <2>2, <2>3, <2>4 DEF TriedInv
<1>8. CASE RetryFails \/ PollEnds
    BY <1>8, TriedForgotten DEF RetryFails, PollEnds, Fault
<1>9. CASE Answer
    <2>1. post' # NoPost /\ post'.key = post.key /\ post # NoPost
        <3>1. post.answer = "awaited" /\ post \in Posting
            BY <1>9, PostedThreshold DEF Answer
        <3>2. \E answer \in {"accepted", "failed"} : post' = [post EXCEPT !.answer = answer]
            BY <1>9 DEF Answer
        <3> QED BY <3>1, <3>2 DEF Posting, NoPost
    <2>2. \A k \in Keys : Sending(k)' <=> Sending(k)
        BY <2>1 DEF Sending
    <2>3. UNCHANGED <<pc, todo, tries, attempted, pending>> /\ faults' \in {faults, faults + 1}
        BY <1>9 DEF Answer, Fault, rows, evaluation
    <2> QED BY <2>2, <2>3, TriedStays
<1>10. CASE Settle
    <2> PICK k \in Keys : k = post.key
        BY <1>10, PostedThreshold DEF Settle
    <2>1. /\ Sending(k) /\ pc # "idle" /\ post' = NoPost
          /\ attempted' = IF pc = "evaluating" THEN attempted \union {k} ELSE attempted
          /\ UNCHANGED <<pc, todo, tries, faults>>
        BY <1>10, PostedThreshold DEF Settle, Done, Sending, NoPost
    <2>2. pending' \in {pending, [pending EXCEPT ![k] = NoRecord]}
        BY <1>10 DEF Settle, ClearSlot
    <2> QED BY <2>1, <2>2, SettledTries
<1>11. CASE SettleFails
    <2> PICK k \in Keys : k = post.key
        BY <1>11, PostedThreshold DEF SettleFails
    <2>1. /\ Sending(k) /\ pc # "idle" /\ post' = NoPost /\ faults' = faults + 1
          /\ UNCHANGED <<pc, todo, tries, attempted, pending>>
        BY <1>11, PostedThreshold DEF SettleFails, Fault, Sending, NoPost, rows, evaluation
    <2> QED BY <2>1, SettledTries
<1> QED
    BY <1>1, <1>2, <1>3, <1>4, <1>5, <1>6, <1>7, <1>8, <1>9, <1>10, <1>11
    DEF Next, Hook, EvaluateKey

\* An ok poll that runs to its end has tried every filled slot, and each once but
\* for the writes that failed.
THEOREM SlotsTriedOnce == Spec => EachSlotTriedOnce
<1> DEFINE Tried ==
        pc = "retrying" /\ pc' = "idle" /\ up' =>
            \A k \in Keys : tries[k] <= 1 + faults /\ (IsPending(k) => tries[k] >= 1)
<1>1. Init => TriedInv
    BY DEF Init, TriedInv, Sending
<1>2. IInv /\ TriedInv /\ [Next]_vars => TriedInv'
    BY StepTried
<1>3. IInv /\ TriedInv /\ [Next]_vars => [Tried]_vars
    <2> SUFFICES ASSUME TriedInv, Next, pc = "retrying", pc' = "idle", up'
                 PROVE  \A k \in Keys : /\ tries[k] <= 1 + faults
                                        /\ IsPending(k) => tries[k] >= 1
        BY Zenon
    <2>1. CASE PollEnds
        BY <2>1 DEF PollEnds, TriedInv
    <2>2. CASE Crash
        BY <2>2, Zenon DEF Crash
    <2>3. CASE pc' = pc
        BY <2>3
    <2>4. CASE pc # "retrying"
        BY <2>4
    <2>5. PollEnds \/ Crash \/ pc' = pc \/ pc # "retrying"
        BY DEF Next, Tick, Start, PollNotOk, PollOk, Hook, EvaluateKey, InitialiseMarker,
               NothingCrossed, Queue, EvaluationFails, StartRetrying, RetryFails, Retry,
               Answer, Settle, SettleFails, evaluation
    <2> QED BY <2>1, <2>2, <2>3, <2>4, <2>5
<1> QED BY <1>1, <1>2, <1>3, InvariantHolds, PTL DEF Spec, EachSlotTriedOnce
=============================================================================
