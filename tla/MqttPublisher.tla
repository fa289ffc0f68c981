---------------------------- MODULE MqttPublisher ----------------------------
(***************************************************************************)
(* The MQTT publisher (mqtt.py).  The catalogue in the database is the     *)
(* truth; the broker's retained messages, one discovery config per object  *)
(* id and one state per key, should follow it.  Two kinds of thread write  *)
(* them: a plugin's poll thread, in the hook after every poll, and paho's  *)
(* network thread, which republishes a whole snapshot on every connect and *)
(* whenever Home Assistant comes back online.                              *)
(*                                                                         *)
(* Both publish under one lock, so a whole publication is one step here;   *)
(* but the snapshot's rows are read before the lock is taken.  The link    *)
(* may drop anywhere, in the middle of a publication too, and the process  *)
(* notices later than it happens.                                          *)
(*                                                                         *)
(* Messages are published with qos 1: paho, the client library, keeps each *)
(* until the broker acknowledges it and sends what is left again after a   *)
(* reconnect, once on_connect, and so the snapshot, is done.  Paho sends   *)
(* in order, so of the messages it keeps for a topic only the last one     *)
(* matters, and only that is modelled.                                     *)
(*                                                                         *)
(* Keys are those include/exclude select.  Label, unit and icon are taken  *)
(* as fixed: a key's discovery config is its name.  The availability topic *)
(* is not part of this module.                                             *)
(***************************************************************************)
EXTENDS Integers, FiniteSets

CONSTANTS
    Plugins, Keys, Owner,   \* Owner[k]: the plugin that polls k
    Patterns,               \* the keys whose series follow the pattern lifecycle
    ObjectIds, ObjectId,    \* ObjectId[k]: k with its dots replaced; not injective
    Values,
    Reports,                \* Reports[k]: the values that k's source may give
    Nothing,                \* no row, no retained message, no owner
    \* bounds of the model
    MaxChanges, MaxFaults

ASSUME PublisherKeys ==
    /\ Owner \in [Keys -> Plugins]
    /\ Patterns \subseteq Keys
    /\ ObjectId \in [Keys -> ObjectIds]
    /\ Reports \in [Keys -> SUBSET Values]
ASSUME PublisherNothing == Nothing \notin Keys /\ Nothing \notin Values
ASSUME PublisherTopics == ObjectIds \cap Keys = {}
ASSUME PublisherBounds == MaxChanges \in Nat /\ MaxFaults \in Nat

VARIABLES
    enabled,    \* the plugins the running process polls; {} while it is down
    rows,       \* rows[k]: active and last_value in metric_series
    pc,         \* pc[p]: "idle", "stored", "hook"
    returned,   \* returned[p]: keys of the ok poll the hook is called for
    paho,       \* network thread: "idle", "reading", "publishing", "resending", "down"
    view,       \* the rows the snapshot has read
    connected,  \* the publisher's _connected
    link,       \* the broker hears us
    unacked,    \* paho: unacked[t], topic t's last message without acknowledgement
    resend,     \* paho: those of earlier connections, to be sent again on this one
    owner,      \* _object_id_owner
    described,  \* domain of _discovery_fingerprints
    known,      \* _known_active
    config,     \* broker: config[i], the key whose discovery is retained
    state,      \* broker: state[k], the retained value
    missed,     \* history: the last snapshot could not be read
    behind,     \* history: topics whose last message was an old one, sent again
    changes,    \* of the catalogue by polls, under its bound
    faults      \* crashes, dropped links and unreadable tables, under their bound

process == <<enabled, pc, returned>>
network == <<paho, view, connected, link, missed>>
outgoing == <<unacked, resend>>
memory == <<owner, described, known>>
broker == <<config, state, behind>>
budget == <<changes, faults>>
vars == <<process, rows, network, outgoing, memory, broker, budget>>

------------------------------------------------------------------------------
Row == [active : BOOLEAN, value : Values]
Up == paho # "down"

\* Mutant: the flag is written as NULL.
DeactivatedToNull(row) == [row EXCEPT !.active = Nothing]

Deactivated(row) == [row EXCEPT !.active = FALSE]

KeysOf(p) == {k \in Keys : Owner[k] = p}
Active(table) == {k \in Keys : table[k] # Nothing /\ table[k].active}
Inactive(table) == {k \in Keys : table[k] # Nothing /\ ~table[k].active}

\* The keys that collide on one object id.
KeysNamed(i) == {k \in Keys : ObjectId[k] = i}

\* A topic is an object id, for its discovery config, or a key, for its state;
\* the empty message, Nothing, removes what is retained.
Topics == ObjectIds \cup Keys
Payload(t) == (IF t \in ObjectIds THEN KeysNamed(t) ELSE Values) \cup {Nothing}

AreMessages(messages) ==
    /\ DOMAIN messages \subseteq Topics
    /\ messages = [t \in DOMAIN messages |-> messages[t]]
    /\ \A t \in DOMAIN messages : messages[t] \in Payload(t)

NoMessages == [t \in {} |-> Nothing]

\* The newer message, topic by topic.
Over(new, old) ==
    [t \in DOMAIN new \cup DOMAIN old |-> IF t \in DOMAIN new THEN new[t] ELSE old[t]]

TypeOK ==
    /\ enabled \subseteq Plugins
    /\ rows \in [Keys -> Row \cup {Nothing}] /\ view \in [Keys -> Row \cup {Nothing}]
    /\ pc \in [Plugins -> {"idle", "stored", "hook"}]
    /\ returned \in [Plugins -> SUBSET Keys]
    /\ paho \in {"idle", "reading", "publishing", "resending", "down"}
    /\ connected \in BOOLEAN /\ link \in BOOLEAN /\ missed \in BOOLEAN
    /\ AreMessages(unacked) /\ AreMessages(resend) /\ behind \subseteq Topics
    /\ \A i \in ObjectIds : owner[i] \in KeysNamed(i) \cup {Nothing}
    /\ described \subseteq Keys /\ known \subseteq Keys
    /\ \A i \in ObjectIds : config[i] \in Payload(i)
    /\ \A k \in Keys : state[k] \in Payload(k)
    /\ changes \in Nat /\ faults \in Nat

Init ==
    /\ enabled = {} /\ paho = "down"
    /\ rows = [k \in Keys |-> Nothing] /\ view = rows
    /\ pc = [p \in Plugins |-> "idle"] /\ returned = [p \in Plugins |-> {}]
    /\ connected = FALSE /\ link = FALSE /\ missed = FALSE
    /\ unacked = NoMessages /\ resend = NoMessages /\ behind = {}
    /\ owner = [i \in ObjectIds |-> Nothing]
    /\ described = {} /\ known = {}
    /\ config = [i \in ObjectIds |-> Nothing]
    /\ state = [k \in Keys |-> Nothing]
    /\ changes = 0 /\ faults = 0

\* A fault happens, within the bound.
MayFail == faults < MaxFaults
Fault == MayFail /\ faults' = faults + 1

------------------------------------------------------------------------------
\* The process

\* retire_series_not_in, then a fresh publisher and the polls of `on`; the series
\* of an enabled plugin that fails to load stay as they are.
Start(on, broken) ==
    /\ ~Up /\ on \cap broken = {}
    /\ enabled' = on
    /\ paho' = "idle"
    /\ rows' = [k \in Keys |-> IF k \in Active(rows) /\ Owner[k] \notin on \cup broken
                               THEN Deactivated(rows[k]) ELSE rows[k]]
    /\ UNCHANGED <<pc, returned, view, connected, link, missed, outgoing, memory, broker, budget>>

Crash ==
    /\ Up /\ Fault
    /\ enabled' = {} /\ paho' = "down"
    /\ pc' = [p \in Plugins |-> "idle"] /\ returned' = [p \in Plugins |-> {}]
    /\ view' = [k \in Keys |-> Nothing]
    /\ connected' = FALSE /\ link' = FALSE /\ missed' = FALSE
    /\ unacked' = NoMessages /\ resend' = NoMessages
    /\ owner' = [i \in ObjectIds |-> Nothing]
    /\ described' = {} /\ known' = {}
    /\ UNCHANGED <<rows, broker, changes>>

------------------------------------------------------------------------------
\* The poll thread up to the hook

\* store_poll: the returned keys are active and have their values.
Store(p, some) ==
    /\ p \in enabled /\ pc[p] = "idle"
    /\ \E values \in [some -> Values] :
        /\ \A k \in some : values[k] \in Reports[k]
        /\ rows' = [k \in Keys |-> IF k \in some THEN [active |-> TRUE, value |-> values[k]]
                                   ELSE rows[k]]
    /\ IF rows' = rows THEN UNCHANGED changes
       ELSE changes < MaxChanges /\ changes' = changes + 1
    /\ pc' = [pc EXCEPT ![p] = "stored"]
    /\ returned' = [returned EXCEPT ![p] = some]
    /\ UNCHANGED <<enabled, network, outgoing, memory, broker, faults>>

\* _reconcile_pattern_series after a clean poll.
Reconcile(p) ==
    /\ pc[p] = "stored"
    /\ rows' = [k \in Keys |->
                    IF k \in (Active(rows) \cap KeysOf(p) \cap Patterns) \ returned[p]
                    THEN Deactivated(rows[k]) ELSE rows[k]]
    /\ pc' = [pc EXCEPT ![p] = "hook"]
    /\ UNCHANGED <<enabled, returned, network, outgoing, memory, broker, budget>>

\* The poll failed, before it stored anything or after: no key counts as
\* returned in the hook.
PollFails(p) ==
    /\ p \in enabled /\ pc[p] \in {"idle", "stored"}
    /\ pc' = [pc EXCEPT ![p] = "hook"]
    /\ returned' = [returned EXCEPT ![p] = {}]
    /\ UNCHANGED <<enabled, rows, network, outgoing, memory, broker, budget>>

------------------------------------------------------------------------------
\* Publishing

\* Mutant: the last key to come takes the object id.
ClaimsByLast(keys) ==
    {claim \in [ObjectIds -> Keys \cup {Nothing}] : \A i \in ObjectIds :
        LET wanting == keys \cap KeysNamed(i)
        IN  claim[i] \in IF wanting = {} THEN {owner[i]} ELSE wanting}

\* _object_id_for, called for each of `keys` in turn: an id without an owner
\* goes to the first that wants it and stays its own.
Claims(keys) ==
    {claim \in [ObjectIds -> Keys \cup {Nothing}] : \A i \in ObjectIds :
        LET wanting == keys \cap KeysNamed(i)
        IN  claim[i] \in IF owner[i] = Nothing /\ wanting # {} THEN wanting ELSE {owner[i]}}

\* The topics whose messages reach the broker: all of them over a good link, any
\* of them if it drops in between, none after that.
Reaching(topics) ==
    IF ~link THEN {{}} ELSE {topics} \cup (IF MayFail THEN SUBSET topics ELSE {})

Arrive(messages, reached) ==
    /\ config' = [i \in ObjectIds |-> IF i \in reached THEN messages[i] ELSE config[i]]
    /\ state' = [k \in Keys |-> IF k \in reached THEN messages[k] ELSE state[k]]
    /\ IF ~link \/ reached = DOMAIN messages
       THEN UNCHANGED <<link, faults>>
       ELSE link' = FALSE /\ Fault

\* A publication: configs and states for some keys, empty messages for others.
\* A removed key clears its own state, and the config of its object id if it
\* owns that.
Messages(claim, configs, states, removed) ==
    LET announced == {i \in ObjectIds : claim[i] \in configs}
        withdrawn == {i \in ObjectIds : claim[i] \in removed}
    IN  [t \in announced \cup withdrawn \cup DOMAIN states \cup removed |->
            CASE t \in announced     -> claim[t]
              [] t \in DOMAIN states -> states[t]
              [] OTHER               -> Nothing]

\* Acknowledgements are read by the network thread between its callbacks; over a
\* good link that is soon, so it is part of the step that leaves it idle.
Kept(messages) == IF link' /\ paho' = "idle" THEN NoMessages ELSE messages

\* A drop may take the acknowledgements of what has arrived with it.
Unheard(topics, reached) ==
    IF paho = "idle" THEN {topics \ heard : heard \in SUBSET reached} ELSE {topics}

\* _publish, for every message in turn: nothing is handed to paho without a
\* connection, and what is handed is kept until it is acknowledged.
Publish(messages) ==
    IF connected
    THEN /\ \E handed \in {messages} : \E reached \in Reaching(DOMAIN handed) :
                /\ Arrive(handed, reached)
                /\ behind' = behind \ reached
                /\ \E unheard \in Unheard(DOMAIN handed, reached) :
                        unacked' = Kept(Over([t \in unheard |-> handed[t]], unacked))
         /\ UNCHANGED resend
    ELSE UNCHANGED <<link, faults, broker, outgoing>>

\* Those of `keys` that hold their object id.
Owners(claim, keys) == {k \in keys : claim[ObjectId[k]] = k}

\* A deactivated series this process has announced, whatever this poll's status.
Gone(p) == KeysOf(p) \cap Inactive(rows) \cap known

\* _handle_poll_finished.  Only this thread writes the plugin's rows, so reading
\* them before taking the lock is no step of its own.
Hook(p) ==
    /\ pc[p] = "hook" /\ UNCHANGED <<paho, connected>>
    /\ LET here == returned[p] \cap Active(rows)
       IN \E claim \in Claims(here) :
            LET mine == Owners(claim, here)
            IN  /\ owner' = claim
                /\ Publish(Messages(claim, mine \ described,
                                    [k \in mine |-> rows[k].value], Gone(p)))
                /\ described' = (described \cup mine) \ Gone(p)
                /\ known' = (known \cup mine) \ Gone(p)
    /\ pc' = [pc EXCEPT ![p] = "idle"]
    /\ returned' = [returned EXCEPT ![p] = {}]
    /\ UNCHANGED <<enabled, rows, view, missed, changes>>

\* The rows cannot be read: nothing is published after this poll.
HookFails(p) ==
    /\ pc[p] = "hook" /\ Fault
    /\ pc' = [pc EXCEPT ![p] = "idle"]
    /\ returned' = [returned EXCEPT ![p] = {}]
    /\ UNCHANGED <<enabled, rows, network, outgoing, memory, broker, changes>>

------------------------------------------------------------------------------
\* The network thread

\* The client (re)connects and on_connect begins.  Of what paho still keeps for
\* a topic the newest message counts.
Connect ==
    /\ paho = "idle" /\ ~connected /\ ~link
    /\ link' = TRUE /\ connected' = TRUE
    /\ paho' = "reading"
    /\ resend' = Over(unacked, resend) /\ unacked' = NoMessages
    /\ UNCHANGED <<process, rows, view, missed, memory, broker, budget>>

\* Home Assistant announces itself.
HomeAssistantOnline ==
    /\ paho = "idle" /\ connected /\ link
    /\ paho' = "reading"
    /\ UNCHANGED <<process, rows, view, connected, link, missed, outgoing, memory, broker,
                   budget>>

\* _republish_snapshot reads every series, before it takes the lock.
ReadSnapshot ==
    /\ paho = "reading"
    /\ view' = rows
    /\ paho' = "publishing"
    /\ UNCHANGED <<process, rows, connected, link, missed, outgoing, memory, broker, budget>>

\* Where the network thread goes once the snapshot is out.
Continue == IF resend = NoMessages THEN "idle" ELSE "resending"

\* The read raises; nothing is republished until the next connect.
ReadFails ==
    /\ paho = "reading" /\ Fault
    /\ missed' = TRUE
    /\ paho' = Continue /\ UNCHANGED link
    /\ unacked' = Kept(unacked)
    /\ UNCHANGED <<process, rows, view, connected, resend, memory, broker, changes>>

\* Mutant: only what this process has announced is removed.
RetiredKnown == Inactive(view) \cap known

\* Every inactive series of the catalogue.
Retired == Inactive(view)

\* Configs and states of the active series, removal of the inactive ones.
\* Active ones claim their ids first.
PublishSnapshot ==
    /\ paho = "publishing" /\ paho' = Continue
    /\ \E claim \in Claims(Active(view)) :
        LET shown == Owners(claim, Active(view))
        IN \E full \in {f \in Claims(Active(view) \cup Retired) :
                            \A i \in ObjectIds : claim[i] # Nothing => f[i] = claim[i]} :
            /\ owner' = full
            /\ Publish(Messages(full, shown, [k \in shown |-> view[k].value], Retired))
            /\ described' = (described \cup shown) \ Retired
            /\ known' = (known \cup shown) \ Retired
    /\ missed' = FALSE
    /\ view' = [k \in Keys |-> Nothing]
    /\ UNCHANGED <<process, rows, connected, changes>>

\* paho sends the unacknowledged messages of earlier connections again.  The
\* snapshot's first messages are already on the wire and the others wait behind
\* these, so for any topic of the snapshot the old message may be the last to
\* arrive.
Resend ==
    /\ paho = "resending" /\ paho' = "idle"
    /\ LET overtaken == DOMAIN resend \cap DOMAIN unacked
       IN \E late \in SUBSET overtaken :
            LET last == (DOMAIN resend \ overtaken) \cup late
                again == [t \in last |-> resend[t]]
            IN \E reached \in Reaching(last) :
                /\ Arrive(again, reached)
                /\ behind' = behind \cup reached
    /\ unacked' = Kept(Over(unacked, resend)) /\ resend' = NoMessages
    /\ UNCHANGED <<process, rows, view, connected, missed, memory, changes>>

\* The network goes, or the broker restarts and has lost its retained messages.
Drop ==
    /\ link /\ Fault
    /\ link' = FALSE
    /\ \/ UNCHANGED broker
       \/ /\ config' = [i \in ObjectIds |-> Nothing] /\ state' = [k \in Keys |-> Nothing]
          /\ behind' = {}
    /\ UNCHANGED <<process, rows, paho, view, connected, missed, outgoing, memory, changes>>

\* on_disconnect, once the network thread gets to it.
Disconnected ==
    /\ paho = "idle" /\ connected /\ ~link
    /\ connected' = FALSE
    /\ UNCHANGED <<process, rows, paho, view, link, missed, outgoing, memory, broker, budget>>

------------------------------------------------------------------------------
PollThread(p) == Reconcile(p) \/ PollFails(p) \/ Hook(p) \/ HookFails(p)

NetworkThread ==
    Connect \/ ReadSnapshot \/ ReadFails \/ PublishSnapshot \/ Resend \/ Disconnected

Next ==
    \/ \E on, broken \in SUBSET Plugins : Start(on, broken)
    \/ Crash \/ Drop \/ HomeAssistantOnline \/ NetworkThread
    \/ \E p \in Plugins : PollThread(p) \/ \E some \in SUBSET KeysOf(p) : Store(p, some)

Spec == Init /\ [][Next]_vars

\* The container restarts, paho reconnects for as long as it takes, and its
\* callbacks and the hooks that have begun return.
Fairness ==
    /\ WF_vars(\E on, broken \in SUBSET Plugins : Start(on, broken))
    /\ WF_vars(NetworkThread)
    /\ \A p \in Plugins : WF_vars(Hook(p))

FairSpec == Spec /\ Fairness

------------------------------------------------------------------------------
\* Properties

\* Within one process an entity is never handed to another metric: once a key
\* has announced an object id, no colliding key overwrites its discovery.
EntityNotStolen ==
    [][\A i \in ObjectIds :
        config[i] \in known /\ config'[i] # config[i] => config'[i] = Nothing]_vars

\* The bookkeeping is one story told twice: what is believed to be announced is
\* what has a fingerprint, and each such key owns its object id, so that a later
\* removal addresses the right entity.
BookkeepingAgrees ==
    /\ known = described
    /\ \A k \in known : owner[ObjectId[k]] = k

\* What Home Assistant shows follows from the catalogue, on every topic whose
\* last message was not an old one sent again.  A key that lost its object id to
\* another has no entity; its state topic is nobody's business.
InStep(k) ==
    LET i == ObjectId[k]
        ConfigOf(shown) == i \in behind \/ (config[i] = k) = shown
        StateOf(value) == k \in behind \/ state[k] = value
    IN  /\ k \in Active(rows) /\ owner[i] = k => ConfigOf(TRUE) /\ StateOf(rows[k].value)
        /\ k \in Inactive(rows) => ConfigOf(FALSE) /\ (owner[i] = k => StateOf(Nothing))

\* The sources answer again and again: every plugin that is polled has polls
\* that are ok and return all its active series.
SourcesAnswer ==
    \A p \in Plugins : []<>(p \in enabled =>
        pc[p] = "hook" /\ returned[p] = KeysOf(p) \cap Active(rows))

\* Once series, link and process stop changing, the broker ends up showing the
\* catalogue - the values of the last polls, every active series announced,
\* none of the retired ones - whatever was lost, dropped half-way or overtaken
\* before.  Two ways out remain: a snapshot that could not be read, and, topic by
\* topic, an old message that paho sent again behind the snapshot or a hook and
\* that nothing has replaced since.
Converges == SourcesAnswer => <>[](missed \/ \A k \in Keys : InStep(k))

------------------------------------------------------------------------------
\* What the comments say and the code does not do

\* "the two must not interleave mid-snapshot (e.g. a poll deactivating a series
\* between this method reading `rows` and reaching that series' removal)"
\* (_republish_snapshot): no publication announces a series that is retired.
RetiredStaysGone ==
    [][\A k \in Inactive(rows) : config[ObjectId[k]] # k => config'[ObjectId[k]] # k]_vars

==============================================================================
