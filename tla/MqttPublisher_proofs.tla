------------------------ MODULE MqttPublisher_proofs ------------------------
(***************************************************************************)
(* Proofs about MqttPublisher, for any plugins, any keys and object ids,   *)
(* however they collide, and any number of changes, drops and crashes: the *)
(* publisher's bookkeeping agrees, and no entity changes hands, whichever  *)
(* messages are lost, kept by paho and sent again.                         *)
(***************************************************************************)
EXTENDS MqttPublisher, TLAPS

USE PublisherKeys, PublisherNothing, PublisherTopics, PublisherBounds

-----------------------------------------------------------------------------
\* The types, in the parts that different actions disturb.

CatalogueTypes ==
    /\ enabled \subseteq Plugins
    /\ rows \in [Keys -> Row \union {Nothing}]
    /\ view \in [Keys -> Row \union {Nothing}]
    /\ pc \in [Plugins -> {"idle", "stored", "hook"}]
    /\ returned \in [Plugins -> SUBSET Keys]
    /\ paho \in {"idle", "reading", "publishing", "resending", "down"}

FlagTypes ==
    /\ connected \in BOOLEAN /\ link \in BOOLEAN /\ missed \in BOOLEAN
    /\ changes \in Nat /\ faults \in Nat

MemoryTypes ==
    /\ \A i \in ObjectIds : owner[i] \in KeysNamed(i) \union {Nothing}
    /\ described \subseteq Keys /\ known \subseteq Keys

BrokerTypes ==
    /\ \A i \in ObjectIds : config[i] \in Payload(i)
    /\ \A k \in Keys : state[k] \in Payload(k)
    /\ behind \subseteq Topics

OutgoingTypes == AreMessages(unacked) /\ AreMessages(resend)

LEMMA TypeParts == TypeOK <=> /\ CatalogueTypes /\ FlagTypes /\ MemoryTypes
                               /\ BrokerTypes /\ OutgoingTypes
    BY DEF TypeOK, CatalogueTypes, FlagTypes, MemoryTypes, BrokerTypes, OutgoingTypes

\* A discovery config is only ever sent for the owner of its object id.
OfOwners(messages) ==
    \A i \in ObjectIds \intersect DOMAIN messages :
        messages[i] # Nothing => owner[i] = messages[i]

OutgoingOwned == OfOwners(unacked) /\ OfOwners(resend)

Outgoing == OutgoingTypes /\ OutgoingOwned

IInv ==
    /\ CatalogueTypes /\ FlagTypes /\ MemoryTypes /\ BrokerTypes /\ Outgoing
    /\ BookkeepingAgrees

-----------------------------------------------------------------------------
\* A row keeps its kind when it is deactivated.
LEMMA DeactivatedRow ==
    ASSUME NEW row \in Row
    PROVE  Deactivated(row) \in Row
    BY DEF Deactivated, Row

LEMMA ActiveRow ==
    ASSUME NEW table \in [Keys -> Row \union {Nothing}], NEW k \in Active(table)
    PROVE  k \in Keys /\ table[k] \in Row /\ table[k].value \in Values
    BY DEF Active, Row

\* _object_id_for gives an id to a key that has that name, and never takes one
\* away.
LEMMA ClaimKeepsOwners ==
    ASSUME MemoryTypes, NEW keys \in SUBSET Keys, NEW claim \in Claims(keys)
    PROVE  /\ \A i \in ObjectIds : claim[i] \in KeysNamed(i) \union {Nothing}
           /\ \A i \in ObjectIds : owner[i] # Nothing => claim[i] = owner[i]
<1> SUFFICES ASSUME NEW i \in ObjectIds
             PROVE  /\ claim[i] \in KeysNamed(i) \union {Nothing}
                    /\ owner[i] # Nothing => claim[i] = owner[i]
    OBVIOUS
<1>1. owner[i] \in KeysNamed(i) \union {Nothing}
    BY DEF MemoryTypes
<1>2. CASE owner[i] = Nothing /\ keys \intersect KeysNamed(i) # {}
    <2>1. claim[i] \in keys \intersect KeysNamed(i)
        BY <1>2 DEF Claims
    <2> QED BY <1>2, <2>1
<1>3. CASE ~(owner[i] = Nothing /\ keys \intersect KeysNamed(i) # {})
    <2>1. claim[i] = owner[i]
        BY <1>3 DEF Claims
    <2> QED BY <1>1, <2>1
<1> QED BY <1>2, <1>3

-----------------------------------------------------------------------------
\* Messages.

LEMMA NoneOutgoing ==
    /\ AreMessages(NoMessages) /\ DOMAIN NoMessages = {}
    /\ OfOwners(NoMessages) /\ OfOwners(NoMessages)'
    BY DEF AreMessages, NoMessages, OfOwners

LEMMA PartOfMessages ==
    ASSUME NEW messages, AreMessages(messages), NEW part \in SUBSET DOMAIN messages
    PROVE  AreMessages([t \in part |-> messages[t]])
    BY DEF AreMessages

LEMMA MergedMessages ==
    ASSUME NEW first, NEW second, AreMessages(first), AreMessages(second)
    PROVE  LET merged == Over(first, second)
           IN  /\ AreMessages(merged)
               /\ DOMAIN merged = DOMAIN first \union DOMAIN second
               /\ \A t \in DOMAIN merged :
                      \/ t \in DOMAIN first /\ merged[t] = first[t]
                      \/ t \in DOMAIN second /\ merged[t] = second[t]
<1> DEFINE domain == DOMAIN first \union DOMAIN second
           value(t) == IF t \in DOMAIN first THEN first[t] ELSE second[t]
           merged == [t \in domain |-> value(t)]
<1>1. Over(first, second) = merged
    BY DEF Over
<1>2. \A t \in domain : value(t) \in Payload(t) /\ t \in Topics
    BY DEF AreMessages
<1>3. AreMessages(merged)
    <2> HIDE DEF value
    <2> QED BY <1>2 DEF AreMessages
<1> QED BY <1>1, <1>3

\* What a publication says of an object id is its owner's config or nothing.
LEMMA MessageTypes ==
    ASSUME NEW claim, \A i \in ObjectIds : claim[i] \in KeysNamed(i) \union {Nothing},
           NEW configs \in SUBSET Keys, NEW removed \in SUBSET Keys,
           NEW shown \in SUBSET Keys, NEW states \in [shown -> Values]
    PROVE  LET messages == Messages(claim, configs, states, removed)
           IN  /\ AreMessages(messages)
               /\ \A i \in ObjectIds \intersect DOMAIN messages :
                      messages[i] \in {claim[i], Nothing}
<1> DEFINE announced == {i \in ObjectIds : claim[i] \in configs}
           withdrawn == {i \in ObjectIds : claim[i] \in removed}
           domain == announced \union withdrawn \union shown \union removed
           value(t) == CASE t \in announced -> claim[t]
                         [] t \in shown     -> states[t]
                         [] OTHER           -> Nothing
           messages == [t \in domain |-> value(t)]
<1>1. Messages(claim, configs, states, removed) = messages
    BY DEF Messages
<1>2. announced \subseteq ObjectIds /\ announced \intersect Keys = {}
    OBVIOUS
<1>3. ASSUME NEW t \in domain
      PROVE  /\ t \in Topics
             /\ \/ t \in announced /\ value(t) = claim[t]
                \/ t \in shown /\ value(t) = states[t]
                \/ value(t) = Nothing
    BY <1>2, <1>3 DEF Topics
<1> HIDE DEF value, announced, domain
<1>4. ASSUME NEW t \in domain
      PROVE  value(t) \in Payload(t)
    BY <1>2, <1>3, <1>4 DEF Payload
<1>5. AreMessages(messages)
    BY <1>3, <1>4 DEF AreMessages
<1>6. ASSUME NEW i \in ObjectIds \intersect DOMAIN messages
      PROVE  messages[i] \in {claim[i], Nothing}
    BY <1>2, <1>3, <1>6
<1> QED BY <1>1, <1>5, <1>6

LEMMA ReachingPart ==
    ASSUME NEW topics, NEW reached \in Reaching(topics)
    PROVE  reached \subseteq topics
    BY DEF Reaching

\* What arrives is a message or what was there before.
LEMMA ArrivedTypes ==
    ASSUME BrokerTypes, FlagTypes, NEW messages, AreMessages(messages),
           NEW reached \in SUBSET DOMAIN messages, Arrive(messages, reached)
    PROVE  /\ \A i \in ObjectIds : config'[i] \in Payload(i)
           /\ \A k \in Keys : state'[k] \in Payload(k)
           /\ link' \in BOOLEAN /\ faults' \in Nat
           /\ \A i \in ObjectIds :
                  \/ config'[i] = config[i]
                  \/ i \in DOMAIN messages /\ config'[i] = messages[i]
<1>1. \A i \in ObjectIds : \/ config'[i] = config[i]
                           \/ i \in DOMAIN messages /\ config'[i] = messages[i]
    BY DEF Arrive
<1>2. \A k \in Keys : \/ state'[k] = state[k]
                      \/ k \in DOMAIN messages /\ state'[k] = messages[k]
    BY DEF Arrive
<1>3. link' \in BOOLEAN /\ faults' \in Nat
    <2>1. \/ link' = link /\ faults' = faults
          \/ link' = FALSE /\ faults' = faults + 1
        BY Zenon DEF Arrive, Fault
    <2>2. link' \in BOOLEAN
        BY <2>1, Zenon DEF FlagTypes
    <2>3. faults' \in Nat
        BY <2>1, faults \in Nat DEF FlagTypes
    <2> QED BY <2>2, <2>3
<1> QED BY <1>1, <1>2, <1>3 DEF BrokerTypes, AreMessages

LEMMA KeptTypes ==
    ASSUME NEW messages, AreMessages(messages)
    PROVE  /\ AreMessages(Kept(messages))
           /\ Kept(messages) \in {messages, NoMessages}
    BY NoneOutgoing DEF Kept

\* Ids keep their owners, so what was kept of owners stays so.
LEMMA StillOfOwners ==
    ASSUME NEW messages, OfOwners(messages),
           \A i \in ObjectIds : owner[i] # Nothing => owner'[i] = owner[i]
    PROVE  \A i \in ObjectIds \intersect DOMAIN messages :
               messages[i] # Nothing => owner'[i] = messages[i]
    BY DEF OfOwners

\* A publication: of the broker, of what paho keeps, and of every config.
LEMMA PublishedTypes ==
    ASSUME BrokerTypes, FlagTypes, Outgoing, NEW messages, AreMessages(messages),
           \A i \in ObjectIds : owner[i] # Nothing => owner'[i] = owner[i],
           \A i \in ObjectIds \intersect DOMAIN messages :
               messages[i] \in {owner'[i], Nothing},
           Publish(messages)
    PROVE  /\ BrokerTypes' /\ Outgoing'
           /\ link' \in BOOLEAN /\ faults' \in Nat
           /\ \A i \in ObjectIds : config'[i] \in {owner'[i], Nothing, config[i]}
<1> DEFINE Owned(given) == \A i \in ObjectIds \intersect DOMAIN given :
                               given[i] # Nothing => owner'[i] = given[i]
<1>1. Owned(unacked) /\ Owned(resend) /\ Owned(NoMessages)
    BY StillOfOwners, NoneOutgoing DEF Outgoing, OutgoingOwned
<1>2. CASE connected
    <2>0. PICK reached \in Reaching(DOMAIN messages) :
              /\ Arrive(messages, reached)
              /\ behind' = behind \ reached
              /\ \E unheard \in Unheard(DOMAIN messages, reached) :
                     unacked' = Kept(Over([t \in unheard |-> messages[t]], unacked))
        BY <1>2, Zenon DEF Publish
    <2>1. PICK unheard \in Unheard(DOMAIN messages, reached) :
              unacked' = Kept(Over([t \in unheard |-> messages[t]], unacked))
        BY <2>0
    <2>2. reached \in SUBSET DOMAIN messages /\ unheard \in SUBSET DOMAIN messages
        BY ReachingPart DEF Unheard
    <2>3. /\ \A i \in ObjectIds : config'[i] \in Payload(i)
          /\ \A k \in Keys : state'[k] \in Payload(k)
          /\ link' \in BOOLEAN /\ faults' \in Nat
          /\ \A i \in ObjectIds :
                 \/ config'[i] = config[i]
                 \/ i \in DOMAIN messages /\ config'[i] = messages[i]
        BY <2>0, <2>2, ArrivedTypes
    <2> DEFINE part == [t \in unheard |-> messages[t]]
               merged == Over(part, unacked)
    <2>4. AreMessages(part) /\ AreMessages(unacked) /\ AreMessages(resend)
        BY <2>2, PartOfMessages DEF Outgoing, OutgoingTypes
    <2>5. DOMAIN part = unheard /\ \A t \in unheard : part[t] = messages[t]
        OBVIOUS
    <2> HIDE DEF part
    <2>6. /\ AreMessages(merged)
          /\ DOMAIN merged = DOMAIN part \union DOMAIN unacked
          /\ \A t \in DOMAIN merged : \/ t \in DOMAIN part /\ merged[t] = part[t]
                                      \/ t \in DOMAIN unacked /\ merged[t] = unacked[t]
        BY <2>4, MergedMessages
    <2> HIDE DEF merged
    <2>7. Owned(merged)
        BY <1>1, <2>2, <2>5, <2>6
    <2>8. AreMessages(unacked') /\ unacked' \in {merged, NoMessages}
        BY <2>1, <2>6, KeptTypes DEF merged, part
    <2>9. Owned(unacked')
        BY <1>1, <2>7, <2>8
    <2>10. resend' = resend
        BY <1>2 DEF Publish
    <2>11. Outgoing'
        BY <1>1, <2>4, <2>8, <2>9, <2>10
        DEF Outgoing, OutgoingTypes, OutgoingOwned, OfOwners
    <2>12. BrokerTypes'
        BY <2>0, <2>3 DEF BrokerTypes
    <2> QED BY <2>3, <2>11, <2>12
<1>3. CASE ~connected
    <2>1. UNCHANGED <<link, faults, config, state, behind, unacked, resend>>
        BY <1>3 DEF Publish, broker, outgoing
    <2>2. BrokerTypes' /\ link' \in BOOLEAN /\ faults' \in Nat
        BY <2>1 DEF BrokerTypes, FlagTypes
    <2>3. Outgoing'
        BY <1>1, <2>1 DEF Outgoing, OutgoingTypes, OutgoingOwned, OfOwners
    <2> QED BY <2>1, <2>2, <2>3
<1> QED BY <1>2, <1>3

\* The bookkeeping after a publication: some keys that hold their ids are added,
\* some keys are removed, and no owner has lost its id.
LEMMA BookkeepingAfter ==
    ASSUME IInv, NEW added \in SUBSET Keys, NEW removed,
           known' = (known \union added) \ removed,
           described' = (described \union added) \ removed,
           \A i \in ObjectIds : owner[i] # Nothing => owner'[i] = owner[i],
           \A i \in ObjectIds : owner'[i] \in KeysNamed(i) \union {Nothing},
           \A k \in added : owner'[ObjectId[k]] = k
    PROVE  MemoryTypes' /\ BookkeepingAgrees'
<1>1. known \subseteq Keys /\ described \subseteq Keys /\ known = described
    BY DEF IInv, MemoryTypes, BookkeepingAgrees
<1>2. ASSUME NEW k \in known PROVE owner'[ObjectId[k]] = k
    <2>1. k \in Keys /\ ObjectId[k] \in ObjectIds /\ k # Nothing
        BY <1>1
    <2>2. owner[ObjectId[k]] = k
        BY DEF IInv, BookkeepingAgrees
    <2> QED BY <2>1, <2>2
<1>3. MemoryTypes'
    BY <1>1 DEF MemoryTypes
<1> QED BY <1>1, <1>2, <1>3 DEF BookkeepingAgrees

-----------------------------------------------------------------------------
LEMMA InitIInv == Init => IInv
<1> SUFFICES ASSUME Init PROVE IInv
    OBVIOUS
<1>1. CatalogueTypes /\ FlagTypes /\ MemoryTypes /\ BrokerTypes
    BY DEF Init, CatalogueTypes, FlagTypes, MemoryTypes, BrokerTypes, Payload
<1>2. BookkeepingAgrees /\ Outgoing
    BY NoneOutgoing DEF Init, BookkeepingAgrees, Outgoing, OutgoingTypes, OutgoingOwned
<1> QED BY <1>1, <1>2 DEF IInv

\* Steps that leave the publisher's memory, the broker or paho's messages alone.
LEMMA UntouchedMemory ==
    ASSUME IInv, UNCHANGED memory
    PROVE  MemoryTypes' /\ BookkeepingAgrees'
    BY DEF IInv, memory, MemoryTypes, BookkeepingAgrees

LEMMA UntouchedBroker ==
    ASSUME IInv, UNCHANGED broker
    PROVE  BrokerTypes'
    BY DEF IInv, broker, BrokerTypes

LEMMA UntouchedOutgoing ==
    ASSUME IInv, UNCHANGED memory, UNCHANGED outgoing
    PROVE  Outgoing'
    BY DEF IInv, memory, outgoing, Outgoing, OutgoingTypes, OutgoingOwned, OfOwners

LEMMA StartKeeps ==
    ASSUME IInv, NEW on \in SUBSET Plugins, NEW broken \in SUBSET Plugins,
           Start(on, broken)
    PROVE  IInv'
<1>1. rows' \in [Keys -> Row \union {Nothing}]
    <2>1. \A k \in Active(rows) : Deactivated(rows[k]) \in Row
        BY ActiveRow, DeactivatedRow DEF IInv, CatalogueTypes
    <2> QED BY <2>1 DEF Start, IInv, CatalogueTypes
<1>2. CatalogueTypes'
    BY <1>1 DEF Start, IInv, CatalogueTypes
<1>3. FlagTypes'
    BY DEF Start, IInv, FlagTypes, budget
<1> QED BY <1>2, <1>3, UntouchedMemory, UntouchedBroker, UntouchedOutgoing DEF IInv, Start

LEMMA CrashKeeps ==
    ASSUME IInv, Crash
    PROVE  IInv'
<1>1. CatalogueTypes'
    BY DEF Crash, IInv, CatalogueTypes
<1>2. FlagTypes'
    <2>1. connected' \in BOOLEAN /\ link' \in BOOLEAN /\ missed' \in BOOLEAN
        BY Zenon DEF Crash
    <2>2. changes' \in Nat /\ faults' \in Nat
        BY DEF Crash, Fault, IInv, FlagTypes
    <2> QED BY <2>1, <2>2 DEF FlagTypes
<1>3. MemoryTypes' /\ BookkeepingAgrees'
    BY DEF Crash, MemoryTypes, BookkeepingAgrees
<1>4. BrokerTypes'
    BY DEF Crash, IInv, BrokerTypes, broker
<1>5. Outgoing'
    BY NoneOutgoing DEF Crash, Outgoing, OutgoingTypes, OutgoingOwned, OfOwners
<1> QED BY <1>1, <1>2, <1>3, <1>4, <1>5 DEF IInv

-----------------------------------------------------------------------------
\* The poll thread.  The first four steps publish nothing.

LEMMA StoreKeeps ==
    ASSUME IInv, NEW p \in Plugins, NEW some \in SUBSET KeysOf(p), Store(p, some)
    PROVE  IInv'
<1>1. some \subseteq Keys
    BY DEF KeysOf
<1>2. rows' \in [Keys -> Row \union {Nothing}]
    <2>1. PICK values \in [some -> Values] :
              rows' = [k \in Keys |-> IF k \in some THEN [active |-> TRUE, value |-> values[k]]
                                      ELSE rows[k]]
        BY DEF Store
    <2>2. \A k \in some : [active |-> TRUE, value |-> values[k]] \in Row
        BY DEF Row
    <2> QED BY <2>1, <2>2 DEF IInv, CatalogueTypes
<1>3. CatalogueTypes'
    BY <1>1, <1>2 DEF Store, IInv, CatalogueTypes, network
<1>4. FlagTypes'
    BY DEF Store, IInv, FlagTypes, network
<1> QED BY <1>3, <1>4, UntouchedMemory, UntouchedBroker, UntouchedOutgoing DEF IInv, Store

LEMMA ReconcileKeeps ==
    ASSUME IInv, NEW p \in Plugins, Reconcile(p)
    PROVE  IInv'
<1>1. rows' \in [Keys -> Row \union {Nothing}]
    <2>1. \A k \in Active(rows) : Deactivated(rows[k]) \in Row
        BY ActiveRow, DeactivatedRow DEF IInv, CatalogueTypes
    <2> QED BY <2>1 DEF Reconcile, IInv, CatalogueTypes
<1>2. CatalogueTypes' /\ FlagTypes'
    BY <1>1 DEF Reconcile, IInv, CatalogueTypes, FlagTypes, network, budget
<1> QED BY <1>2, UntouchedMemory, UntouchedBroker, UntouchedOutgoing DEF IInv, Reconcile

LEMMA PollFailsKeeps ==
    ASSUME IInv, NEW p \in Plugins, PollFails(p)
    PROVE  IInv'
<1>1. CatalogueTypes' /\ FlagTypes'
    BY DEF PollFails, IInv, CatalogueTypes, FlagTypes, network, budget
<1> QED BY <1>1, UntouchedMemory, UntouchedBroker, UntouchedOutgoing DEF IInv, PollFails

LEMMA HookFailsKeeps ==
    ASSUME IInv, NEW p \in Plugins, HookFails(p)
    PROVE  IInv'
<1>1. CatalogueTypes' /\ FlagTypes'
    BY DEF HookFails, Fault, IInv, CatalogueTypes, FlagTypes, network
<1> QED BY <1>1, UntouchedMemory, UntouchedBroker, UntouchedOutgoing DEF IInv, HookFails

LEMMA HookMoves ==
    ASSUME IInv, NEW p \in Plugins, Hook(p)
    PROVE  /\ BrokerTypes' /\ Outgoing' /\ MemoryTypes' /\ BookkeepingAgrees'
           /\ link' \in BOOLEAN /\ faults' \in Nat
           /\ \A i \in ObjectIds : /\ owner[i] # Nothing => owner'[i] = owner[i]
                                  /\ config'[i] \in {owner'[i], Nothing, config[i]}
<1> DEFINE here == returned[p] \intersect Active(rows)
<1>1. here \in SUBSET Keys
    BY DEF Active
<1>2. PICK claim \in Claims(here) :
          /\ owner' = claim
          /\ Publish(Messages(claim, Owners(claim, here) \ described,
                              [k \in Owners(claim, here) |-> rows[k].value], Gone(p)))
          /\ described' = (described \union Owners(claim, here)) \ Gone(p)
          /\ known' = (known \union Owners(claim, here)) \ Gone(p)
    BY DEF Hook
<1> DEFINE mine == Owners(claim, here)
<1> HIDE DEF here
<1>3. mine \in SUBSET Keys /\ \A k \in mine : claim[ObjectId[k]] = k /\ k \in here
    BY <1>1 DEF Owners
<1>4. /\ \A i \in ObjectIds : claim[i] \in KeysNamed(i) \union {Nothing}
      /\ \A i \in ObjectIds : owner[i] # Nothing => claim[i] = owner[i]
    BY <1>1, ClaimKeepsOwners DEF IInv
<1>5. \A k \in mine : rows[k].value \in Values
    BY <1>3, ActiveRow DEF IInv, CatalogueTypes, here
<1> HIDE DEF mine
<1>6. /\ BrokerTypes' /\ Outgoing' /\ link' \in BOOLEAN /\ faults' \in Nat
      /\ \A i \in ObjectIds : config'[i] \in {owner'[i], Nothing, config[i]}
    <2> DEFINE states == [k \in mine |-> rows[k].value]
               messages == Messages(claim, mine \ described, states, Gone(p))
    <2>1. states \in [mine -> Values] /\ Gone(p) \in SUBSET Keys
        BY <1>5 DEF Gone, KeysOf
    <2>2. Publish(messages)
        BY <1>2 DEF mine
    <2> HIDE DEF states
    <2>3. /\ AreMessages(messages)
          /\ \A i \in ObjectIds \intersect DOMAIN messages : messages[i] \in {claim[i], Nothing}
        BY <1>3, <1>4, <2>1, MessageTypes
    <2> HIDE DEF messages
    <2> QED BY <1>2, <1>4, <2>2, <2>3, PublishedTypes DEF IInv
<1>7. MemoryTypes' /\ BookkeepingAgrees'
    BY <1>2, <1>3, <1>4, <1>6, BookkeepingAfter DEF mine
<1> QED BY <1>2, <1>4, <1>6, <1>7

LEMMA HookKeeps ==
    ASSUME IInv, NEW p \in Plugins, Hook(p)
    PROVE  IInv'
<1>1. CatalogueTypes' /\ FlagTypes'
    BY HookMoves DEF Hook, IInv, CatalogueTypes, FlagTypes
<1> QED BY <1>1, HookMoves DEF IInv

-----------------------------------------------------------------------------
\* The network thread.

LEMMA PublishSnapshotMoves ==
    ASSUME IInv, PublishSnapshot
    PROVE  /\ BrokerTypes' /\ Outgoing' /\ MemoryTypes' /\ BookkeepingAgrees'
           /\ link' \in BOOLEAN /\ faults' \in Nat
           /\ \A i \in ObjectIds : /\ owner[i] # Nothing => owner'[i] = owner[i]
                                  /\ config'[i] \in {owner'[i], Nothing, config[i]}
<1>1. PICK claim \in Claims(Active(view)), full \in Claims(Active(view) \union Retired) :
          /\ \A i \in ObjectIds : claim[i] # Nothing => full[i] = claim[i]
          /\ owner' = full
          /\ Publish(Messages(full, Owners(claim, Active(view)),
                              [k \in Owners(claim, Active(view)) |-> view[k].value], Retired))
          /\ described' = (described \union Owners(claim, Active(view))) \ Retired
          /\ known' = (known \union Owners(claim, Active(view))) \ Retired
    BY DEF PublishSnapshot
<1> DEFINE shown == Owners(claim, Active(view))
<1>2. Active(view) \in SUBSET Keys /\ Retired \in SUBSET Keys
    BY DEF Active, Retired, Inactive
<1>3. shown \in SUBSET Keys /\ \A k \in shown : claim[ObjectId[k]] = k /\ k \in Active(view)
    BY <1>2 DEF Owners
<1>4. /\ \A i \in ObjectIds : full[i] \in KeysNamed(i) \union {Nothing}
      /\ \A i \in ObjectIds : owner[i] # Nothing => full[i] = owner[i]
    BY <1>2, ClaimKeepsOwners DEF IInv
<1>5. \A k \in shown : full[ObjectId[k]] = k
    BY <1>1, <1>3
<1>6. \A k \in shown : view[k].value \in Values
    BY <1>3, ActiveRow DEF IInv, CatalogueTypes
<1> HIDE DEF shown
<1>7. /\ BrokerTypes' /\ Outgoing' /\ link' \in BOOLEAN /\ faults' \in Nat
      /\ \A i \in ObjectIds : config'[i] \in {owner'[i], Nothing, config[i]}
    <2> DEFINE states == [k \in shown |-> view[k].value]
               messages == Messages(full, shown, states, Retired)
    <2>1. states \in [shown -> Values]
        BY <1>6
    <2>2. Publish(messages)
        BY <1>1 DEF shown
    <2> HIDE DEF states
    <2>3. /\ AreMessages(messages)
          /\ \A i \in ObjectIds \intersect DOMAIN messages : messages[i] \in {full[i], Nothing}
        BY <1>2, <1>3, <1>4, <2>1, MessageTypes
    <2> HIDE DEF messages
    <2> QED BY <1>1, <1>4, <2>2, <2>3, PublishedTypes DEF IInv
<1>8. MemoryTypes' /\ BookkeepingAgrees'
    BY <1>1, <1>3, <1>4, <1>5, <1>7, BookkeepingAfter DEF shown
<1> QED BY <1>1, <1>4, <1>7, <1>8

LEMMA PublishSnapshotKeeps ==
    ASSUME IInv, PublishSnapshot
    PROVE  IInv'
<1>1. CatalogueTypes' /\ FlagTypes'
    BY PublishSnapshotMoves
    DEF PublishSnapshot, Continue, IInv, CatalogueTypes, FlagTypes, process
<1> QED BY <1>1, PublishSnapshotMoves DEF IInv

LEMMA ConnectionKeeps ==
    ASSUME IInv,
           \/ Connect \/ HomeAssistantOnline \/ ReadSnapshot \/ ReadFails
           \/ Disconnected
    PROVE  IInv'
<1>1. CASE Connect
    <2>1. CatalogueTypes' /\ FlagTypes'
        BY <1>1 DEF Connect, IInv, CatalogueTypes, FlagTypes, process, budget
    <2>2. resend' = Over(unacked, resend) /\ unacked' = NoMessages /\ owner' = owner
        BY <1>1 DEF Connect, memory
    <2>3. /\ AreMessages(Over(unacked, resend))
          /\ \A t \in DOMAIN Over(unacked, resend) :
                 \/ t \in DOMAIN unacked /\ Over(unacked, resend)[t] = unacked[t]
                 \/ t \in DOMAIN resend /\ Over(unacked, resend)[t] = resend[t]
        BY MergedMessages DEF IInv, Outgoing, OutgoingTypes
    <2>4. OfOwners(Over(unacked, resend))
        BY <2>3 DEF IInv, Outgoing, OutgoingOwned, OfOwners
    <2>5. Outgoing'
        BY <2>2, <2>3, <2>4, NoneOutgoing DEF Outgoing, OutgoingTypes, OutgoingOwned, OfOwners
    <2> QED BY <1>1, <2>1, <2>5, UntouchedMemory, UntouchedBroker DEF Connect, IInv
<1>2. CASE HomeAssistantOnline
    BY <1>2, UntouchedMemory, UntouchedBroker, UntouchedOutgoing
    DEF HomeAssistantOnline, IInv, CatalogueTypes, FlagTypes, process, budget
<1>3. CASE ReadSnapshot
    BY <1>3, UntouchedMemory, UntouchedBroker, UntouchedOutgoing
    DEF ReadSnapshot, IInv, CatalogueTypes, FlagTypes, process, budget
<1>4. CASE ReadFails
    <2>1. CatalogueTypes'
        BY <1>4 DEF ReadFails, Continue, IInv, CatalogueTypes, process
    <2>2. FlagTypes'
        BY <1>4 DEF ReadFails, Fault, IInv, FlagTypes
    <2>3. Outgoing'
        <3>1. unacked' = Kept(unacked) /\ resend' = resend /\ owner' = owner
            BY <1>4 DEF ReadFails, memory
        <3>2. AreMessages(unacked') /\ unacked' \in {unacked, NoMessages}
            BY <3>1, KeptTypes DEF IInv, Outgoing, OutgoingTypes
        <3> QED BY <3>1, <3>2, NoneOutgoing
                DEF IInv, Outgoing, OutgoingTypes, OutgoingOwned, OfOwners
    <2> QED BY <1>4, <2>1, <2>2, <2>3, UntouchedMemory, UntouchedBroker DEF ReadFails, IInv
<1>5. CASE Disconnected
    BY <1>5, UntouchedMemory, UntouchedBroker, UntouchedOutgoing
    DEF Disconnected, IInv, CatalogueTypes, FlagTypes, process, budget
<1> QED BY <1>1, <1>2, <1>3, <1>4, <1>5

\* What paho sends again was a message of an owner already.
LEMMA ResendMoves ==
    ASSUME IInv, Resend
    PROVE  /\ BrokerTypes' /\ Outgoing'
           /\ link' \in BOOLEAN /\ faults' \in Nat
           /\ \A i \in ObjectIds : config'[i] \in {owner[i], Nothing, config[i]}
<1>1. PICK late \in SUBSET (DOMAIN resend \intersect DOMAIN unacked) :
          LET last == (DOMAIN resend \ (DOMAIN resend \intersect DOMAIN unacked)) \union late
          IN  \E reached \in Reaching(last) :
                 /\ Arrive([t \in last |-> resend[t]], reached)
                 /\ behind' = behind \union reached
    BY DEF Resend
<1> DEFINE last == (DOMAIN resend \ (DOMAIN resend \intersect DOMAIN unacked)) \union late
           again == [t \in last |-> resend[t]]
<1>2. PICK reached \in Reaching(last) : Arrive(again, reached) /\ behind' = behind \union reached
    BY <1>1
<1>3. last \in SUBSET DOMAIN resend /\ AreMessages(resend) /\ AreMessages(unacked)
    BY DEF IInv, Outgoing, OutgoingTypes
<1> HIDE DEF last
<1>4. AreMessages(again) /\ DOMAIN again = last /\ reached \in SUBSET last
    BY <1>3, PartOfMessages, ReachingPart
<1>5. \A t \in last : again[t] = resend[t]
    OBVIOUS
<1> HIDE DEF again
<1>6. /\ \A i \in ObjectIds : config'[i] \in Payload(i)
      /\ \A k \in Keys : state'[k] \in Payload(k)
      /\ link' \in BOOLEAN /\ faults' \in Nat
      /\ \A i \in ObjectIds : \/ config'[i] = config[i]
                              \/ i \in DOMAIN again /\ config'[i] = again[i]
    BY <1>2, <1>4, ArrivedTypes DEF IInv
<1>7. \A i \in ObjectIds : config'[i] \in {owner[i], Nothing, config[i]}
    BY <1>3, <1>4, <1>5, <1>6 DEF IInv, Outgoing, OutgoingOwned, OfOwners
<1>8. BrokerTypes'
    BY <1>2, <1>3, <1>4, <1>6 DEF BrokerTypes, IInv, AreMessages
<1>9. Outgoing'
    <2> DEFINE merged == Over(unacked, resend)
    <2>1. /\ AreMessages(merged)
          /\ \A t \in DOMAIN merged :
                 \/ t \in DOMAIN unacked /\ merged[t] = unacked[t]
                 \/ t \in DOMAIN resend /\ merged[t] = resend[t]
        BY <1>3, MergedMessages
    <2>2. OfOwners(merged)
        BY <2>1 DEF IInv, Outgoing, OutgoingOwned, OfOwners
    <2>3. unacked' = Kept(merged) /\ resend' = NoMessages /\ owner' = owner
        BY DEF Resend, memory
    <2> HIDE DEF merged
    <2>4. AreMessages(unacked') /\ unacked' \in {merged, NoMessages}
        BY <2>1, <2>3, KeptTypes
    <2> QED BY <2>2, <2>3, <2>4, NoneOutgoing DEF Outgoing, OutgoingTypes, OutgoingOwned, OfOwners
<1> QED BY <1>6, <1>7, <1>8, <1>9

LEMMA ResendKeeps ==
    ASSUME IInv, Resend
    PROVE  IInv'
<1>1. CatalogueTypes' /\ FlagTypes'
    BY ResendMoves DEF Resend, IInv, CatalogueTypes, FlagTypes, process
<1> QED BY <1>1, ResendMoves, UntouchedMemory DEF IInv, Resend

LEMMA DropKeeps ==
    ASSUME IInv, Drop
    PROVE  IInv'
<1>1. BrokerTypes'
    BY DEF Drop, IInv, BrokerTypes, broker, Payload
<1>2. CatalogueTypes' /\ FlagTypes'
    <2>1. connected' \in BOOLEAN /\ link' \in BOOLEAN /\ missed' \in BOOLEAN
        BY Zenon DEF Drop, IInv, FlagTypes
    <2>2. changes' \in Nat /\ faults' \in Nat
        BY DEF Drop, Fault, IInv, FlagTypes
    <2>3. CatalogueTypes'
        BY DEF Drop, IInv, CatalogueTypes, process
    <2> QED BY <2>1, <2>2, <2>3 DEF FlagTypes
<1> QED BY <1>1, <1>2, UntouchedMemory, UntouchedOutgoing DEF IInv, Drop

LEMMA StepIInv ==
    ASSUME IInv, [Next]_vars
    PROVE  IInv'
<1>1. CASE \E on, broken \in SUBSET Plugins : Start(on, broken)
    BY <1>1, StartKeeps
<1>2. CASE Crash
    BY <1>2, CrashKeeps
<1>3. CASE Drop
    BY <1>3, DropKeeps
<1>4. CASE HomeAssistantOnline \/ NetworkThread
    BY <1>4, ConnectionKeeps, PublishSnapshotKeeps, ResendKeeps DEF NetworkThread
<1>5. ASSUME NEW p \in Plugins, PollThread(p)
      PROVE  IInv'
    BY <1>5, ReconcileKeeps, PollFailsKeeps, HookKeeps, HookFailsKeeps DEF PollThread
<1>6. ASSUME NEW p \in Plugins, NEW some \in SUBSET KeysOf(p), Store(p, some)
      PROVE  IInv'
    BY <1>6, StoreKeeps
<1>7. CASE UNCHANGED vars
    BY <1>7, UntouchedMemory, UntouchedBroker, UntouchedOutgoing
    DEF vars, process, network, budget, IInv, CatalogueTypes, FlagTypes
<1> QED BY <1>1, <1>2, <1>3, <1>4, <1>5, <1>6, <1>7 DEF Next

\* The bookkeeping of mqtt.py and the broker's messages have their types and
\* agree in every reachable state.
THEOREM InvariantHolds == Spec => []IInv
<1>1. Init => IInv
    BY InitIInv
<1>2. IInv /\ [Next]_vars => IInv'
    BY StepIInv
<1> QED BY <1>1, <1>2, PTL DEF Spec

\* Every variable of the publisher and of the broker keeps its type.
THEOREM TypeCorrect == Spec => []TypeOK
<1>1. IInv => TypeOK
    BY TypeParts DEF IInv, Outgoing
<1> QED BY <1>1, InvariantHolds, PTL

\* What mqtt.py believes to be announced is what it has a fingerprint of, and
\* each such key owns its object id: whichever thread announced it, whichever
\* messages were lost, and however keys collide on an id.
THEOREM BookkeepingCorrect == Spec => []BookkeepingAgrees
<1>1. IInv => BookkeepingAgrees
    BY DEF IInv
<1> QED BY <1>1, InvariantHolds, PTL

-----------------------------------------------------------------------------
\* A known key's config is its owner's, so a message of an owner cannot hand the
\* entity to another.
LEMMA EntityOfOwner ==
    ASSUME IInv, NEW i \in ObjectIds, config[i] \in known
    PROVE  owner[i] = config[i] /\ owner[i] # Nothing
<1>1. config[i] \in Keys /\ config[i] # Nothing /\ ObjectId[config[i]] = i
    BY DEF IInv, MemoryTypes, BrokerTypes, Payload, KeysNamed
<1> QED BY <1>1 DEF IInv, BookkeepingAgrees

LEMMA StepKeepsEntities ==
    ASSUME IInv, [Next]_vars, NEW i \in ObjectIds, config[i] \in known,
           config'[i] # config[i]
    PROVE  config'[i] = Nothing
<1>1. CASE Drop
    BY <1>1 DEF Drop, broker
<1>2. ASSUME NEW p \in Plugins, Hook(p)
      PROVE  config'[i] = Nothing
    BY <1>2, HookMoves, EntityOfOwner
<1>3. CASE PublishSnapshot
    BY <1>3, PublishSnapshotMoves, EntityOfOwner
<1>6. CASE Resend
    BY <1>6, ResendMoves, EntityOfOwner
<1>4. CASE UNCHANGED broker
    BY <1>4 DEF broker
<1>5. \/ UNCHANGED broker \/ Drop \/ PublishSnapshot \/ Resend
      \/ \E p \in Plugins : Hook(p)
    BY DEF Next, vars, Start, Crash, HomeAssistantOnline, NetworkThread, Connect,
           ReadSnapshot, ReadFails, Disconnected, PollThread, Reconcile, PollFails,
           HookFails, Store
<1> QED BY <1>1, <1>2, <1>3, <1>4, <1>5, <1>6

\* Within one process an entity is never handed to another metric, whatever the
\* keys collide on and whichever of hook and snapshot comes first (the claims of
\* _object_id_for in mqtt.py).
THEOREM EntitiesKept == Spec => EntityNotStolen
<1>1. IInv /\ [Next]_vars =>
        [\A i \in ObjectIds :
            config[i] \in known /\ config'[i] # config[i] => config'[i] = Nothing]_vars
    BY StepKeepsEntities
<1> QED BY <1>1, InvariantHolds, PTL DEF Spec, EntityNotStolen
=============================================================================
