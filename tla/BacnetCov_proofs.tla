-------------------------- MODULE BacnetCov_proofs --------------------------
(***************************************************************************)
(* Proofs about BacnetCov, for any objects, subscribers, limits and delays *)
(* with a place in the recovery table for each object: that there is room  *)
(* for whatever is given up, and that no subscriber is forgotten.          *)
(***************************************************************************)
EXTENDS BacnetCov, FiniteSetTheorems, TLAPS

\* A table with at most one entry for each object.
Table(t) ==
  /\ t \subseteq Entries
  /\ \A d, e \in t : d.object = e.object => d = e

\* Time takes no entry from the table and adds none.
LEMMA AgedIsTable ==
  ASSUME NEW t, Table(t)
  PROVE  Table(Aged(t)) /\ Recorded(Aged(t)) = Recorded(t)
<1> DEFINE Older(e) == [e EXCEPT !.due = IF @ > 0 THEN @ - 1 ELSE 0]
<1>1. RecoveryDelay \in Nat
  BY LimitsAssumption
<1>2. ASSUME NEW e \in t
      PROVE  Older(e) \in Entries /\ Older(e).object = e.object
  BY <1>1 DEF Table, Entries
<1>3. Aged(t) = {Older(e) : e \in t}
  BY DEF Aged
<1> HIDE DEF Older
<1>4. Table(Aged(t))
  BY <1>2, <1>3 DEF Table
<1>5. Recorded(Aged(t)) = Recorded(t)
  BY <1>2, <1>3 DEF Recorded
<1> QED BY <1>4, <1>5

\* A table has room for every object that it has no entry for, since it has an
\* entry for an object at most and a place for each (RECOVERY_CAPACITY).
LEMMA TableHasRoom ==
  ASSUME NEW t, Table(t), NEW new \in SUBSET (Objects \ Recorded(t))
  PROVE  /\ Cardinality(new) \in Nat /\ Cardinality(t) \in Nat
         /\ Cardinality(new) <= Capacity - Cardinality(t)
<1> DEFINE recorded == Recorded(t)
           object == [e \in t |-> e.object]
<1>1. IsFiniteSet(Objects) /\ Cardinality(Objects) <= Capacity /\ Capacity \in Nat
  BY CapacityAssumption, LimitsAssumption
<1>2. recorded \in SUBSET Objects /\ new \in SUBSET Objects /\ recorded \cap new = {}
  BY DEF Table, Recorded, Entries
<1>3. object \in Injection(t, recorded)
  <2>1. object \in [t -> recorded]
    BY DEF Recorded
  <2>2. \A d, e \in t : object[d] = object[e] => d = e
    BY DEF Table
  <2> QED BY <2>1, <2>2 DEF Injection, IsInjective
<1> HIDE DEF object, recorded
<1>4. IsFiniteSet(recorded) /\ IsFiniteSet(new)
  BY <1>1, <1>2, FS_Subset
<1>5. IsFiniteSet(t) /\ Cardinality(t) <= Cardinality(recorded)
  BY <1>3, <1>4, FS_Injection
<1>6. Cardinality(recorded \cup new) = Cardinality(recorded) + Cardinality(new)
  <2>1. /\ Cardinality(recorded) \in Nat /\ Cardinality(new) \in Nat
        /\ Cardinality(recorded \cap new) = 0
    BY <1>2, <1>4, FS_CardinalityType, FS_EmptySet
  <2>2. Cardinality(recorded \cup new) =
          Cardinality(recorded) + Cardinality(new) - Cardinality(recorded \cap new)
    BY <1>4, FS_Union
  <2> QED BY <2>1, <2>2
<1>7. recorded \cup new \in SUBSET Objects
  BY <1>2
<1>8. Cardinality(recorded \cup new) <= Cardinality(Objects)
  BY <1>1, <1>7, FS_Subset
<1>9. /\ Cardinality(t) \in Nat /\ Cardinality(recorded) \in Nat
      /\ Cardinality(new) \in Nat /\ Cardinality(Objects) \in Nat
  BY <1>1, <1>4, <1>5, FS_CardinalityType
<1> QED BY <1>1, <1>5, <1>6, <1>8, <1>9

\* So an object is never dropped when a notification of it is given up
\* (cov_timeout).
LEMMA NoTimeoutIsDropped ==
  ASSUME NEW t, Table(t), NEW expired \in SUBSET Subscribers,
         NEW after \in cov_timeout(Aged(t), expired)
  PROVE  /\ Table(after)
         /\ Recorded(after) = Recorded(t) \cup {Monitors[s] : s \in expired}
<1> DEFINE old == Aged(t)
           new == {Monitors[s] : s \in expired} \ Recorded(old)
           made == [object : new, due : {RecoveryDelay}]
<1>1. Table(old) /\ Recorded(old) = Recorded(t)
  BY AgedIsTable
<1>2. new \in SUBSET (Objects \ Recorded(old)) /\ RecoveryDelay \in Nat
  BY SubscribersAssumption, LimitsAssumption
<1>3. after \in Recording(new, old)
  BY DEF cov_timeout
<1> HIDE DEF old, new
<1>4. /\ Cardinality(new) \in Nat /\ Cardinality(old) \in Nat
      /\ Cardinality(new) <= Capacity - Cardinality(old)
  BY <1>1, <1>2, TableHasRoom
<1>5. after = old \cup made
  <2>1. PICK some \in SUBSET new :
          /\ after = old \cup [object : some, due : {RecoveryDelay}]
          /\ \/ some = new /\ Cardinality(new) <= Capacity - Cardinality(old)
             \/ /\ Cardinality(some) = Capacity - Cardinality(old)
                /\ Capacity - Cardinality(old) < Cardinality(new)
    BY <1>3 DEF Recording
  <2>2. Capacity \in Nat
    BY LimitsAssumption
  <2>3. some = new
    BY <1>4, <2>1, <2>2
  <2> QED BY <2>1, <2>3
<1>6. \A e \in made : e \in Entries /\ e.object \in new /\ e.due = RecoveryDelay
  BY <1>2 DEF Entries
<1>7. \A d, e \in made : d.object = e.object => d = e
  OBVIOUS
<1>8. \A o \in new : \E e \in made : e.object = o
  <2> SUFFICES ASSUME NEW o \in new
               PROVE  \E e \in made : e.object = o
    OBVIOUS
  <2> WITNESS [object |-> o, due |-> RecoveryDelay] \in made
  <2> QED OBVIOUS
<1> HIDE DEF made
<1>9. \A d \in old, e \in made : d.object # e.object
  BY <1>2, <1>6 DEF Recorded
<1>10. Table(after)
  BY <1>1, <1>5, <1>6, <1>7, <1>9 DEF Table
<1>11. Recorded(after) = Recorded(old) \cup new
  BY <1>5, <1>6, <1>8 DEF Recorded
<1> QED BY <1>1, <1>10, <1>11 DEF new

\* A tick has a table to go on with, whatever expires.
LEMMA TimeoutHasResult ==
  ASSUME NEW t, Table(t), NEW expired \in SUBSET Subscribers
  PROVE  cov_timeout(Aged(t), expired) # {}
<1> DEFINE old == Aged(t)
           new == {Monitors[s] : s \in expired} \ Recorded(old)
<1>1. new \in SUBSET (Objects \ Recorded(old))
  BY SubscribersAssumption
<1>2. cov_timeout(old, expired) = Recording(new, old)
  BY DEF cov_timeout
<1>3. Cardinality(new) <= Capacity - Cardinality(old)
  <2> HIDE DEF new
  <2> QED BY <1>1, AgedIsTable, TableHasRoom
<1> HIDE DEF old, new
<1>4. old \cup [object : new, due : {RecoveryDelay}] \in Recording(new, old)
  BY <1>3 DEF Recording
<1> QED BY <1>2, <1>4 DEF old

\* Nothing has been told yet, and everything is to be reported.
LEMMA InitInv == ASSUME Init
                    PROVE  Inv
<1>1. MaxValue \in Nat
  BY LimitsAssumption
<1>2. TypeOK
  <2>1. value \in [Objects -> Values]
    BY <1>1 DEF Init, Values
  <2>2. /\ flight \in [Subscribers -> Values \cup {Nothing}]
        /\ known \in [Subscribers -> Values \cup {Nothing}]
    BY DEF Init
  <2>3. link_up \in BOOLEAN
    BY Zenon DEF Init
  <2> QED BY <2>1, <2>2, <2>3 DEF Init, TypeOK
<1>3. OneEntryPerObject
  BY DEF Init, OneEntryPerObject
<1>4. InFlight = {} /\ ToldOK
  BY DEF Init, InFlight, ToldOK
<1> QED BY <1>2, <1>3, <1>4 DEF Inv

\* In a pass every subscription is sent the value, stays marked, or is neither and
\* then its object keeps what is known of it (handler_cov_fsm).
LEMMA PassInv ==
  ASSUME Inv, NEW expired \in SUBSET InFlight,
         NEW unsent, NEW table, Table(table),
         Recorded(table) = Recorded(recovery) \cup {Monitors[s] : s \in expired},
         Pass(table, expired, unsent),
         UNCHANGED <<link_up, value, subscribed, known>>
  PROVE  Inv'
<1> DEFINE marked  == requested \cup {s \in subscribed : Changed(Monitors[s], table)}
           cleared == {Monitors[s] : s \in marked}
           open    == InFlight \ expired
           ready   == marked \ open
           sent    == {s \in ready :
                         Cardinality({q \in ready : q < s})
                           < MaxTransactions - Cardinality(open)}
<1>1. /\ changed' = changed \ cleared
      /\ recovery' = {e \in table : e.object \notin cleared}
      /\ requested' = marked \ (sent \ unsent)
      /\ flight' = [s \in Subscribers |->
                      IF s \in sent THEN value[Monitors[s]]
                      ELSE IF s \in expired THEN Nothing ELSE flight[s]]
      /\ overtaken' = (overtaken \ sent) \cup
           {s \in subscribed \ marked : Monitors[s] \in cleared \cap Recorded(table)}
      /\ UNCHANGED <<link_up, value, subscribed, known>>
  BY DEF Pass, retry_clear
<1>2. /\ sent \subseteq marked /\ requested \subseteq marked /\ sent \cap open = {}
      /\ \A s \in subscribed \ marked : Monitors[s] \notin changed
  BY DEF Changed
<1> HIDE DEF ready, sent
<1>3. /\ TypeOK /\ marked \subseteq subscribed /\ InFlight \subseteq subscribed
      /\ ToldOK /\ expired \subseteq InFlight
  BY DEF Inv, TypeOK
<1>4. Monitors \in [Subscribers -> Objects] /\ MaxValue \in Nat
  BY SubscribersAssumption, LimitsAssumption
<1>5. \A s \in Subscribers : value[Monitors[s]] \in Values
  BY <1>3, <1>4 DEF TypeOK
<1> HIDE DEF marked
<1>6. TypeOK'
  <2>1. flight' \in [Subscribers -> Values \cup {Nothing}]
    BY <1>1, <1>3, <1>5 DEF TypeOK
  <2>2. requested' \subseteq subscribed' /\ overtaken' \subseteq subscribed'
    BY <1>1, <1>3 DEF TypeOK
  <2>3. recovery' \subseteq Entries
    BY <1>1 DEF Table
  <2>4. changed' \subseteq Objects
    BY <1>1, <1>3 DEF TypeOK
  <2>5. UNCHANGED <<link_up, value, subscribed, known>>
    BY <1>1
  <2> QED BY <1>3, <2>1, <2>2, <2>3, <2>4, <2>5 DEF TypeOK
<1>7. OneEntryPerObject'
  BY <1>1 DEF OneEntryPerObject, Table
<1>8. \A s \in Subscribers :
        s \in InFlight' <=> s \in sent \/ s \in InFlight \ expired
  BY <1>1, <1>4, <1>5 DEF InFlight, Nothing, Values
<1>9. InFlight' \subseteq subscribed'
  <2>1. InFlight' \subseteq Subscribers
    BY DEF InFlight
  <2> QED BY <1>1, <1>2, <1>3, <1>8, <2>1
<1>10. ASSUME NEW s \in subscribed' \ overtaken'
       PROVE  \/ Pending(s)'
              \/ IF s \in InFlight' THEN flight'[s] = value'[Monitors[s]]
                 ELSE UpToDate(s)'
  <2>1. s \in subscribed /\ s \in Subscribers
    BY <1>1, <1>3 DEF TypeOK
  <2>2. CASE s \in sent
    BY <1>1, <1>8, <2>1, <2>2
  <2>3. CASE s \in marked \ sent
    BY <1>1, <2>3 DEF Pending
  <2>4. CASE s \notin marked
    <3>1. s \notin sent /\ s \notin overtaken /\ s \notin requested
          /\ Monitors[s] \notin changed
      BY <1>1, <1>2, <1>10, <2>1, <2>4
    <3>2. CASE Monitors[s] \in Recorded(table)
      <4>1. Monitors[s] \notin cleared
        BY <1>1, <1>10, <2>1, <2>4, <3>2
      <4>2. Monitors[s] \in Recorded(recovery')
        BY <1>1, <3>2, <4>1 DEF Recorded
      <4> QED BY <4>2 DEF Pending, Recorded
    <3>3. CASE Monitors[s] \notin Recorded(table)
      <4>1. s \notin expired /\ ~Pending(s)
        BY <3>1, <3>3 DEF Pending
      <4>2. IF s \in InFlight THEN flight[s] = value[Monitors[s]] ELSE UpToDate(s)
        BY <1>3, <2>1, <3>1, <4>1 DEF ToldOK
      <4>3. flight'[s] = flight[s] /\ (s \in InFlight' <=> s \in InFlight)
        BY <1>1, <1>8, <2>1, <3>1, <4>1
      <4> QED BY <1>1, <4>2, <4>3 DEF UpToDate
    <3> QED BY <3>2, <3>3
  <2> QED BY <2>2, <2>3, <2>4
<1>11. ToldOK'
  BY <1>10 DEF ToldOK
<1> QED BY <1>6, <1>7, <1>9, <1>11 DEF Inv

\* Without a link only the transactions end, and what they were about is recorded.
LEMMA NoPassInv ==
  ASSUME Inv, NEW expired \in SUBSET InFlight,
         NEW table, Table(table),
         Recorded(table) = Recorded(recovery) \cup {Monitors[s] : s \in expired},
         NoPass(table, expired),
         UNCHANGED <<link_up, value, subscribed, known>>
  PROVE  Inv'
<1>1. /\ recovery' = table
      /\ flight' = [s \in Subscribers |-> IF s \in expired THEN Nothing ELSE flight[s]]
      /\ UNCHANGED <<link_up, value, subscribed, known, changed, requested, overtaken>>
  BY DEF NoPass
<1>2. TypeOK'
  <2>1. flight' \in [Subscribers -> Values \cup {Nothing}]
    BY <1>1 DEF Inv, TypeOK
  <2> QED BY <1>1, <2>1 DEF Inv, TypeOK, Table
<1>3. OneEntryPerObject'
  BY <1>1 DEF OneEntryPerObject, Table
<1>4. \A s \in Subscribers : s \in InFlight' <=> s \in InFlight \ expired
  BY <1>1 DEF InFlight
<1>5. InFlight' \subseteq subscribed'
  <2>1. InFlight' \subseteq Subscribers
    BY DEF InFlight
  <2> QED BY <1>1, <1>4, <2>1 DEF Inv
<1>6. ASSUME NEW s \in subscribed' \ overtaken'
      PROVE  \/ Pending(s)'
             \/ IF s \in InFlight' THEN flight'[s] = value'[Monitors[s]]
                ELSE UpToDate(s)'
  <2>1. s \in subscribed \ overtaken /\ s \in Subscribers
    BY <1>1 DEF Inv, TypeOK
  <2>2. CASE s \in expired \/ Pending(s)
    <3>1. Monitors[s] \in changed \cup Recorded(table) \/ s \in requested
      BY <2>2 DEF Pending
    <3> QED BY <1>1, <3>1 DEF Pending, Recorded
  <2>3. CASE s \notin expired /\ ~Pending(s)
    <3>1. IF s \in InFlight THEN flight[s] = value[Monitors[s]] ELSE UpToDate(s)
      BY <2>1, <2>3 DEF Inv, ToldOK
    <3> QED BY <1>1, <1>4, <2>1, <2>3, <3>1 DEF UpToDate
  <2> QED BY <2>2, <2>3
<1>7. ToldOK'
  BY <1>6 DEF ToldOK
<1> QED BY <1>2, <1>3, <1>5, <1>7 DEF Inv

\* gateway_bacnet_tick: the timers, then the notifications.
LEMMA TickInv ==
  ASSUME Inv, Tick
  PROVE  Inv'
<1>1. PICK expired \in SUBSET InFlight, unsent \in SUBSET Subscribers :
        gateway_bacnet_tick(expired, unsent)
  BY DEF Tick
<1>2. PICK table \in cov_timeout(Aged(recovery), expired) :
        IF link_up THEN Pass(table, expired, unsent) ELSE NoPass(table, expired)
  BY <1>1 DEF gateway_bacnet_tick
<1>3. UNCHANGED <<link_up, value, subscribed, known>>
  BY <1>1 DEF gateway_bacnet_tick
<1>4. Table(recovery) /\ expired \in SUBSET Subscribers
  BY DEF Inv, TypeOK, OneEntryPerObject, Table, InFlight
<1>5. /\ Table(table)
      /\ Recorded(table) = Recorded(recovery) \cup {Monitors[s] : s \in expired}
  BY <1>4, NoTimeoutIsDropped
<1> QED BY <1>2, <1>3, <1>5, PassInv, NoPassInv

\* gateway_bacnet_update: whatever changes is to be reported.
LEMMA UpdateInv ==
  ASSUME Inv, gateway_bacnet_update
  PROVE  Inv'
<1>1. PICK some \in SUBSET {o \in Objects : value[o] < MaxValue} :
        /\ value' = [o \in Objects |-> IF o \in some THEN value[o] + 1 ELSE value[o]]
        /\ changed' = changed \cup some
        /\ UNCHANGED <<link_up, recovery, subscribed, requested, flight, known, overtaken>>
  BY DEF gateway_bacnet_update, stack
<1>2. MaxValue \in Nat /\ Monitors \in [Subscribers -> Objects]
  BY LimitsAssumption, SubscribersAssumption
<1>3. TypeOK'
  <2>1. value' \in [Objects -> Values]
    BY <1>1, <1>2 DEF Inv, TypeOK, Values
  <2> QED BY <1>1, <2>1 DEF Inv, TypeOK
<1>4. OneEntryPerObject' /\ InFlight' = InFlight
  BY <1>1 DEF Inv, OneEntryPerObject, InFlight
<1>5. ASSUME NEW s \in subscribed' \ overtaken'
      PROVE  \/ Pending(s)'
             \/ IF s \in InFlight' THEN flight'[s] = value'[Monitors[s]]
                ELSE UpToDate(s)'
  <2>1. s \in subscribed \ overtaken /\ Monitors[s] \in Objects
    BY <1>1, <1>2 DEF Inv, TypeOK
  <2>2. CASE Monitors[s] \in some \/ Pending(s)
    BY <1>1, <2>2 DEF Pending, Recorded
  <2>3. CASE Monitors[s] \notin some /\ ~Pending(s)
    <3>1. value'[Monitors[s]] = value[Monitors[s]]
      BY <1>1, <2>1, <2>3
    <3>2. IF s \in InFlight THEN flight[s] = value[Monitors[s]] ELSE UpToDate(s)
      BY <2>1, <2>3 DEF Inv, ToldOK
    <3> QED BY <1>1, <1>4, <3>1, <3>2 DEF UpToDate
  <2> QED BY <2>2, <2>3
<1>6. ToldOK'
  BY <1>5 DEF ToldOK
<1> QED BY <1>1, <1>3, <1>4, <1>6 DEF Inv

\* A subscription that is made or renewed is marked.
LEMMA SubscribeInv ==
  ASSUME Inv, NEW s \in Subscribers, Subscribe(s)
  PROVE  Inv'
<1>1. /\ subscribed' = subscribed \cup {s} /\ requested' = requested \cup {s}
      /\ known' = IF s \in subscribed THEN known ELSE [known EXCEPT ![s] = Nothing]
      /\ UNCHANGED <<link_up, value, changed, recovery, flight, overtaken>>
  BY DEF Subscribe
<1>2. TypeOK'
  <2>1. known' \in [Subscribers -> Values \cup {Nothing}]
    BY <1>1 DEF Inv, TypeOK
  <2> QED BY <1>1, <2>1 DEF Inv, TypeOK
<1>3. /\ OneEntryPerObject' /\ InFlight' = InFlight
      /\ InFlight' \subseteq subscribed'
  BY <1>1 DEF Inv, OneEntryPerObject, InFlight
<1>4. ASSUME NEW r \in subscribed' \ overtaken'
      PROVE  \/ Pending(r)'
             \/ IF r \in InFlight' THEN flight'[r] = value'[Monitors[r]]
                ELSE UpToDate(r)'
  <2>1. CASE r = s
    BY <1>1, <2>1 DEF Pending
  <2>2. CASE r # s
    <3>1. r \in subscribed \ overtaken /\ known'[r] = known[r]
      BY <1>1, <2>2 DEF Inv, TypeOK
    <3>2. Pending(r) => Pending(r)'
      BY <1>1 DEF Pending, Recorded
    <3> QED BY <1>1, <1>3, <3>1, <3>2 DEF Inv, ToldOK, UpToDate
  <2> QED BY <2>1, <2>2
<1>5. ToldOK'
  BY <1>4 DEF ToldOK
<1> QED BY <1>2, <1>3, <1>5 DEF Inv

\* Nobody is to be told who is not subscribed.
LEMMA UnsubscribeInv ==
  ASSUME Inv, NEW s \in Subscribers, Unsubscribe(s)
  PROVE  Inv'
<1>1. /\ subscribed' = subscribed \ {s} /\ requested' = requested \ {s}
      /\ flight' = [flight EXCEPT ![s] = Nothing]
      /\ overtaken' = overtaken \ {s}
      /\ UNCHANGED <<link_up, value, changed, recovery, known>>
  BY DEF Unsubscribe
<1>2. TypeOK'
  <2>1. flight' \in [Subscribers -> Values \cup {Nothing}]
    BY <1>1 DEF Inv, TypeOK
  <2> QED BY <1>1, <2>1 DEF Inv, TypeOK
<1>3. /\ \A r \in Subscribers : r # s => flight'[r] = flight[r]
      /\ flight'[s] = Nothing
  BY <1>1 DEF Inv, TypeOK
<1>4. OneEntryPerObject' /\ InFlight' = InFlight \ {s}
  <2>1. OneEntryPerObject'
    BY <1>1 DEF Inv, OneEntryPerObject
  <2>2. \A r \in Subscribers : flight'[r] # Nothing <=> flight[r] # Nothing /\ r # s
    BY <1>3
  <2>3. InFlight' = InFlight \ {s}
    BY <2>2 DEF InFlight
  <2> QED BY <2>1, <2>3
<1>5. ASSUME NEW r \in subscribed' \ overtaken'
      PROVE  \/ Pending(r)'
             \/ IF r \in InFlight' THEN flight'[r] = value'[Monitors[r]]
                ELSE UpToDate(r)'
  <2>1. r # s /\ r \in subscribed \ overtaken /\ r \in Subscribers
    BY <1>1 DEF Inv, TypeOK
  <2>2. Pending(r) => Pending(r)'
    BY <1>1, <2>1 DEF Pending, Recorded
  <2>3. UpToDate(r) => UpToDate(r)'
    BY <1>1 DEF UpToDate
  <2> QED BY <1>1, <1>3, <1>4, <2>1, <2>2, <2>3 DEF Inv, ToldOK
<1>6. ToldOK'
  BY <1>5 DEF ToldOK
<1> QED BY <1>1, <1>2, <1>4, <1>6 DEF Inv

\* A notification that arrives brings what was sent, acknowledged or not.
LEMMA ArriveInv ==
  ASSUME Inv, NEW s \in Subscribers,
         Deliver(s) \/ Acknowledge(s)
  PROVE  Inv'
<1>1. /\ s \in InFlight /\ known' = [known EXCEPT ![s] = flight[s]]
      /\ flight' \in {flight, [flight EXCEPT ![s] = Nothing]}
      /\ UNCHANGED <<link_up, value, changed, recovery, subscribed, requested, overtaken>>
  BY DEF Deliver, Acknowledge, stack
<1>2. TypeOK'
  <2>1. /\ flight' \in [Subscribers -> Values \cup {Nothing}]
        /\ known' \in [Subscribers -> Values \cup {Nothing}]
    BY <1>1 DEF Inv, TypeOK
  <2> QED BY <1>1, <2>1 DEF Inv, TypeOK
<1>3. \A r \in Subscribers :
        /\ r # s => flight'[r] = flight[r] /\ known'[r] = known[r]
        /\ flight'[s] \in {flight[s], Nothing} /\ known'[s] = flight[s]
  BY <1>1 DEF Inv, TypeOK
<1>4. /\ OneEntryPerObject' /\ InFlight' \subseteq InFlight
      /\ \A r \in InFlight' : flight'[r] = flight[r]
      /\ InFlight \ {s} \subseteq InFlight'
  BY <1>1, <1>3 DEF Inv, OneEntryPerObject, InFlight
<1>5. ASSUME NEW r \in subscribed' \ overtaken'
      PROVE  \/ Pending(r)'
             \/ IF r \in InFlight' THEN flight'[r] = value'[Monitors[r]]
                ELSE UpToDate(r)'
  <2>1. r \in subscribed \ overtaken /\ r \in Subscribers
    BY <1>1 DEF Inv, TypeOK
  <2>2. Pending(r) => Pending(r)'
    BY <1>1 DEF Pending, Recorded
  <2>3. \/ Pending(r)
        \/ IF r \in InFlight THEN flight[r] = value[Monitors[r]] ELSE UpToDate(r)
    BY <2>1 DEF Inv, ToldOK
  <2>4. CASE r = s
    BY <1>1, <1>3, <1>4, <2>2, <2>3, <2>4 DEF UpToDate
  <2>5. CASE r # s
    BY <1>1, <1>3, <1>4, <2>1, <2>2, <2>3, <2>5 DEF UpToDate
  <2> QED BY <2>4, <2>5
<1>6. ToldOK'
  BY <1>5 DEF ToldOK
<1> QED BY <1>1, <1>2, <1>4, <1>6 DEF Inv

\* The link and a stutter change nothing that the invariant is about.
LEMMA RestInv ==
  ASSUME Inv, gateway_bacnet_network_update \/ UNCHANGED vars
  PROVE  Inv'
<1>1. UNCHANGED <<value, changed, recovery, subscribed, requested, flight, known, overtaken>>
  BY DEF gateway_bacnet_network_update, vars, stack
<1>2. link_up' \in BOOLEAN
  BY Zenon DEF gateway_bacnet_network_update, vars, Inv, TypeOK
<1> QED BY <1>1, <1>2 DEF Inv, TypeOK, OneEntryPerObject, InFlight,
      ToldOK, Pending, UpToDate, Recorded

\* Every step keeps the invariant.
LEMMA NextInv ==
  ASSUME Inv, [Next]_vars
  PROVE  Inv'
BY TickInv, UpdateInv, SubscribeInv, UnsubscribeInv, ArriveInv, RestInv DEF Next

\* The table, the subscriptions and what each subscriber is told fit together in
\* every state, whatever gets lost and whatever the stack has room for.
THEOREM InvIsInvariant == Spec => []Inv
<1>1. Init => Inv
  BY InitInv
<1>2. Inv /\ [Next]_vars => Inv'
  BY NextInv
<1> QED BY <1>1, <1>2, PTL DEF Spec

\* gateway_bacnet.c:134-175: a subscriber that does not know the current value is
\* going to be told, unless its object was taken off the table because another
\* subscriber was told of it.
THEOREM NoSubscriberIsForgotten == Spec => []NothingIsForgotten
<1>1. Inv => NothingIsForgotten
  BY DEF Inv, ToldOK, NothingIsForgotten
<1>2. Spec => []Inv
  BY InvIsInvariant
<1> QED BY <1>1, <1>2, PTL

\* gateway_bacnet.c:251-263: the search for a free entry never ends without one,
\* whatever number of notifications is given up in one call.
THEOREM TimeoutsAreAlwaysRecorded ==
  Spec =>
    [](\A expired \in SUBSET InFlight :
         /\ cov_timeout(Aged(recovery), expired) # {}
         /\ \A table \in cov_timeout(Aged(recovery), expired) :
              {Monitors[s] : s \in expired} \subseteq Recorded(table))
<1>1. ASSUME Inv, NEW expired \in SUBSET InFlight
      PROVE  /\ cov_timeout(Aged(recovery), expired) # {}
             /\ \A table \in cov_timeout(Aged(recovery), expired) :
                  {Monitors[s] : s \in expired} \subseteq Recorded(table)
  <2>1. Table(recovery) /\ expired \in SUBSET Subscribers
    BY <1>1 DEF Inv, TypeOK, OneEntryPerObject, Table, InFlight
  <2> QED BY <2>1, TimeoutHasResult, NoTimeoutIsDropped
<1>2. Inv => \A expired \in SUBSET InFlight :
                   /\ cov_timeout(Aged(recovery), expired) # {}
                   /\ \A table \in cov_timeout(Aged(recovery), expired) :
                        {Monitors[s] : s \in expired} \subseteq Recorded(table)
  BY <1>1
<1>3. Spec => []Inv
  BY InvIsInvariant
<1> QED BY <1>2, <1>3, PTL
=============================================================================
