--------------------------- MODULE Gateway_proofs ---------------------------
(***************************************************************************)
(* Proofs about Gateway, for any points, addresses and number of network   *)
(* events, and any polling engine that keeps to PollContract: the          *)
(* inductive invariant and the safety properties that follow from it.      *)
(***************************************************************************)
EXTENDS Gateway, TLAPS

\* Whatever the engine held, it is left without.
LEMMA OfflineForgets ==
  Offline => /\ verified' \in BOOLEAN
             /\ samples' = Nothing /\ samples' \in Samples /\ probed' = {}
BY EngineAssumption DEF Offline, Nothing, Samples, Contract!Distrust

\* The state before any task has run.
LEMMA InitInv == Init => Inv
<1> SUFFICES ASSUME Init
             PROVE  Inv
  OBVIOUS
<1> USE DEF Init
<1>1. verified \in BOOLEAN
  BY EngineAssumption
<1>2. Nothing \in Samples
  BY DEF Nothing, Samples
<1>3. NoGeneration \in Nat
  BY MaxGenerationAssumption DEF NoGeneration
<1>4. TypeOK
  <2>1. {network_up, up, previous_up, verified, started, link_up, socket_open,
         due, config_error} \subseteq BOOLEAN
    BY <1>1, Zenon
  <2>2. published_bacnet \in [initialized : BOOLEAN, link_up : BOOLEAN]
    OBVIOUS
  <2>3. QED
    BY <1>2, <1>3, <2>1, <2>2 DEF TypeOK
<1>5. GenerationsOK
  BY DEF GenerationsOK
<1>6. EngineOK /\ SharedOK
  BY DEF EngineOK, RestsOn, SharedOK, Nothing
<1>7. BacnetOK
  BY DEF BacnetOK
<1>8. QED
  BY <1>4, <1>5, <1>6, <1>7 DEF Inv

-----------------------------------------------------------------------------
\* An event leaves every task behind the generation count.
LEMMA NetworkInv == Inv /\ Network => Inv'
<1> SUFFICES ASSUME Inv, Network
             PROVE  Inv'
  OBVIOUS
<1>1. /\ network_up' \in BOOLEAN /\ network_info' \in Addresses \cup {Unset}
      /\ network_generation' = network_generation + 1
      /\ network_generation \in Nat
      /\ UNCHANGED <<shared, poll, bacnet, config_error>>
  BY DEF Network, GotIp, Unavailable, Event, Inv, TypeOK
<1> USE <1>1 DEF Inv, shared, poll, engine, bacnet
<1>2. TypeOK'
  BY DEF TypeOK
<1>3. GenerationsOK'
  BY DEF GenerationsOK, TypeOK
<1>4. During \subseteq During'
  BY DEF During, TypeOK
<1>5. EngineOK'
  BY <1>4 DEF EngineOK, RestsOn
<1>6. SharedOK'
  BY DEF SharedOK
<1>7. BacnetOK'
  BY DEF BacnetOK, GenerationsOK
<1>8. QED
  BY <1>2, <1>3, <1>5, <1>6, <1>7

-----------------------------------------------------------------------------
\* The polling task looks at the network.
LEMMA PollTopInv == Inv /\ PollTop => Inv'
<1> SUFFICES ASSUME Inv, PollTop
             PROVE  Inv'
  OBVIOUS
<1> USE DEF Inv, PollTop, network, shared, engine, bacnet
<1>1. TypeOK'
  BY OfflineForgets DEF TypeOK
<1>2. GenerationsOK'
  BY DEF GenerationsOK, TypeOK
<1>3. EngineOK'
  <2>1. RestsOn({changed})'
    BY OfflineForgets DEF EngineOK, RestsOn, Nothing, TypeOK
  <2>2. ~up' => samples' = Nothing /\ probed' = {}
    BY OfflineForgets DEF EngineOK
  <2>3. changed' \in During'
    BY DEF During, TypeOK
  <2>4. QED
    BY <2>1, <2>2, <2>3 DEF EngineOK, RestsOn
<1>4. SharedOK'
  BY DEF SharedOK
<1>5. BacnetOK'
  BY DEF BacnetOK
<1>6. QED
  BY <1>1, <1>2, <1>3, <1>4, <1>5

\* A request ends; the network may have changed under it.
LEMMA PollStepInv == Inv /\ PollStep => Inv'
<1> SUFFICES ASSUME Inv, PollStep
             PROVE  Inv'
  OBVIOUS
<1> USE DEF Inv, PollStep, network, shared, bacnet
<1>1. During \in SUBSET Nat /\ changed \in During
  BY DEF During, TypeOK, GenerationsOK
<1>2. /\ verified' \in BOOLEAN /\ samples' \in Samples /\ probed' \in SUBSET Nat
      /\ probed' \subseteq During
      /\ \A i \in Items : samples'[i] \subseteq During
  <2> USE DEF TypeOK, EngineOK, RestsOn
  <2>1. CASE UNCHANGED engine
    BY <1>1, <2>1 DEF engine
  <2>2. CASE Offline
    BY <2>2, OfflineForgets DEF Nothing
  <2>3. CASE Probe
    BY <1>1, <2>3 DEF Probe, Contract!Confirm, Contract!Question
  <2>4. CASE \E i \in Items : ReadItem(i)
    <3>1. PICK i \in Items : ReadItem(i)
      BY <2>4
    <3>2. UNCHANGED <<verified, probed>>
      BY <3>1 DEF ReadItem, Contract!ItemRead, Contract!ItemFaulted
    <3>3. PICK rest \in {probed \cup During, {}} :
            samples' = [samples EXCEPT ![i] = rest]
      BY <3>1 DEF ReadItem
    <3>4. rest \in SUBSET Nat /\ rest \subseteq During
      BY <1>1
    <3>5. QED
      BY <1>1, <3>2, <3>3, <3>4 DEF Samples
  <2>5. QED
    BY <2>1, <2>2, <2>3, <2>4
<1>3. TypeOK'
  BY <1>2 DEF TypeOK
<1>4. GenerationsOK'
  BY DEF GenerationsOK
<1>5. EngineOK'
  BY <1>2 DEF EngineOK, RestsOn, During
<1>6. SharedOK'
  BY DEF SharedOK
<1>7. BacnetOK'
  BY DEF BacnetOK
<1>8. QED
  BY <1>3, <1>4, <1>5, <1>6, <1>7

\* What is published has been read in one generation or is nothing.
LEMMA PollPublishInv == Inv /\ PollPublish => Inv'
<1> SUFFICES ASSUME Inv, PollPublish
             PROVE  Inv'
  OBVIOUS
<1> USE DEF Inv, PollPublish, network, bacnet
<1>1. samples' \in Samples /\ verified' \in BOOLEAN /\ probed' \in SUBSET Nat
  BY OfflineForgets DEF TypeOK, engine
<1>2. RestsOn({changed})'
  <2>1. CASE Outdated
    BY <2>1, OfflineForgets DEF RestsOn, Nothing
  <2>2. CASE ~Outdated
    <3>1. During = {changed}
      BY <2>2 DEF During, Outdated, TypeOK
    <3>2. QED
      BY <2>2, <3>1 DEF EngineOK, RestsOn, engine
  <2>3. QED
    BY <2>1, <2>2
<1>3. ~up => samples' = Nothing /\ probed' = {}
  BY OfflineForgets DEF EngineOK, engine
<1>4. TypeOK'
  BY <1>1 DEF TypeOK
<1>5. GenerationsOK'
  BY DEF GenerationsOK
<1>6. EngineOK'
  BY <1>2, <1>3 DEF EngineOK, RestsOn
<1>7. SharedOK'
  BY <1>2 DEF SharedOK, RestsOn
<1>8. BacnetOK'
  BY DEF BacnetOK
<1>9. QED
  BY <1>4, <1>5, <1>6, <1>7, <1>8

-----------------------------------------------------------------------------
\* The BACnet task follows the network, or will try again.
LEMMA BacnetTopInv == ASSUME NEW opened \in BOOLEAN, Inv, BacnetTop(opened)
                      PROVE  Inv'
<1> USE DEF Inv, BacnetTop, network, shared, poll, engine
<1>1. CASE ~started /\ network_up
  <2> USE <1>1 DEF gateway_bacnet_init
  <2>1. TypeOK'
    BY DEF TypeOK
  <2>2. GenerationsOK'
    BY DEF GenerationsOK, TypeOK
  <2>3. EngineOK' /\ SharedOK'
    BY DEF EngineOK, RestsOn, During, SharedOK
  <2>4. BacnetOK'
    BY DEF BacnetOK
  <2>5. QED
    BY <2>1, <2>2, <2>3, <2>4
<1>2. CASE ~(~started /\ network_up) /\ started /\ bacnet_generation # network_generation
  <2> USE <1>2 DEF gateway_bacnet_network_update, Announce, Settle
  <2>1. TypeOK'
    BY DEF TypeOK
  <2>2. GenerationsOK'
    BY DEF GenerationsOK, TypeOK
  <2>3. EngineOK' /\ SharedOK'
    BY DEF EngineOK, RestsOn, During, SharedOK
  <2>4. BacnetOK'
    BY DEF BacnetOK
  <2>5. QED
    BY <2>1, <2>2, <2>3, <2>4
<1>3. CASE UNCHANGED <<started, bacnet_generation, link_up, socket_open,
                       local_ip, announced>>
  BY <1>3 DEF TypeOK, GenerationsOK, EngineOK, RestsOn, During, SharedOK, BacnetOK
<1>4. QED
  BY <1>1, <1>2, <1>3

\* Objects take only what was published for the present generation.
LEMMA RefreshInv == Inv /\ Refresh => Inv'
<1> SUFFICES ASSUME Inv, Refresh
             PROVE  Inv'
  OBVIOUS
<1> USE DEF Inv, Refresh, network, shared, poll, engine
<1>1. PICK good \in SUBSET Items :
        shown' = [i \in Items |-> IF Usable /\ i \in good THEN published[i] ELSE {}]
  OBVIOUS
<1>2. shown' \in Samples
  BY <1>1 DEF TypeOK, Samples
<1>3. \A i \in Items : shown'[i] \subseteq {network_generation}
  BY <1>1 DEF Usable, SharedOK
<1>4. TypeOK'
  BY <1>2 DEF TypeOK
<1>5. GenerationsOK'
  BY DEF GenerationsOK, TypeOK
<1>6. EngineOK'
  BY DEF EngineOK, RestsOn, During
<1>7. SharedOK'
  BY <1>3 DEF SharedOK
<1>8. BacnetOK'
  BY DEF BacnetOK
<1>9. QED
  BY <1>4, <1>5, <1>6, <1>7, <1>8

\* The other steps touch only what is said to others, or the time.
LEMMA ServeInv == Inv /\ (NoRefresh \/ Serve \/ Elapse) => Inv'
<1>1. Inv /\ NoRefresh => Inv'
  BY DEF NoRefresh, Inv, TypeOK, GenerationsOK, EngineOK, RestsOn, During,
         SharedOK, BacnetOK, network, shared, poll, engine
<1>2. Inv /\ Serve => Inv'
  BY DEF Serve, Inv, TypeOK, GenerationsOK, EngineOK, RestsOn, During,
         SharedOK, BacnetOK, network, poll, engine
<1>3. Inv /\ Elapse => Inv'
  BY DEF Elapse, Inv, TypeOK, GenerationsOK, EngineOK, RestsOn, During,
         SharedOK, BacnetOK, network, shared, poll, engine
<1>4. QED
  BY <1>1, <1>2, <1>3

\* Every step preserves the invariant.
LEMMA NextInv == Inv /\ [Next]_vars => Inv'
<1>1. Inv /\ UNCHANGED vars => Inv'
  BY DEF vars, network, shared, poll, engine, bacnet, Inv, TypeOK, GenerationsOK,
         EngineOK, RestsOn, During, SharedOK, BacnetOK
<1>2. QED
  BY <1>1, NetworkInv, PollTopInv, PollStepInv, PollPublishInv, BacnetTopInv,
     RefreshInv, ServeInv DEF Next, PollTask, BacnetTask

\* The inductive invariant holds in every reachable state of the two tasks
\* (app_main.c): the generations order what they have seen of the network.
THEOREM InvIsInvariant == Spec => []Inv
BY InitInv, NextInv, PTL DEF Spec

-----------------------------------------------------------------------------
\* app_main.c:174: nothing that was read across a network change is published.
THEOREM PublishedIsAlwaysOfItsGeneration == Spec => []PublishedIsOfItsGeneration
<1>1. Inv => PublishedIsOfItsGeneration
  BY DEF Inv, SharedOK, PublishedIsOfItsGeneration
<1>2. QED
  BY <1>1, InvIsInvariant, PTL

\* app_main.c:202: a good BACnet object was read on the network of its refresh.
THEOREM ShownIsAlwaysReadOnThisNetwork == Spec => []ShownWasReadOnThisNetwork
<1>1. Inv => ShownWasReadOnThisNetwork
  BY DEF Inv, SharedOK, ShownWasReadOnThisNetwork
<1>2. QED
  BY <1>1, InvIsInvariant, PTL

\* app_main.c:253: a network change that counts as done has been followed.
THEOREM AlwaysSettledOnNetwork == Spec => []SettledOnNetwork
<1>1. Inv => SettledOnNetwork
  BY DEF Inv, TypeOK, BacnetOK, SettledOnNetwork
<1>2. QED
  BY <1>1, InvIsInvariant, PTL

\* gateway_bacnet.c:596: who serves has announced where.
THEOREM AddressIsAlwaysAnnounced == Spec => []AddressIsAnnounced
<1>1. Inv => AddressIsAnnounced
  BY DEF Inv, BacnetOK, AddressIsAnnounced
<1>2. QED
  BY <1>1, InvIsInvariant, PTL
=============================================================================
