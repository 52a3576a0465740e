------------------------------ MODULE Gateway ------------------------------
(***************************************************************************)
(* How the tasks of the gateway share the network state and the values     *)
(* (src/main/app_main.c): the event handler that sees the link go up and   *)
(* down, the task that polls the controller, and the task that serves      *)
(* BACnet with what was polled (src/main/gateway_bacnet.c).  They meet in  *)
(* the variables below that the lock protects; an action ends where a task *)
(* lets another see or change them.                                        *)
(*                                                                         *)
(* The polling engine is any that keeps to PollContract, as GatewayPoll    *)
(* and CustomPoll do: its calls are built from the actions of that module. *)
(* Of a value the model keeps the network generations that it rests on,    *)
(* those of its read and of the identity check before it, and none for a   *)
(* value that is not good.                                                 *)
(***************************************************************************)
EXTENDS Naturals

CONSTANTS
  Items,          \* blocks or custom points, each taken as one BACnet object
  Gated,          \* the engine checks the controller's identity
  Addresses,      \* the IPv4 settings that the link may get
  Unset,          \* 0.0.0.0
  MaxGeneration   \* bound of the model on the number of network events

ASSUME EngineAssumption == Gated \in BOOLEAN
ASSUME AddressesAssumption == Addresses # {} /\ Unset \notin Addresses
ASSUME MaxGenerationAssumption == MaxGeneration \in Nat

VARIABLES
  \* under the lock
  network_up, network_generation, network_info,
  published, published_generation, published_bacnet,
  \* poll_task
  poll_pc, up, changed,           \* what it read at the top of its loop
  previous_up, poll_generation,   \* and in the round before
  verified, samples,              \* the engine
  probed,  \* history: the generations that the identity check went through
  \* bacnet_task
  bacnet_pc, started, bacnet_generation,
  link_up, local_ip, socket_open,
  due,                            \* next_update has come
  shown,                          \* the value objects that it serves
  \* what others have been told
  announced,      \* the address of the last I-Am
  refreshed_in,   \* history: the network generation of the last refresh
  config_error    \* fixed at boot: the configuration needs repair

network == <<network_up, network_generation, network_info>>
shared == <<published, published_generation, published_bacnet>>
engine == <<verified, samples, probed>>
poll == <<poll_pc, up, changed, previous_up, poll_generation, engine>>
bacnet == <<bacnet_pc, started, bacnet_generation, link_up, local_ip,
            socket_open, due, shown, announced, refreshed_in>>
vars == <<network, shared, poll, bacnet, config_error>>

\* UINT32_MAX stands for no generation.
NoGeneration == MaxGeneration + 1

Samples == [Items -> SUBSET Nat]
Nothing == [i \in Items |-> {}]

Contract == INSTANCE PollContract WITH
  current <- {i \in Items : samples[i] # {}}

TypeOK ==
  /\ {network_up, up, previous_up, verified, started, link_up, socket_open,
      due, config_error} \subseteq BOOLEAN
  /\ {network_generation, published_generation, changed, poll_generation,
      bacnet_generation, refreshed_in} \subseteq Nat
  /\ {network_info, local_ip, announced} \subseteq Addresses \cup {Unset}
  /\ {published, samples, shown} \subseteq Samples
  /\ probed \in SUBSET Nat
  /\ published_bacnet \in [initialized : BOOLEAN, link_up : BOOLEAN]
  /\ poll_pc \in {"top", "request", "publish"}
  /\ bacnet_pc \in {"top", "refresh", "serve"}

Init ==
  /\ network_up = FALSE /\ network_generation = 0 /\ network_info = Unset
  /\ published = Nothing /\ published_generation = 0
  /\ published_bacnet = [initialized |-> FALSE, link_up |-> FALSE]
  /\ poll_pc = "top" /\ up = FALSE /\ changed = 0
  /\ previous_up = FALSE /\ poll_generation = 0
  /\ verified = ~Gated /\ samples = Nothing /\ probed = {}
  /\ bacnet_pc = "top" /\ started = FALSE /\ bacnet_generation = NoGeneration
  /\ link_up = FALSE /\ local_ip = Unset /\ socket_open = FALSE
  /\ due = TRUE /\ shown = Nothing
  /\ announced = Unset /\ refreshed_in = 0
  /\ config_error \in BOOLEAN

-----------------------------------------------------------------------------
\* network_event

Event ==
  /\ network_generation < MaxGeneration
  /\ network_generation' = network_generation + 1
  /\ UNCHANGED <<shared, poll, bacnet, config_error>>

\* IP_EVENT_ETH_GOT_IP: a new link, or a new address on the same one.
GotIp(address) == Event /\ network_up' = TRUE /\ network_info' = address

\* Link disconnected or stopped, or the address lost.
Unavailable == Event /\ network_up' = FALSE /\ UNCHANGED network_info

-----------------------------------------------------------------------------
\* poll_task

\* Faulty: the identity that was confirmed is kept.
OfflineKeepsIdentity ==
  samples' = Nothing /\ UNCHANGED <<verified, probed>>

\* gateway_poll_offline or custom_poll_offline
Offline == samples' = Nothing /\ probed' = {} /\ Contract!Distrust

\* The top of the loop, to the request if there may be one.
PollTop ==
  /\ poll_pc = "top"
  /\ up' = network_up /\ changed' = network_generation
  /\ IF \/ previous_up /\ ~up'
        \/ up' /\ changed' # poll_generation
     THEN Offline
     ELSE UNCHANGED engine
  /\ poll_pc' = IF up' /\ ~config_error THEN "request" ELSE "publish"
  /\ UNCHANGED <<network, shared, previous_up, poll_generation, bacnet,
                 config_error>>

\* The generations that a request has gone through when it ends.
During == changed..network_generation

\* A request of the identity check, which may be the first of a new one.
Probe ==
  /\ Gated /\ UNCHANGED samples
  /\ \/ ~verified /\ probed' = probed \cup During /\ UNCHANGED verified
     \/ probed' = probed \cup During /\ Contract!Confirm
     \/ probed' = During /\ Contract!Question

\* A request for an item, with its outcome.
ReadItem(i) ==
  /\ \/ /\ samples' = [samples EXCEPT ![i] = probed \cup During]
        /\ Contract!ItemRead(i)
     \/ samples' = [samples EXCEPT ![i] = {}] /\ Contract!ItemFaulted(i)
  /\ UNCHANGED probed

\* One call of gateway_poll_step or custom_poll_step has returned: it had
\* nothing to do, or its request ended, however the network changed meanwhile.
PollStep ==
  /\ poll_pc = "request"
  /\ \/ UNCHANGED engine
     \/ Offline
     \/ Probe
     \/ \E i \in Items : ReadItem(i)
  /\ poll_pc' = "publish"
  /\ UNCHANGED <<network, shared, up, changed, previous_up, poll_generation,
                 bacnet, config_error>>

\* Faulty: a network that went and came back is not noticed.
OutdatedIfDown == ~network_up

\* What was read may be of a network that is gone.
Outdated == ~network_up \/ network_generation # changed

\* The rest of the loop.
PollPublish ==
  /\ poll_pc = "publish"
  /\ IF Outdated THEN Offline ELSE UNCHANGED engine
  /\ published' = samples' /\ published_generation' = changed
  /\ previous_up' = up /\ poll_generation' = changed
  /\ poll_pc' = "top"
  /\ UNCHANGED <<network, published_bacnet, up, changed, bacnet, config_error>>

-----------------------------------------------------------------------------
\* bacnet_task

\* gateway_bacnet_init, with its outcome.  A failure leaves nothing behind that
\* the next attempt reads.
gateway_bacnet_init(opened) ==
  /\ bacnet_generation' = network_generation
  /\ started' = opened
  /\ IF opened
     THEN /\ link_up' = TRUE /\ socket_open' = TRUE
          /\ local_ip' = network_info /\ announced' = network_info
     ELSE UNCHANGED <<link_up, socket_open, local_ip, announced>>

\* announce, called when the link came up or the address is a new one.
Announce(was_up, differs) ==
  announced' = IF link_up' /\ (~was_up \/ differs) THEN local_ip' ELSE announced

\* Faulty: the rebind is done with, whether it succeeded or not.
SettleAnyway == bacnet_generation' = network_generation

\* The network was taken over if gateway_bacnet_network_update returned true;
\* otherwise it is called again in the next round.
Settle ==
  bacnet_generation' = IF link_up' = network_up THEN network_generation
                       ELSE bacnet_generation

\* Faulty: the outcome of bip_init does not count.
IgnoresBind(opened) ==
  /\ IF network_up
     THEN /\ local_ip' = network_info
          /\ link_up' = TRUE
          /\ socket_open' = IF ~link_up \/ local_ip # network_info \/ ~socket_open
                            THEN opened ELSE socket_open
     ELSE link_up' = FALSE /\ socket_open' = FALSE /\ UNCHANGED local_ip
  /\ Announce(link_up, local_ip # network_info)
  /\ Settle
  /\ UNCHANGED started

\* gateway_bacnet_network_update, with the outcome of bip_init if it is called.
gateway_bacnet_network_update(opened) ==
  /\ IF network_up
     THEN /\ local_ip' = network_info
          /\ IF ~link_up \/ local_ip # network_info \/ ~socket_open
             THEN link_up' = opened /\ socket_open' = opened
             ELSE link_up' = TRUE /\ UNCHANGED socket_open
     ELSE link_up' = FALSE /\ socket_open' = FALSE /\ UNCHANGED local_ip
  /\ Announce(link_up, local_ip # network_info)
  /\ Settle
  /\ UNCHANGED started

\* The top of the loop, to the refresh of the values.
BacnetTop(opened) ==
  /\ bacnet_pc = "top"
  /\ IF ~started /\ network_up THEN gateway_bacnet_init(opened)
     ELSE IF started /\ bacnet_generation # network_generation
     THEN gateway_bacnet_network_update(opened)
     ELSE UNCHANGED <<started, bacnet_generation, link_up, socket_open,
                      local_ip, announced>>
  /\ bacnet_pc' = IF started' THEN "refresh" ELSE "top"
  /\ UNCHANGED <<network, shared, poll, due, shown, refreshed_in, config_error>>

\* Faulty: not checked that what was published is of this network.
UsableIfUp == network_up /\ ~config_error

\* The condition under which snapshot_values leaves a value good.
Usable ==
  /\ network_up /\ published_generation = network_generation
  /\ ~config_error

\* Faulty: the last values stay while there are no usable ones.
RefreshKeepsLast ==
  /\ bacnet_pc = "refresh" /\ due
  /\ \E good \in SUBSET Items :
       shown' = IF Usable
                THEN [i \in Items |-> IF i \in good THEN published[i] ELSE {}]
                ELSE shown
  /\ refreshed_in' = network_generation
  /\ due' = FALSE
  /\ bacnet_pc' = "serve"
  /\ UNCHANGED <<network, shared, poll, started, bacnet_generation, link_up,
                 local_ip, socket_open, announced, config_error>>

\* snapshot_values and gateway_bacnet_update.  A value may have become stale, or
\* be unqualified or not representable.
Refresh ==
  /\ bacnet_pc = "refresh" /\ due
  /\ \E good \in SUBSET Items :
       shown' = [i \in Items |-> IF Usable /\ i \in good THEN published[i] ELSE {}]
  /\ refreshed_in' = network_generation
  /\ due' = FALSE
  /\ bacnet_pc' = "serve"
  /\ UNCHANGED <<network, shared, poll, started, bacnet_generation, link_up,
                 local_ip, socket_open, announced, config_error>>

NoRefresh ==
  /\ bacnet_pc = "refresh" /\ ~due
  /\ bacnet_pc' = "serve"
  /\ UNCHANGED <<network, shared, poll, started, bacnet_generation, link_up,
                 local_ip, socket_open, due, shown, announced, refreshed_in,
                 config_error>>

\* gateway_bacnet_tick and gateway_bacnet_poll answer from the objects, and may
\* repeat the I-Am; then the statistics are published.
Serve ==
  /\ bacnet_pc = "serve"
  /\ announced' \in {announced} \cup (IF link_up THEN {local_ip} ELSE {})
  /\ published_bacnet' = [initialized |-> TRUE, link_up |-> link_up]
  /\ bacnet_pc' = "top"
  /\ UNCHANGED <<network, published, published_generation, poll, started,
                 bacnet_generation, link_up, local_ip, socket_open, due, shown,
                 refreshed_in, config_error>>

\* 200 ms have passed since the last refresh.
Elapse ==
  /\ ~due /\ due' = TRUE
  /\ UNCHANGED <<network, shared, poll, bacnet_pc, started, bacnet_generation,
                 link_up, local_ip, socket_open, shown, announced, refreshed_in,
                 config_error>>

-----------------------------------------------------------------------------
Network == Unavailable \/ \E address \in Addresses : GotIp(address)
PollTask == PollTop \/ PollStep \/ PollPublish
BacnetTask ==
  \/ \E opened \in BOOLEAN : BacnetTop(opened)
  \/ Refresh \/ NoRefresh \/ Serve

Next == Network \/ PollTask \/ BacnetTask \/ Elapse

Spec == Init /\ [][Next]_vars

\* Both tasks run again after each delay and time passes.  A socket can be
\* opened if it is tried again and again.
FairSpec ==
  /\ Spec
  /\ WF_vars(PollTask) /\ WF_vars(BacnetTask) /\ WF_vars(Elapse)
  /\ SF_vars(BacnetTop(TRUE))

-----------------------------------------------------------------------------
\* The inductive invariant that the properties after it rest on.

\* Nobody has seen a network event that has not happened.
GenerationsOK ==
  /\ {changed, poll_generation, published_generation, refreshed_in}
       \subseteq 0..network_generation
  /\ started => bacnet_generation \in 0..network_generation

\* The engine holds only samples that rest on the given generations.
RestsOn(generations) ==
  probed \subseteq generations /\ \A i \in Items : samples[i] \subseteq generations

\* From one look of poll_task at the network to the next the engine holds only
\* what was read since, and nothing once the link was seen down.
EngineOK ==
  /\ poll_pc = "top" => RestsOn({poll_generation})
  /\ poll_pc = "request" => up /\ RestsOn({changed})
  /\ poll_pc = "publish" => RestsOn(During)
  /\ \/ poll_pc = "top" /\ ~previous_up
     \/ poll_pc = "publish" /\ ~up
     => samples = Nothing /\ probed = {}

SharedOK ==
  \A i \in Items : /\ published[i] \subseteq {published_generation}
                   /\ shown[i] \subseteq {refreshed_in}

BacnetOK ==
  /\ socket_open = link_up
  /\ link_up => started /\ announced = local_ip
  /\ started /\ bacnet_generation = network_generation =>
       link_up = network_up /\ (network_up => local_ip = network_info)

\* The four parts hold together in every state (app_main.c, bacnet and poll
\* tasks between their visits to the lock).
Inv == TypeOK /\ GenerationsOK /\ EngineOK /\ SharedOK /\ BacnetOK

\* What is published was read from its first to its last byte in the network
\* generation it is published with (app_main.c:174: a link that bounced during
\* the request costs the read).
PublishedIsOfItsGeneration ==
  \A i \in Items : published[i] \subseteq {published_generation}

\* A BACnet object is good only if its value was read, and the identity of the
\* controller that it came from checked, all through on the network as it was at
\* the last refresh (app_main.c:202-206): never through a link loss or an address
\* change, behind which there may be another device.
ShownWasReadOnThisNetwork ==
  \A i \in Items : shown[i] \subseteq {refreshed_in}

\* When bacnet_task takes its work on a network change for done, it serves with
\* the address of the present network on an open socket, or has closed it
\* (app_main.c:253-256, whatever became of earlier attempts to rebind).
SettledOnNetwork ==
  started /\ bacnet_generation = network_generation =>
    /\ link_up = network_up
    /\ socket_open = network_up
    /\ network_up => local_ip = network_info

\* While it serves, the last I-Am has told the others its address
\* (gateway_bacnet.c:596), also when the rebind to a new address succeeded only
\* after failures.
AddressIsAnnounced == link_up => socket_open /\ announced = local_ip

\* A link loss shows in every BACnet object, unless the link comes back.
LinkLossIsShown == ~network_up ~> network_up \/ shown = Nothing

\* When the link comes up BACnet is served and announced there and reported as
\* up, unless the link is lost again.
NetworkIsFollowed ==
  network_up ~> \/ ~network_up
                \/ /\ published_bacnet = [initialized |-> TRUE, link_up |-> TRUE]
                   /\ link_up /\ announced = network_info
=============================================================================
