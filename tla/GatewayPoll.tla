---------------------------- MODULE GatewayPoll ----------------------------
(***************************************************************************)
(* The ATS polling engine (src/main/gateway_poll.c) with the block cache   *)
(* it fills (src/main/ats_model.c).  One task reads one group of Modbus    *)
(* registers at a time: first four identity probes, and only when they     *)
(* have passed the data blocks, the longest due first.  A call of          *)
(* gateway_poll_step is split at the network request it waits for.         *)
(*                                                                         *)
(* A controller is abstracted to the set of identity probes it passes:     *)
(* 0 its type, 1 its firmware, 2 that it has no new register map (it       *)
(* answers the probe with exception 2), 3 its MAC fingerprint, which       *)
(* passes as well when no fragment is configured.                          *)
(***************************************************************************)
EXTENDS Naturals

CONSTANTS
  NBlocks,       \* ATS_BLOCK_COUNT
  Period,        \* period_ms and stale_ms of each block
  Stale,
  Gap,           \* idle time after a request: 250 ms
  MaxElapsed,    \* the longest a request takes: 1200 ms
  RetryDelay,    \* a failed block is due again after 5000 ms
  BackoffUnit,   \* 5000 ms for each failure in a row ...
  BackoffCap,    \* ... and 30000 ms from the sixth
  BackoffSteps,
  RejectDelay,   \* no request for 30000 ms after a wrong identity
  RecheckDelay,  \* an identity is checked again after 300000 ms
  Controllers,   \* the devices that may answer
  MaxTime        \* bound of the model on the clock

Blocks == 0..(NBlocks - 1)
Stages == 0..3
Genuine == Stages    \* the commissioned controller passes every probe

ASSUME BlocksAssumption ==
  /\ NBlocks \in Nat \ {0}
  /\ Period \in [Blocks -> Nat \ {0}]
  /\ Stale \in [Blocks -> Nat]
ASSUME DelaysAssumption ==
  /\ {Gap, MaxElapsed, BackoffUnit, BackoffCap, RejectDelay} \subseteq Nat
  /\ {BackoffSteps, RetryDelay, RecheckDelay} \subseteq Nat \ {0}
  /\ Gap <= RejectDelay
ASSUME ControllersAssumption == Controllers \subseteq SUBSET Stages
ASSUME MaxTimeAssumption == MaxTime \in Nat

VARIABLES
  now,                    \* the clock
  controller,             \* the device now at the configured address
  request,                \* the request being waited for, if any
  asked_at,               \* when the last request was started
  profile_valid, profile_stage, profile_check,
  next_request, next_due, consecutive_failures,
  acquired, failed, last_good      \* ats_block_state_t of each block

profile == <<profile_valid, profile_stage, profile_check>>
blocks == <<acquired, failed, last_good>>

\* History variables: they record what happened and guide no action.
VARIABLES
  swapped,       \* the controller changed since its identity was last put in
                 \* doubt, or its type confirmed
  distrusted,    \* a wrong identity or no answer, and no full check since
  completed_at,  \* when the last request ended
  bounced,       \* the network changed since
  passed         \* for each block, those asked for since it became due

history == <<swapped, distrusted, completed_at, bounced, passed>>
vars == <<now, controller, request, asked_at, profile, next_request, next_due,
          consecutive_failures, blocks, history>>

NoRequest == [kind |-> "none"]
Probe(stage) == [kind |-> "probe", stage |-> stage]
Read(b) == [kind |-> "read", block |-> b]
Requests == {NoRequest} \cup {Probe(s) : s \in Stages} \cup {Read(b) : b \in Blocks}

Waiting == request # NoRequest

TypeOK ==
  /\ now \in Nat
  /\ controller \in Controllers
  /\ request \in Requests
  /\ profile_valid \in BOOLEAN /\ profile_stage \in Stages
  /\ {asked_at, profile_check, next_request, completed_at} \subseteq Nat
  /\ consecutive_failures \in 0..BackoffSteps
  /\ next_due \in [Blocks -> Nat]
  /\ acquired \in [Blocks -> BOOLEAN]
  /\ failed \in [Blocks -> BOOLEAN]
  /\ last_good \in [Blocks -> Nat]
  /\ swapped \in BOOLEAN /\ distrusted \in BOOLEAN /\ bounced \in BOOLEAN
  /\ passed \in [Blocks -> SUBSET Blocks]

Init ==
  /\ now = 0
  /\ controller \in Controllers
  /\ request = NoRequest /\ asked_at = 0
  /\ profile_valid = FALSE /\ profile_stage = 0 /\ profile_check = 0
  /\ next_request = 0
  /\ next_due = [b \in Blocks |-> 0]
  /\ consecutive_failures = 0
  /\ acquired = [b \in Blocks |-> FALSE]
  /\ failed = [b \in Blocks |-> FALSE]
  /\ last_good = [b \in Blocks |-> 0]
  /\ swapped = FALSE /\ distrusted = TRUE
  /\ completed_at = 0 /\ bounced = TRUE
  /\ passed = [b \in Blocks |-> {}]

-----------------------------------------------------------------------------
\* Faulty: a fault in the tick of the last good read is refused too.
MayStampLater(b) == ~(acquired[b] /\ now <= last_good[b])

\* ats_model_apply_block and ats_model_fail_block refuse a time before the
\* last good one.
MayStamp(b) == ~(acquired[b] /\ now < last_good[b])

FailBlocks(some) ==
  /\ failed' = [b \in Blocks |-> failed[b] \/ (b \in some /\ MayStamp(b))]
  /\ UNCHANGED <<acquired, last_good>>

\* Faulty: a good read clears the fault of every block.
ApplyBlockClearsAll(b) ==
  /\ acquired' = [acquired EXCEPT ![b] = TRUE]
  /\ failed' = [c \in Blocks |-> FALSE]
  /\ last_good' = [last_good EXCEPT ![b] = now]

ApplyBlock(b) ==
  IF MayStamp(b)
  THEN /\ acquired' = [acquired EXCEPT ![b] = TRUE]
       /\ failed' = [failed EXCEPT ![b] = FALSE]
       /\ last_good' = [last_good EXCEPT ![b] = now]
  ELSE UNCHANGED blocks

\* block_good: what the decoder may call good at time t.
block_good(b, t) ==
  acquired[b] /\ ~failed[b] /\ t >= last_good[b] /\ t - last_good[b] <= Stale[b]

\* Faulty: the probe that was reached is kept.
OfflineKeepsStage ==
  /\ FailBlocks(Blocks)
  /\ profile_valid' = FALSE
  /\ UNCHANGED <<profile_stage, profile_check>>

\* gateway_poll_offline
Offline ==
  /\ FailBlocks(Blocks)
  /\ profile_valid' = FALSE
  /\ profile_stage' = 0
  /\ UNCHANGED profile_check

-----------------------------------------------------------------------------
\* gateway_poll_step up to the request.

Due(b) == next_due[b] <= now

\* Faulty: the first due block of the table is taken.
EarliestIsFirst(b) == Due(b) /\ \A c \in Blocks : Due(c) => b <= c

\* The block the scan loop selects: the longest due, the first of equals.
Earliest(b) ==
  /\ Due(b)
  /\ \A c \in Blocks : Due(c) => \/ next_due[b] < next_due[c]
                                 \/ next_due[b] = next_due[c] /\ b <= c

\* Faulty: the identity is never checked again.
RecheckNever == FALSE

\* A verified identity is checked again every RecheckDelay.
RecheckDue == profile_valid /\ now >= profile_check

AskIdentity ==
  /\ ~Waiting /\ now >= next_request
  /\ ~profile_valid \/ RecheckDue
  /\ profile_valid' = FALSE
  /\ profile_stage' = IF RecheckDue THEN 0 ELSE profile_stage
  /\ request' = Probe(profile_stage') /\ asked_at' = now
  /\ swapped' = (swapped /\ ~RecheckDue)
  /\ UNCHANGED <<now, controller, profile_check, next_request, next_due,
                 consecutive_failures, blocks, distrusted, completed_at,
                 bounced, passed>>

AskBlock(b) ==
  /\ ~Waiting /\ now >= next_request
  /\ profile_valid /\ ~RecheckDue
  /\ Earliest(b)
  /\ request' = Read(b) /\ asked_at' = now
  /\ passed' = [c \in Blocks |-> IF c = b THEN {}
                                 ELSE IF Due(c) THEN passed[c] \cup {b}
                                 ELSE passed[c]]
  /\ UNCHANGED <<now, controller, profile, next_request, next_due,
                 consecutive_failures, blocks, swapped, distrusted,
                 completed_at, bounced>>

-----------------------------------------------------------------------------
\* gateway_poll_step after the request, one action per outcome.

AtLeast(a, b) == IF a >= b THEN a ELSE b

Backoff(n) == IF n < BackoffSteps THEN n * BackoffUnit ELSE BackoffCap

\* The earliest time of the next request.
Resume == now + Gap

\* Every answer ends the request.
Answered ==
  /\ Waiting
  /\ request' = NoRequest
  /\ completed_at' = now /\ bounced' = FALSE
  /\ UNCHANGED <<now, controller, asked_at, passed>>

\* History: from here on nothing that was known of the controller counts.
Doubt == distrusted' = TRUE /\ swapped' = FALSE

\* Lines 90-92.
Succeeded == consecutive_failures' = 0

\* Faulty: the wait grows with the failures, but is not applied.
FailedWithoutBackoff(earliest) ==
  /\ consecutive_failures' = IF consecutive_failures < BackoffSteps
                             THEN consecutive_failures + 1 ELSE BackoffSteps
  /\ next_request' = earliest
  /\ next_due' = IF request.kind = "read"
                 THEN [next_due EXCEPT ![request.block] = now + RetryDelay]
                 ELSE next_due

\* Lines 71-76 and 85-87, where the request may not come before earliest.  The
\* failures in a row are counted as far as the wait depends on them.
Failed(earliest) ==
  /\ consecutive_failures' = IF consecutive_failures < BackoffSteps
                             THEN consecutive_failures + 1 ELSE BackoffSteps
  /\ next_request' = AtLeast(earliest, now + Backoff(consecutive_failures'))
  /\ next_due' = IF request.kind = "read"
                 THEN [next_due EXCEPT ![request.block] = now + RetryDelay]
                 ELSE next_due

\* No answer, or one that is not a Modbus reply: everything is in doubt.
NoAnswer ==
  /\ Answered
  /\ Failed(Resume)
  /\ Offline
  /\ Doubt

\* An exception other than the one that an old map gives to probe 2.
ProbeRefused ==
  /\ Answered
  /\ request.kind = "probe"
  /\ Failed(now + RejectDelay)
  /\ Offline
  /\ Doubt

\* An exception to a data read faults that block only.
ReadRefused ==
  /\ Answered
  /\ request.kind = "read"
  /\ Failed(Resume)
  /\ FailBlocks({request.block})
  /\ UNCHANGED <<profile, swapped, distrusted>>

ProbeWrong ==
  /\ Answered
  /\ request.kind = "probe" /\ request.stage \notin controller
  /\ Succeeded
  /\ Offline
  /\ next_request' = now + RejectDelay
  /\ Doubt
  /\ UNCHANGED next_due

ProbePassed ==
  /\ Answered
  /\ request.kind = "probe" /\ request.stage \in controller
  /\ Succeeded
  /\ next_request' = Resume
  /\ IF request.stage = 3
     THEN /\ profile_valid' = TRUE
          /\ profile_check' = now + RecheckDelay
          /\ UNCHANGED profile_stage
     ELSE /\ profile_stage' = profile_stage + 1
          /\ UNCHANGED <<profile_valid, profile_check>>
  /\ swapped' = (swapped /\ request.stage # 0)
  /\ distrusted' = (distrusted /\ request.stage # 3)
  /\ UNCHANGED <<next_due, blocks>>

ReadDone ==
  /\ Answered
  /\ request.kind = "read"
  /\ Succeeded
  /\ next_request' = Resume
  /\ ApplyBlock(request.block)
  /\ next_due' = [next_due EXCEPT ![request.block] = now + Period[request.block]]
  /\ UNCHANGED <<profile, swapped, distrusted>>

-----------------------------------------------------------------------------
\* What poll_task does between two steps when the link or the address changed
\* (src/main/app_main.c): it does not wait for what was planned.
NetworkChanged ==
  /\ ~Waiting
  /\ Offline
  /\ next_request' = now
  /\ Doubt /\ bounced' = TRUE
  /\ UNCHANGED <<now, controller, request, asked_at, next_due,
                 consecutive_failures, completed_at, passed>>

\* Another device takes over the address.
Swap ==
  /\ controller' \in Controllers \ {controller}
  /\ swapped' = TRUE
  /\ UNCHANGED <<now, request, asked_at, profile, next_request, next_due,
                 consecutive_failures, blocks, distrusted, completed_at,
                 bounced, passed>>

\* Time; a request ends by its deadline.
Tick ==
  /\ now < MaxTime
  /\ Waiting => now < asked_at + MaxElapsed
  /\ now' = now + 1
  /\ UNCHANGED <<controller, request, asked_at, profile, next_request, next_due,
                 consecutive_failures, blocks, history>>

Step ==
  \/ AskIdentity \/ (\E b \in Blocks : AskBlock(b))
  \/ NoAnswer \/ ProbeRefused \/ ReadRefused
  \/ ProbeWrong \/ ProbePassed \/ ReadDone

Next == Step \/ NetworkChanged \/ Swap \/ Tick

Spec == Init /\ [][Next]_vars

-----------------------------------------------------------------------------
\* Registers that mean something else on another controller (gateway_poll.c:41)
\* are read only after this controller, and not one it has replaced, has passed
\* the probes: 1201 after the first three, data after all four.
OldRegistersOnlyOnConfirmedController ==
  ~swapped =>
    /\ request = Probe(3) => 0..2 \subseteq controller
    /\ request.kind = "read" => controller = Genuine
    /\ profile_valid => controller = Genuine

\* From a wrong identity, a lost answer or a network change until the identity
\* has been confirmed again, no block counts as good whatever its age
\* (gateway_poll.c:78-79, README "Identity is checked again after
\* communication loss").
NothingIsGoodWhileDistrusted ==
  distrusted => \A b \in Blocks : ~(acquired[b] /\ ~failed[b])

\* A value is good only for so long after the last identity check that passed,
\* however the checks and the reads are delayed.
GoodDataWasRecentlyConfirmed ==
  \A b \in Blocks :
    block_good(b, now) => now <= profile_check + MaxElapsed + Stale[b]

\* No block is passed over twice by the same other block while it is due, so a
\* due block is read after at most NBlocks - 1 others.
NoBlockIsPassedTwice ==
  [][\A b, c \in Blocks :
       ~Waiting /\ request' = Read(c) /\ b # c /\ Due(b) => c \notin passed[b]]_vars

\* The wait that the outcome of the last request asks for: the longest one after a
\* wrong identity, else the backoff of as many failures as there were in a row.
Pause ==
  IF distrusted /\ profile_stage = 0 /\ consecutive_failures = 0 THEN RejectDelay
  ELSE AtLeast(Gap, Backoff(consecutive_failures))

\* Unless the network changed in between, no request follows another before the
\* wait that its outcome asks for is over (gateway_poll.c:85-87 and 26), whatever
\* has been done since to the identity, the blocks or the count of failures.
SpacedUnlessBounced ==
  Waiting /\ ~bounced => asked_at >= completed_at + Pause

-----------------------------------------------------------------------------
\* The inductive invariant that the properties above follow from.

\* No time stamp is later than now, so that no fault or read is refused; the
\* deadline of a request and the recheck bound the age of what is good; and the
\* next request waits for the pause or the backoff.
ClockOK ==
  /\ \A b \in Blocks : last_good[b] <= now
  /\ profile_check <= now + RecheckDelay
  /\ Waiting => asked_at <= now /\ now <= asked_at + MaxElapsed
  /\ request.kind = "read" => asked_at <= profile_check
  /\ \A b \in Blocks :
       acquired[b] /\ ~failed[b] => last_good[b] <= profile_check + MaxElapsed
  /\ ~bounced => completed_at + Pause <= IF Waiting THEN asked_at ELSE next_request

\* What is asked for, and what a controller that stayed has shown of itself.
IdentityOK ==
  /\ request.kind = "read" => profile_valid
  /\ request.kind = "probe" => ~profile_valid /\ request.stage = profile_stage
  /\ profile_valid => ~distrusted
  /\ ~swapped => IF profile_valid THEN controller = Genuine
                  ELSE \A s \in Stages : s < profile_stage => s \in controller

\* A block that was preferred to another is due after it from then on.
QueueOK ==
  \A b \in Blocks :
    /\ request = Read(b) => passed[b] = {}
    /\ \A c \in passed[b] :
         next_due[b] <= now /\ (request = Read(c) \/ next_due[b] < next_due[c])

\* Types, times, identity and queue hold together in every state
\* (gateway_poll.c, between the calls of gateway_poll_step and during one).
Inv == TypeOK /\ ClockOK /\ IdentityOK /\ QueueOK /\ NothingIsGoodWhileDistrusted

-----------------------------------------------------------------------------
Contract == INSTANCE PollContract WITH
  Items    <- Blocks,
  Gated    <- TRUE,
  verified <- profile_valid,
  current  <- {b \in Blocks : acquired[b] /\ ~failed[b]}

\* Blocks become current only by a read under a confirmed identity, and all are
\* given up together when confidence in the controller is lost.
ImplementsContract == Contract!ContractSpec
=============================================================================
