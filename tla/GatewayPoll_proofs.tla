------------------------- MODULE GatewayPoll_proofs -------------------------
(***************************************************************************)
(* Proofs about GatewayPoll, for any number of blocks, any periods and     *)
(* delays that satisfy its assumptions and any controllers: the inductive  *)
(* invariant, the properties that follow from it, and that the engine      *)
(* implements PollContract.                                                *)
(***************************************************************************)
EXTENDS GatewayPoll, Integers, FiniteSetTheorems, TLAPS

\* A request is nothing, one probe or one read.
LEMMA RequestKinds ==
  /\ NoRequest.kind = "none"
  /\ \A s \in Stages : Probe(s).kind = "probe" /\ Probe(s).stage = s
  /\ \A b \in Blocks : Read(b).kind = "read" /\ Read(b).block = b
  /\ \A r \in Requests :
       /\ r.kind \in {"none", "probe", "read"}
       /\ r.kind = "none" <=> r = NoRequest
       /\ r.kind = "probe" => r.stage \in Stages /\ r = Probe(r.stage)
       /\ r.kind = "read" => r.block \in Blocks /\ r = Read(r.block)
  /\ NoRequest \in Requests
  /\ \A s \in Stages : Probe(s) \in Requests
  /\ \A b \in Blocks : Read(b) \in Requests
<1>1. NoRequest.kind = "none"
  BY DEF NoRequest
<1>2. \A s \in Stages : Probe(s).kind = "probe" /\ Probe(s).stage = s
  BY DEF Probe
<1>3. \A b \in Blocks : Read(b).kind = "read" /\ Read(b).block = b
  BY DEF Read
<1>4. ASSUME NEW r \in Requests
      PROVE  \/ r = NoRequest
             \/ \E s \in Stages : r = Probe(s)
             \/ \E b \in Blocks : r = Read(b)
  BY DEF Requests
<1>5. /\ NoRequest \in Requests
      /\ \A s \in Stages : Probe(s) \in Requests
      /\ \A b \in Blocks : Read(b) \in Requests
  BY Zenon DEF Requests
<1>6. ASSUME NEW r \in Requests
      PROVE  /\ r.kind \in {"none", "probe", "read"}
             /\ r.kind = "none" <=> r = NoRequest
             /\ r.kind = "probe" => r.stage \in Stages /\ r = Probe(r.stage)
             /\ r.kind = "read" => r.block \in Blocks /\ r = Read(r.block)
  <2>1. CASE r = NoRequest
    BY <1>1, <2>1
  <2>2. CASE \E s \in Stages : r = Probe(s)
    BY <1>1, <1>2, <2>2
  <2>3. CASE \E b \in Blocks : r = Read(b)
    BY <1>1, <1>3, <2>3
  <2>4. QED
    BY <1>4, <2>1, <2>2, <2>3
<1>7. QED
  BY <1>1, <1>2, <1>3, <1>5, <1>6, Zenon

\* The delays are numbers.
LEMMA Delays ==
  /\ Gap \in Nat /\ MaxElapsed \in Nat /\ BackoffUnit \in Nat /\ BackoffCap \in Nat
  /\ BackoffSteps \in Nat /\ BackoffSteps > 0 /\ RejectDelay \in Nat /\ Gap <= RejectDelay
  /\ RetryDelay \in Nat /\ RetryDelay > 0 /\ RecheckDelay \in Nat
  /\ \A b \in Blocks : Period[b] \in Nat /\ Period[b] > 0 /\ Stale[b] \in Nat
BY DelaysAssumption, BlocksAssumption

\* The backoff is a number, and there is none without a failure.
LEMMA Backoffs ==
  Backoff(0) = 0 /\ \A n \in 0..BackoffSteps : Backoff(n) \in Nat
<1>1. Backoff(0) = 0
  BY Delays DEF Backoff
<1>2. ASSUME NEW n \in 0..BackoffSteps
      PROVE  Backoff(n) \in Nat
  <2>1. n * BackoffUnit \in Nat
    BY Delays
  <2>2. QED
    BY <2>1, Delays DEF Backoff
<1>3. QED
  BY <1>1, <1>2

\* Nothing has been read.
LEMMA InitInv == Init => Inv
<1> SUFFICES ASSUME Init
             PROVE  Inv
  OBVIOUS
<1> USE DEF Init
<1>1. request \in Requests /\ request.kind = "none" /\ ~Waiting
  BY RequestKinds DEF Waiting
<1>2. TypeOK
  <2>1. /\ profile_valid \in BOOLEAN /\ swapped \in BOOLEAN /\ distrusted \in BOOLEAN
        /\ bounced \in BOOLEAN
    BY Zenon
  <2>2. acquired \in [Blocks -> BOOLEAN] /\ failed \in [Blocks -> BOOLEAN]
    BY Zenon
  <2>3. passed \in [Blocks -> SUBSET Blocks]
    OBVIOUS
  <2>4. QED
    BY <1>1, <2>1, <2>2, <2>3, Delays DEF TypeOK, Stages
<1>3. ClockOK
  BY <1>1, Delays DEF ClockOK
<1>4. IdentityOK
  BY <1>1 DEF IdentityOK, Stages
<1>5. QueueOK /\ NothingIsGoodWhileDistrusted
  BY <1>1, RequestKinds DEF QueueOK, NothingIsGoodWhileDistrusted
<1>6. QED
  BY <1>2, <1>3, <1>4, <1>5 DEF Inv

-----------------------------------------------------------------------------
\* No fault is refused (ats_model.c:55-66).
LEMMA FaultsCount ==
  ASSUME TypeOK, ClockOK, NEW some, FailBlocks(some)
  PROVE  /\ \A b \in Blocks : MayStamp(b)
         /\ failed' \in [Blocks -> BOOLEAN]
         /\ \A b \in Blocks : failed'[b] <=> failed[b] \/ b \in some
         /\ UNCHANGED <<acquired, last_good>>
<1>1. \A b \in Blocks : MayStamp(b)
  BY DEF MayStamp, TypeOK, ClockOK
<1>2. failed' = [b \in Blocks |-> failed[b] \/ (b \in some /\ MayStamp(b))]
  BY DEF FailBlocks
<1>3. \A b \in Blocks : failed[b] \in BOOLEAN
  BY DEF TypeOK
<1>4. \A b \in Blocks : failed'[b] <=> failed[b] \/ b \in some
  BY <1>1, <1>2, Zenon
<1>5. failed' \in [Blocks -> BOOLEAN]
  BY <1>2, Zenon
<1>6. QED
  BY <1>1, <1>4, <1>5 DEF FailBlocks

\* After gateway_poll_offline nothing is good and the probes start again.
LEMMA OfflineEffect ==
  ASSUME TypeOK, ClockOK, Offline
  PROVE  /\ failed' \in [Blocks -> BOOLEAN] /\ \A b \in Blocks : failed'[b]
         /\ UNCHANGED <<acquired, last_good, profile_check>>
         /\ ~profile_valid' /\ profile_valid' \in BOOLEAN /\ profile_stage' = 0
<1>1. FailBlocks(Blocks)
  BY DEF Offline
<1>2. QED
  BY <1>1, FaultsCount DEF Offline

\* What an answer does to the queue: the block that was read, or could not be
\* read, is due after now.
LEMMA AnsweredQueue ==
  ASSUME Inv, Answered, UNCHANGED now,
         \/ request.kind # "read" /\ UNCHANGED next_due
         \/ /\ request.kind = "read"
            /\ \E t \in Nat : t > now /\ next_due' = [next_due EXCEPT ![request.block] = t]
  PROVE  QueueOK' /\ next_due' \in [Blocks -> Nat]
<1>1. request' = NoRequest /\ passed' = passed /\ request \in Requests
  BY DEF Answered, Inv, TypeOK
<1>2. next_due \in [Blocks -> Nat] /\ passed \in [Blocks -> SUBSET Blocks] /\ now \in Nat
  BY DEF Inv, TypeOK
<1>3. \A b \in Blocks : request' # Read(b)
  BY <1>1, RequestKinds
<1>4. CASE request.kind # "read"
  <2>1. \A b \in Blocks : request # Read(b)
    BY <1>4, RequestKinds
  <2>2. UNCHANGED next_due
    BY <1>4
  <2>3. QED
    BY <1>1, <1>2, <1>3, <2>1, <2>2 DEF Inv, QueueOK
<1>5. CASE request.kind = "read"
  <2>1. request.block \in Blocks /\ request = Read(request.block)
    BY <1>1, <1>5, RequestKinds
  <2>2. \A b \in Blocks : request = Read(b) => b = request.block
    BY RequestKinds
  <2>3. PICK t \in Nat : t > now /\ next_due' = [next_due EXCEPT ![request.block] = t]
    BY <1>5
  <2>4. next_due' \in [Blocks -> Nat]
    BY <1>2, <2>1, <2>3
  <2>5. ASSUME NEW b \in Blocks, NEW c \in passed[b]
        PROVE  next_due'[b] <= now /\ next_due'[b] < next_due'[c]
    <3>1. c \in Blocks /\ b # request.block /\ next_due[b] <= now
      BY <1>2, <2>1, <2>5 DEF Inv, QueueOK
    <3>2. next_due'[b] = next_due[b]
      BY <1>2, <2>3, <3>1
    <3>3. CASE c = request.block
      <4>1. next_due'[c] = t
        BY <1>2, <2>3, <3>1, <3>3
      <4>2. QED
        BY <1>2, <2>3, <3>1, <3>2, <4>1
    <3>4. CASE c # request.block
      BY <1>2, <2>2, <2>3, <2>5, <3>1, <3>2, <3>4 DEF Inv, QueueOK
    <3>5. QED
      BY <3>3, <3>4
  <2>6. QED
    BY <1>1, <1>2, <1>3, <2>4, <2>5 DEF QueueOK
<1>6. QED
  BY <1>4, <1>5

\* The wait after a failure is no shorter than asked for.
LEMMA FailedEffect ==
  ASSUME TypeOK, NEW earliest \in Nat, Failed(earliest)
  PROVE  /\ consecutive_failures' \in 0..BackoffSteps /\ consecutive_failures' # 0
         /\ next_request' \in Nat /\ next_request' >= earliest
         /\ next_request' >= now + Backoff(consecutive_failures')
         /\ \/ request.kind # "read" /\ UNCHANGED next_due
            \/ /\ request.kind = "read"
               /\ \E t \in Nat : t > now /\ next_due' = [next_due EXCEPT ![request.block] = t]
<1>1. /\ now \in Nat /\ consecutive_failures \in 0..BackoffSteps
  BY DEF TypeOK
<1>2. consecutive_failures' \in 0..BackoffSteps /\ consecutive_failures' # 0
  BY <1>1, Delays DEF Failed
<1>3. Backoff(consecutive_failures') \in Nat
  BY <1>2, Backoffs
<1>4. next_request' = AtLeast(earliest, now + Backoff(consecutive_failures'))
  BY DEF Failed
<1>5. /\ next_request' \in Nat /\ next_request' >= earliest
      /\ next_request' >= now + Backoff(consecutive_failures')
  BY <1>1, <1>3, <1>4 DEF AtLeast
<1>6. now + RetryDelay \in Nat /\ now + RetryDelay > now
  BY <1>1, Delays
<1>7. QED
  BY <1>2, <1>5, <1>6 DEF Failed

\* A failure is followed by the gap and its backoff.
LEMMA FailedPause ==
  ASSUME TypeOK, NEW earliest \in Nat, earliest >= now + Gap, Failed(earliest)
  PROVE  now + Pause' <= next_request'
<1>1. /\ now \in Nat /\ consecutive_failures' # 0
      /\ Backoff(consecutive_failures') \in Nat
  BY FailedEffect, Backoffs DEF TypeOK
<1>2. Pause' = AtLeast(Gap, Backoff(consecutive_failures'))
  BY <1>1 DEF Pause
<1>3. QED
  BY <1>1, <1>2, FailedEffect, Delays DEF AtLeast

\* After a loss of confidence the probes start again and nothing is good.
LEMMA DoubtInv ==
  ASSUME Inv, Offline, Doubt, request' = NoRequest,
         UNCHANGED <<now, controller, asked_at>>, passed' = passed,
         consecutive_failures' \in 0..BackoffSteps, next_request' \in Nat,
         completed_at' \in Nat, bounced' \in BOOLEAN,
         ~bounced' => completed_at' + Pause' <= next_request',
         QueueOK', next_due' \in [Blocks -> Nat]
  PROVE  Inv'
<1>1. /\ request' \in Requests /\ request'.kind = "none" /\ ~Waiting'
  BY RequestKinds DEF Waiting
<1>2. TypeOK /\ ClockOK
  BY DEF Inv
<1>3. /\ failed' \in [Blocks -> BOOLEAN] /\ \A b \in Blocks : failed'[b]
      /\ UNCHANGED <<acquired, last_good, profile_check>>
      /\ ~profile_valid' /\ profile_valid' \in BOOLEAN /\ profile_stage' = 0
  BY <1>2, OfflineEffect
<1>4. distrusted' \in BOOLEAN /\ swapped' \in BOOLEAN /\ ~swapped'
  BY Zenon DEF Doubt
<1>5. TypeOK'
  BY <1>1, <1>2, <1>3, <1>4 DEF TypeOK, Stages
<1>6. ClockOK'
  BY <1>1, <1>2, <1>3 DEF ClockOK
<1>7. IdentityOK'
  BY <1>1, <1>3 DEF IdentityOK, Stages
<1>8. NothingIsGoodWhileDistrusted'
  BY <1>3 DEF NothingIsGoodWhileDistrusted
<1>9. QED
  BY <1>5, <1>6, <1>7, <1>8 DEF Inv

\* gateway_poll.c:71-88 and 22-27, and poll_task.
LEMMA LossInv == Inv /\ (NoAnswer \/ ProbeRefused \/ ProbeWrong \/ NetworkChanged) => Inv'
<1> SUFFICES ASSUME Inv, NoAnswer \/ ProbeRefused \/ ProbeWrong \/ NetworkChanged
             PROVE  Inv'
  OBVIOUS
<1>1. /\ TypeOK /\ now \in Nat /\ next_due \in [Blocks -> Nat] /\ request \in Requests
      /\ consecutive_failures \in 0..BackoffSteps /\ completed_at \in Nat
  BY DEF Inv, TypeOK
<1>2. CASE NoAnswer
  <2>1. Answered /\ Failed(Resume) /\ Offline /\ Doubt /\ Resume \in Nat
    BY <1>1, <1>2, Delays DEF NoAnswer, Resume
  <2>2. QueueOK' /\ next_due' \in [Blocks -> Nat]
    BY <1>1, <2>1, FailedEffect, AnsweredQueue DEF Answered
  <2>3. consecutive_failures' \in 0..BackoffSteps /\ next_request' \in Nat /\ next_request' >= Resume
    BY <1>1, <2>1, FailedEffect
  <2>4. completed_at' \in Nat /\ completed_at' + Pause' <= next_request'
    <3>1. Resume >= now + Gap
      BY <1>1, Delays DEF Resume
    <3>2. now + Pause' <= next_request'
      BY <1>1, <2>1, <3>1, FailedPause
    <3>3. QED
      BY <1>1, <2>1, <3>2 DEF Answered
  <2>5. bounced' \in BOOLEAN
    BY <2>1, Zenon DEF Answered
  <2>6. QED
    BY <2>1, <2>2, <2>3, <2>4, <2>5, DoubtInv DEF Answered
<1>3. CASE ProbeRefused
  <2>1. /\ Answered /\ Failed(now + RejectDelay) /\ Offline /\ Doubt
        /\ now + RejectDelay \in Nat /\ now + RejectDelay >= now + Gap
    BY <1>1, <1>3, Delays DEF ProbeRefused
  <2>2. QueueOK' /\ next_due' \in [Blocks -> Nat]
    BY <1>1, <2>1, FailedEffect, AnsweredQueue DEF Answered
  <2>3. /\ consecutive_failures' \in 0..BackoffSteps /\ next_request' \in Nat
        /\ next_request' >= now + RejectDelay
    BY <1>1, <2>1, FailedEffect
  <2>4. completed_at' \in Nat /\ completed_at' + Pause' <= next_request'
    <3>1. now + Pause' <= next_request'
      BY <1>1, <2>1, FailedPause
    <3>2. QED
      BY <1>1, <2>1, <3>1 DEF Answered
  <2>5. bounced' \in BOOLEAN
    BY <2>1, Zenon DEF Answered
  <2>6. QED
    BY <2>1, <2>2, <2>3, <2>4, <2>5, DoubtInv DEF Answered
<1>4. CASE ProbeWrong
  <2>1. /\ Answered /\ Succeeded /\ Offline /\ Doubt
        /\ next_request' = now + RejectDelay /\ request.kind = "probe" /\ next_due' = next_due
    BY <1>4 DEF ProbeWrong
  <2>2. QueueOK' /\ next_due' \in [Blocks -> Nat]
    BY <1>1, <2>1, AnsweredQueue DEF Answered
  <2>3. consecutive_failures' \in 0..BackoffSteps /\ next_request' \in Nat
    BY <1>1, <2>1, Delays DEF Succeeded
  <2>4. completed_at' \in Nat /\ completed_at' + Pause' <= next_request'
    <3>1. Pause' = RejectDelay
      BY <2>1, Zenon DEF Succeeded, Offline, Doubt, Pause
    <3>2. QED
      BY <1>1, <2>1, <3>1, Delays DEF Answered
  <2>5. bounced' \in BOOLEAN
    BY <2>1, Zenon DEF Answered
  <2>6. QED
    BY <2>1, <2>2, <2>3, <2>4, <2>5, DoubtInv DEF Answered
<1>5. CASE NetworkChanged
  <2>1. /\ Offline /\ Doubt /\ bounced' /\ bounced' \in BOOLEAN
        /\ request = NoRequest /\ next_request' \in Nat
        /\ UNCHANGED <<now, controller, request, asked_at, next_due, consecutive_failures,
                       completed_at, passed>>
    BY <1>1, <1>5 DEF NetworkChanged, Waiting
  <2>2. QueueOK'
    BY <2>1 DEF Inv, QueueOK
  <2>3. QED
    BY <1>1, <2>1, <2>2, DoubtInv
<1>6. QED
  BY <1>2, <1>3, <1>4, <1>5

-----------------------------------------------------------------------------
\* The wait that is owed is a number.
LEMMA PauseIsNumber == TypeOK => Pause \in Nat
BY Backoffs, Delays DEF Pause, AtLeast, TypeOK

\* After a good answer under an identity that is not in doubt, or another probe
\* passed, there is only the gap.
LEMMA SucceededPause ==
  ASSUME Succeeded, ~distrusted' \/ profile_stage' # 0
  PROVE  Pause' = Gap
<1>1. Pause' = AtLeast(Gap, 0)
  BY Backoffs DEF Succeeded, Pause
<1>2. QED
  BY <1>1, Delays DEF AtLeast

\* A question is asked only about the stage reached (gateway_poll.c:32-66).
LEMMA AskIdentityInv == Inv /\ AskIdentity => Inv'
<1> SUFFICES ASSUME Inv, AskIdentity
             PROVE  Inv'
  OBVIOUS
<1> USE DEF AskIdentity, profile, blocks
<1>1. /\ TypeOK /\ ClockOK /\ IdentityOK /\ now \in Nat /\ profile_stage \in Stages
      /\ request = NoRequest /\ request.kind = "none"
  BY RequestKinds DEF Inv, TypeOK, Waiting
<1>2. /\ profile_stage' \in Stages /\ request' = Probe(profile_stage')
      /\ request' \in Requests /\ request'.kind = "probe" /\ request'.stage = profile_stage'
      /\ Waiting'
  BY <1>1, RequestKinds DEF Stages, Waiting
<1>3. TypeOK'
  <2>1. profile_valid' \in BOOLEAN /\ swapped' \in BOOLEAN
    BY Zenon
  <2>2. QED
    BY <1>1, <1>2, <2>1 DEF TypeOK
<1>4. ClockOK'
  <2>1. UNCHANGED Pause
    BY <1>1 DEF IdentityOK, RecheckDue, Pause
  <2>2. Pause \in Nat
    BY <1>1, PauseIsNumber
  <2>3. QED
    BY <1>1, <1>2, <2>1, <2>2, Delays DEF TypeOK, ClockOK, Waiting
<1>5. IdentityOK'
  <2>1. CASE RecheckDue
    <3>1. profile_stage' = 0 /\ profile_valid' = FALSE
      BY <2>1
    <3>2. QED
      BY <1>2, <3>1 DEF IdentityOK, Stages
  <2>2. CASE ~RecheckDue
    <3>1. /\ profile_stage' = profile_stage /\ profile_valid' = FALSE /\ ~profile_valid
          /\ controller' = controller
      BY <2>2
    <3>2. ~swapped' => ~swapped
      BY <2>2, Zenon
    <3>3. QED
      BY <1>1, <1>2, <3>1, <3>2 DEF IdentityOK
  <2>3. QED
    BY <2>1, <2>2
<1>6. QueueOK' /\ NothingIsGoodWhileDistrusted'
  <2>1. \A b \in Blocks : request' # Read(b) /\ request # Read(b)
    BY <1>1, <1>2, RequestKinds
  <2>2. passed \in [Blocks -> SUBSET Blocks]
    BY <1>1 DEF TypeOK
  <2>3. QueueOK'
    BY <2>1, <2>2 DEF Inv, QueueOK
  <2>4. QED
    BY <2>3 DEF Inv, NothingIsGoodWhileDistrusted
<1>7. QED
  BY <1>3, <1>4, <1>5, <1>6 DEF Inv

\* The block that is asked for passes those that are due (gateway_poll.c:49-66).
LEMMA AskBlockInv ==
  ASSUME NEW r \in Blocks, Inv, AskBlock(r)
  PROVE  Inv'
<1> USE DEF AskBlock, profile, blocks
<1>1. /\ TypeOK /\ ClockOK /\ IdentityOK /\ now \in Nat
      /\ request = NoRequest /\ request.kind = "none" /\ profile_check \in Nat
      /\ passed \in [Blocks -> SUBSET Blocks] /\ next_due \in [Blocks -> Nat]
  BY RequestKinds DEF Inv, TypeOK, Waiting
<1>2. /\ request' = Read(r) /\ request' \in Requests /\ request'.kind = "read"
      /\ Waiting'
  BY RequestKinds DEF Waiting
<1>3. passed' = [c \in Blocks |-> IF c = r THEN {} ELSE IF Due(c) THEN passed[c] \cup {r}
                                                   ELSE passed[c]]
  OBVIOUS
<1>4. TypeOK'
  BY <1>1, <1>2, <1>3 DEF TypeOK
<1>5. ClockOK'
  <2>1. UNCHANGED Pause
    BY DEF Pause
  <2>2. Pause \in Nat
    BY <1>1, PauseIsNumber
  <2>3. QED
    BY <1>1, <1>2, <2>1, <2>2, Delays DEF TypeOK, ClockOK, Waiting, RecheckDue
<1>6. IdentityOK'
  BY <1>1, <1>2 DEF IdentityOK
<1>7. QueueOK'
  <2>1. \A b \in Blocks : request # Read(b) /\ (request' = Read(b) => b = r)
    BY <1>1, <1>2, RequestKinds
  <2>2. ASSUME NEW b \in Blocks, NEW c \in passed'[b]
        PROVE  next_due'[b] <= now' /\ (request' = Read(c) \/ next_due'[b] < next_due'[c])
    <3>1. CASE c = r
      <4>1. b # r /\ (Due(b) \/ c \in passed[b])
        BY <1>3, <2>2
      <4>2. QED
        BY <1>2, <2>1, <3>1, <4>1 DEF Inv, QueueOK, Due
    <3>2. CASE c # r
      <4>1. c \in passed[b]
        BY <1>3, <2>2, <3>2
      <4>2. c \in Blocks
        BY <1>1, <4>1
      <4>3. QED
        BY <2>1, <4>1, <4>2 DEF Inv, QueueOK
    <3>3. QED
      BY <3>1, <3>2
  <2>3. \A b \in Blocks : request' = Read(b) => passed'[b] = {}
    BY <1>3, <2>1
  <2>4. QED
    BY <2>2, <2>3 DEF QueueOK
<1>8. NothingIsGoodWhileDistrusted'
  BY DEF Inv, NothingIsGoodWhileDistrusted
<1>9. QED
  BY <1>4, <1>5, <1>6, <1>7, <1>8 DEF Inv

-----------------------------------------------------------------------------
\* An answer to a data read disturbs neither identity nor doubt.
LEMMA ReadKind ==
  ASSUME Inv, request.kind = "read"
  PROVE  /\ profile_valid /\ ~distrusted /\ request.block \in Blocks
         /\ asked_at <= profile_check /\ Waiting /\ now <= profile_check + MaxElapsed
<1>1. /\ request \in Requests /\ now \in Nat /\ asked_at \in Nat /\ profile_check \in Nat
  BY DEF Inv, TypeOK
<1>2. request # NoRequest /\ request.block \in Blocks
  BY <1>1, RequestKinds
<1>3. QED
  BY <1>1, <1>2, Delays DEF Inv, ClockOK, IdentityOK, Waiting

\* The exception faults the block that was asked for.
LEMMA ReadRefusedInv == Inv /\ ReadRefused => Inv'
<1> SUFFICES ASSUME Inv, ReadRefused
             PROVE  Inv'
  OBVIOUS
<1>1. /\ Answered /\ request.kind = "read" /\ Failed(Resume) /\ FailBlocks({request.block})
      /\ UNCHANGED <<profile_valid, profile_stage, profile_check, swapped, distrusted>>
      /\ UNCHANGED <<now, controller, asked_at, passed>>
      /\ request' = NoRequest /\ completed_at' = now /\ bounced' = FALSE
  BY DEF ReadRefused, Answered, profile
<1>2. TypeOK /\ ClockOK /\ IdentityOK /\ now \in Nat /\ Resume \in Nat
  BY Delays DEF Inv, TypeOK, Resume
<1>3. /\ consecutive_failures' \in 0..BackoffSteps /\ next_request' \in Nat
      /\ next_request' >= now + Gap
  BY <1>1, <1>2, FailedEffect DEF Resume
<1>4. QueueOK' /\ next_due' \in [Blocks -> Nat]
  BY <1>1, <1>2, FailedEffect, AnsweredQueue
<1>5. /\ failed' \in [Blocks -> BOOLEAN] /\ UNCHANGED <<acquired, last_good>>
      /\ \A b \in Blocks : failed[b] => failed'[b]
  BY <1>1, <1>2, FaultsCount
<1>6. request' \in Requests /\ request'.kind = "none" /\ ~Waiting'
  BY <1>1, RequestKinds DEF Waiting
<1>7. bounced' \in BOOLEAN
  BY <1>1, Zenon
<1>8. TypeOK'
  BY <1>1, <1>2, <1>3, <1>4, <1>5, <1>6, <1>7 DEF TypeOK
<1>9. ClockOK'
  <2>1. now + Pause' <= next_request'
    BY <1>1, <1>2, FailedPause, Delays DEF Resume
  <2>2. QED
    BY <1>1, <1>2, <1>5, <1>6, <2>1 DEF ClockOK
<1>10. IdentityOK' /\ NothingIsGoodWhileDistrusted'
  BY <1>1, <1>2, <1>6, ReadKind DEF IdentityOK, NothingIsGoodWhileDistrusted
<1>11. QED
  BY <1>4, <1>8, <1>9, <1>10 DEF Inv

\* A good read is stamped now.
LEMMA ReadDoneInv == Inv /\ ReadDone => Inv'
<1> SUFFICES ASSUME Inv, ReadDone
             PROVE  Inv'
  OBVIOUS
<1>1. /\ Answered /\ request.kind = "read" /\ Succeeded /\ ApplyBlock(request.block)
      /\ next_request' = now + Gap
      /\ next_due' = [next_due EXCEPT ![request.block] = now + Period[request.block]]
      /\ UNCHANGED <<profile_valid, profile_stage, profile_check, swapped, distrusted>>
      /\ UNCHANGED <<now, controller, asked_at, passed>>
      /\ request' = NoRequest /\ completed_at' = now /\ bounced' = FALSE
  BY DEF ReadDone, Answered, Resume, profile
<1>2. /\ TypeOK /\ ClockOK /\ IdentityOK /\ now \in Nat /\ request.block \in Blocks
      /\ now <= profile_check + MaxElapsed /\ ~distrusted /\ profile_valid
  BY <1>1, ReadKind DEF Inv, TypeOK
<1>3. now + Period[request.block] \in Nat /\ now + Period[request.block] > now
  BY <1>2, Delays
<1>4. QueueOK' /\ next_due' \in [Blocks -> Nat]
  BY <1>1, <1>3, AnsweredQueue
<1>5. \/ /\ acquired' = [acquired EXCEPT ![request.block] = TRUE]
         /\ failed' = [failed EXCEPT ![request.block] = FALSE]
         /\ last_good' = [last_good EXCEPT ![request.block] = now]
      \/ UNCHANGED <<acquired, failed, last_good>>
  BY <1>1 DEF ApplyBlock, blocks
<1>6. /\ acquired' \in [Blocks -> BOOLEAN] /\ failed' \in [Blocks -> BOOLEAN]
  <2>1. acquired \in [Blocks -> BOOLEAN] /\ failed \in [Blocks -> BOOLEAN]
    BY <1>2 DEF TypeOK
  <2>2. QED
    BY <1>5, <2>1
<1>7. /\ last_good' \in [Blocks -> Nat]
      /\ \A b \in Blocks : /\ last_good'[b] <= now
                           /\ acquired'[b] /\ ~failed'[b] =>
                                last_good'[b] <= profile_check + MaxElapsed
  BY <1>2, <1>5 DEF TypeOK, ClockOK
<1>8. request' \in Requests /\ request'.kind = "none" /\ ~Waiting'
  BY <1>1, RequestKinds DEF Waiting
<1>9. bounced' \in BOOLEAN
  BY <1>1, Zenon
<1>10. TypeOK'
  BY <1>1, <1>2, <1>4, <1>6, <1>7, <1>8, <1>9, Delays DEF TypeOK, Succeeded
<1>11. ClockOK'
  <2>1. Pause' = Gap
    BY <1>1, <1>2, SucceededPause
  <2>2. QED
    BY <1>1, <1>2, <1>7, <1>8, <2>1, Delays DEF ClockOK
<1>12. IdentityOK' /\ NothingIsGoodWhileDistrusted'
  BY <1>1, <1>2, <1>8 DEF IdentityOK, NothingIsGoodWhileDistrusted
<1>13. QED
  BY <1>4, <1>10, <1>11, <1>12 DEF Inv

\* The controller has shown one probe more (gateway_poll.c:93-110).
LEMMA ProbePassedInv == Inv /\ ProbePassed => Inv'
<1> SUFFICES ASSUME Inv, ProbePassed
             PROVE  Inv'
  OBVIOUS
<1>1. /\ Answered /\ request.kind = "probe" /\ request.stage \in controller /\ Succeeded
      /\ next_request' = now + Gap
      /\ UNCHANGED <<next_due, acquired, failed, last_good>>
      /\ UNCHANGED <<now, controller, asked_at, passed>>
      /\ request' = NoRequest /\ completed_at' = now /\ bounced' = FALSE
      /\ swapped' = (swapped /\ request.stage # 0)
      /\ distrusted' = (distrusted /\ request.stage # 3)
  BY DEF ProbePassed, Answered, Resume, blocks
<1>2. /\ TypeOK /\ ClockOK /\ IdentityOK /\ now \in Nat /\ request \in Requests
      /\ request.stage = profile_stage /\ ~profile_valid /\ profile_stage \in Stages
  BY <1>1 DEF Inv, TypeOK, IdentityOK
<1>3. \/ /\ profile_stage = 3 /\ profile_valid' = TRUE /\ profile_stage' = profile_stage
         /\ profile_check' = now + RecheckDelay
      \/ /\ profile_stage # 3 /\ profile_valid' = profile_valid
         /\ profile_stage' = profile_stage + 1 /\ profile_check' = profile_check
  BY <1>2 DEF ProbePassed
<1>4. QueueOK' /\ next_due' \in [Blocks -> Nat]
  BY <1>1, AnsweredQueue
<1>5. request' \in Requests /\ request'.kind = "none" /\ ~Waiting'
  BY <1>1, RequestKinds DEF Waiting
<1>6. /\ bounced' \in BOOLEAN /\ swapped' \in BOOLEAN /\ distrusted' \in BOOLEAN
      /\ profile_valid' \in BOOLEAN
  <2>1. profile_valid \in BOOLEAN
    BY <1>2 DEF TypeOK
  <2>2. QED
    BY <1>1, <1>3, <2>1, Zenon
<1>7. profile_stage' \in Stages /\ profile_check' \in Nat /\ profile_check' >= profile_check
  BY <1>2, <1>3, Delays DEF Stages, TypeOK, ClockOK
<1>8. TypeOK'
  BY <1>1, <1>2, <1>4, <1>5, <1>6, <1>7, Delays DEF TypeOK, Succeeded
<1>9. ClockOK'
  <2>1. ~distrusted' \/ profile_stage' # 0
    BY <1>1, <1>2, <1>3 DEF Stages
  <2>2. Pause' = Gap
    BY <1>1, <2>1, SucceededPause
  <2>3. QED
    BY <1>1, <1>2, <1>3, <1>5, <1>7, <2>2, Delays DEF TypeOK, ClockOK
<1>10. IdentityOK'
  <2>1. profile_valid' => ~distrusted'
    BY <1>1, <1>2, <1>3 DEF IdentityOK
  <2>2. ASSUME ~swapped'
        PROVE  IF profile_valid' THEN controller' = Genuine
               ELSE \A s \in Stages : s < profile_stage' => s \in controller'
    <3>1. \A s \in Stages : s <= profile_stage => s \in controller
      <4>1. ~swapped \/ request.stage = 0
        BY <1>1, <2>2, Zenon
      <4>2. \A s \in Stages : s < profile_stage => s \in controller
        BY <1>2, <4>1 DEF IdentityOK, Stages
      <4>3. profile_stage \in controller
        BY <1>1, <1>2
      <4>4. QED
        BY <1>2, <4>2, <4>3 DEF Stages
    <3>2. controller \subseteq Stages
      BY <1>2, ControllersAssumption DEF TypeOK
    <3>3. CASE profile_stage = 3
      <4>1. profile_valid' = TRUE
        BY <1>3, <3>3
      <4>2. controller' = Genuine
        <5>1. \A s \in Stages : s \in controller
          BY <3>1, <3>3 DEF Stages
        <5>2. QED
          BY <1>1, <3>2, <5>1 DEF Genuine
      <4>3. QED
        BY <4>1, <4>2
    <3>4. CASE profile_stage # 3
      BY <1>1, <1>2, <1>3, <3>1, <3>4 DEF Stages
    <3>5. QED
      BY <3>3, <3>4
  <2>3. QED
    BY <1>5, <2>1, <2>2 DEF IdentityOK
<1>11. NothingIsGoodWhileDistrusted'
  BY <1>1 DEF Inv, NothingIsGoodWhileDistrusted
<1>12. QED
  BY <1>4, <1>8, <1>9, <1>10, <1>11 DEF Inv

-----------------------------------------------------------------------------
\* Another controller, or time, while a request may be under way.
LEMMA EnvironmentInv == Inv /\ (Swap \/ Tick) => Inv'
<1> SUFFICES ASSUME Inv, Swap \/ Tick
             PROVE  Inv'
  OBVIOUS
<1> USE DEF profile, blocks, history
<1>1. CASE Swap
  <2>1. swapped' \in BOOLEAN /\ swapped'
    BY <1>1, Zenon DEF Swap
  <2>2. controller' \in Controllers
    BY <1>1 DEF Swap
  <2>3. TypeOK'
    BY <1>1, <2>1, <2>2 DEF Swap, Inv, TypeOK
  <2>4. ClockOK' /\ QueueOK' /\ NothingIsGoodWhileDistrusted'
    BY <1>1 DEF Swap, Inv, ClockOK, Pause, QueueOK, NothingIsGoodWhileDistrusted, Waiting
  <2>5. IdentityOK'
    BY <1>1, <2>1 DEF Swap, Inv, IdentityOK
  <2>6. QED
    BY <2>3, <2>4, <2>5 DEF Inv
<1>2. CASE Tick
  <2>1. /\ now \in Nat /\ now' = now + 1 /\ asked_at \in Nat
        /\ next_due \in [Blocks -> Nat] /\ last_good \in [Blocks -> Nat]
        /\ passed \in [Blocks -> SUBSET Blocks] /\ profile_check \in Nat
    BY <1>2 DEF Tick, Inv, TypeOK
  <2>2. TypeOK'
    BY <1>2, <2>1 DEF Tick, Inv, TypeOK
  <2>3. ClockOK'
    <3>1. UNCHANGED Pause
      BY <1>2 DEF Tick, Pause
    <3>2. QED
      BY <1>2, <2>1, <3>1, Delays DEF Tick, Inv, ClockOK, Waiting
  <2>4. QueueOK'
    BY <1>2, <2>1 DEF Tick, Inv, QueueOK
  <2>5. IdentityOK' /\ NothingIsGoodWhileDistrusted'
    BY <1>2 DEF Tick, Inv, IdentityOK, NothingIsGoodWhileDistrusted
  <2>6. QED
    BY <2>2, <2>3, <2>4, <2>5 DEF Inv
<1>3. QED
  BY <1>1, <1>2

\* Every step of the engine and of what is around it keeps the invariant.
LEMMA NextInv == Inv /\ [Next]_vars => Inv'
<1> SUFFICES ASSUME Inv, [Next]_vars
             PROVE  Inv'
  OBVIOUS
<1>1. CASE Next
  BY <1>1, AskIdentityInv, AskBlockInv, LossInv, ReadRefusedInv, ReadDoneInv,
     ProbePassedInv, EnvironmentInv
  DEF Next, Step
<1>2. CASE UNCHANGED vars
  BY <1>2 DEF vars, profile, blocks, history, Inv, TypeOK, ClockOK, IdentityOK, QueueOK,
              NothingIsGoodWhileDistrusted, Waiting, Pause
<1>3. QED
  BY <1>1, <1>2

\* Types, times, identity and queue hold together in every state.
THEOREM InvIsInvariant == Spec => []Inv
BY InitInv, NextInv, PTL DEF Spec

-----------------------------------------------------------------------------
\* Identity registers and data are read only from a controller that has shown
\* itself to be the commissioned one (gateway_poll.c:40-60).
THEOREM OldRegistersAlwaysOnConfirmedController ==
  Spec => []OldRegistersOnlyOnConfirmedController
<1>1. Inv => OldRegistersOnlyOnConfirmedController
  <2> SUFFICES ASSUME Inv, ~swapped
               PROVE  /\ request = Probe(3) => 0..2 \subseteq controller
                      /\ request.kind = "read" => controller = Genuine
                      /\ profile_valid => controller = Genuine
    BY DEF OldRegistersOnlyOnConfirmedController
  <2>1. IF profile_valid THEN controller = Genuine
        ELSE \A s \in Stages : s < profile_stage => s \in controller
    BY DEF Inv, IdentityOK
  <2>2. ASSUME request = Probe(3)
        PROVE  0..2 \subseteq controller
    <3>1. ~profile_valid /\ profile_stage = 3
      BY <2>2, RequestKinds DEF Inv, IdentityOK, Stages
    <3>2. QED
      BY <2>1, <3>1 DEF Stages
  <2>3. request.kind = "read" => profile_valid
    BY DEF Inv, IdentityOK
  <2>4. QED
    BY <2>1, <2>2, <2>3
<1>2. QED
  BY <1>1, InvIsInvariant, PTL

\* Doubt faults every block until the identity is confirmed (gateway_poll.c:11).
THEOREM NothingIsEverGoodWhileDistrusted == Spec => []NothingIsGoodWhileDistrusted
<1>1. Inv => NothingIsGoodWhileDistrusted
  BY DEF Inv
<1>2. QED
  BY <1>1, InvIsInvariant, PTL

\* Good data is of a controller confirmed not long ago (gateway_poll.c:32-36).
THEOREM GoodDataWasAlwaysRecentlyConfirmed == Spec => []GoodDataWasRecentlyConfirmed
<1>1. Inv => GoodDataWasRecentlyConfirmed
  BY Delays DEF Inv, TypeOK, ClockOK, GoodDataWasRecentlyConfirmed, block_good
<1>2. QED
  BY <1>1, InvIsInvariant, PTL

\* Requests keep their distance while the network stays (gateway_poll.c:67-88).
THEOREM AlwaysSpacedUnlessBounced == Spec => []SpacedUnlessBounced
<1>1. Inv => SpacedUnlessBounced
  <2> SUFFICES ASSUME Inv, Waiting, ~bounced
               PROVE  asked_at >= completed_at + Pause
    BY DEF SpacedUnlessBounced
  <2>1. Pause \in Nat
    BY PauseIsNumber DEF Inv
  <2>2. QED
    BY <2>1 DEF Inv, TypeOK, ClockOK
<1>2. QED
  BY <1>1, InvIsInvariant, PTL

\* No due block is passed twice by the same other (gateway_poll.c:49-57).
THEOREM NoBlockIsEverPassedTwice == Spec => NoBlockIsPassedTwice
<1> DEFINE Pass == \A b, c \in Blocks :
                     ~Waiting /\ request' = Read(c) /\ b # c /\ Due(b) => c \notin passed[b]
<1>1. Inv /\ [Next]_vars => [Pass]_vars
  <2> SUFFICES ASSUME Inv, Next, NEW b \in Blocks, NEW c \in Blocks,
                      ~Waiting, request' = Read(c), b # c, Due(b)
               PROVE  c \notin passed[b]
    OBVIOUS
  <2>1. /\ request = NoRequest /\ request.kind = "none" /\ request' # NoRequest
        /\ \A r \in Blocks : request # Read(r) /\ (request' = Read(r) => r = c)
        /\ request'.kind = "read"
    BY RequestKinds DEF Waiting
  <2>2. AskBlock(c)
    <3>1. \A s \in Stages : request' # Probe(s)
      BY <2>1, RequestKinds
    <3>2. ~AskIdentity
      <4>1. AskIdentity => profile_stage' \in Stages /\ request' = Probe(profile_stage')
        BY DEF AskIdentity, Inv, TypeOK, Stages
      <4>2. QED
        BY <3>1, <4>1
    <3>3. request' # request
      BY <2>1
    <3>4. QED
      BY <2>1, <3>2, <3>3
      DEF Next, Step, AskBlock, NoAnswer, ProbeRefused, ReadRefused, ProbeWrong, ProbePassed,
          ReadDone, Answered, Waiting, NetworkChanged, Swap, Tick
  <2>3. ASSUME c \in passed[b]
        PROVE  FALSE
    <3>1. next_due[b] < next_due[c] /\ next_due \in [Blocks -> Nat]
      BY <2>1, <2>3 DEF Inv, TypeOK, QueueOK
    <3>2. next_due[c] <= next_due[b]
      BY <2>2, <3>1 DEF AskBlock, Earliest
    <3>3. QED
      BY <3>1, <3>2
  <2>4. QED
    BY <2>3
<1>2. QED
  BY <1>1, InvIsInvariant, PTL DEF Spec, NoBlockIsPassedTwice

\* So a due block waits for at most one read of each other block: while it is due
\* those that were preferred to it are others, and no more than there are
\* (gateway_poll.c:49-57).
THEOREM DueBlockWaitsForOthersOnce ==
  Spec => [](\A b \in Blocks : /\ passed[b] \subseteq Blocks \ {b}
                              /\ Cardinality(passed[b]) <= NBlocks - 1)
<1>1. Inv => \A b \in Blocks : /\ passed[b] \subseteq Blocks \ {b}
                              /\ Cardinality(passed[b]) <= NBlocks - 1
  <2> SUFFICES ASSUME Inv, NEW b \in Blocks
               PROVE  /\ passed[b] \subseteq Blocks \ {b}
                      /\ Cardinality(passed[b]) <= NBlocks - 1
    OBVIOUS
  <2>1. passed[b] \subseteq Blocks /\ next_due[b] \in Nat
    BY DEF Inv, TypeOK
  <2>2. b \notin passed[b]
    <3>1. /\ request = Read(b) => passed[b] = {}
          /\ b \in passed[b] => request = Read(b) \/ next_due[b] < next_due[b]
      BY DEF Inv, QueueOK
    <3> QED BY <2>1, <3>1
  <2>3. IsFiniteSet(Blocks) /\ Cardinality(Blocks) = NBlocks /\ NBlocks \in Nat \ {0}
    BY BlocksAssumption, FS_Interval DEF Blocks
  <2>4. IsFiniteSet(Blocks \ {b}) /\ Cardinality(Blocks \ {b}) = NBlocks - 1
    BY <2>3, FS_RemoveElement
  <2> QED BY <2>1, <2>2, <2>4, FS_Subset
<1> QED BY <1>1, InvIsInvariant, PTL

-----------------------------------------------------------------------------
\* The blocks whose latest read succeeded.
Current == {b \in Blocks : acquired[b] /\ ~failed[b]}

\* Each outcome of a request is a step of the contract (gateway_poll.h:37-41).
LEMMA StepIsContractStep ==
  ASSUME Inv, Next
  PROVE  [Contract!ContractStep]_<<profile_valid, Current>>
<1> USE DEF profile, blocks, history
<1>1. TypeOK /\ ClockOK
  BY DEF Inv
<1>2. CASE Offline
  <2>1. Current' = {}
    BY <1>1, <1>2, OfflineEffect DEF Current
  <2>2. profile_valid' = FALSE
    BY <1>2 DEF Offline
  <2>3. Contract!Distrust
    BY <2>1, <2>2 DEF Contract!Distrust, Current
  <2>4. QED
    BY <2>3 DEF Contract!ContractStep
<1>3. CASE AskIdentity
  <2>1. profile_valid' = FALSE /\ Current' = Current
    BY <1>3 DEF AskIdentity, Current
  <2>2. Contract!Question
    BY <2>1 DEF Contract!Question, Current
  <2>3. QED
    BY <2>2 DEF Contract!ContractStep
<1>4. CASE ReadRefused
  <2>1. /\ profile_valid /\ profile_valid' = profile_valid /\ request.block \in Blocks
    BY <1>4, ReadKind DEF ReadRefused
  <2>2. FailBlocks({request.block})
    BY <1>4 DEF ReadRefused
  <2>3. /\ \A b \in Blocks : failed'[b] <=> failed[b] \/ b \in {request.block}
        /\ UNCHANGED acquired
    BY <1>1, <2>2, FaultsCount
  <2>4. Current' = Current \ {request.block}
    BY <2>3 DEF Current
  <2>5. PICK i \in Blocks : i = request.block
    BY <2>1
  <2>6. Contract!ItemFaulted(i)
    BY <2>1, <2>4, <2>5 DEF Contract!ItemFaulted, Current
  <2>7. QED
    BY <2>6 DEF Contract!ContractStep
<1>5. CASE ReadDone
  <2>1. /\ profile_valid /\ profile_valid' = profile_valid /\ request.block \in Blocks
    BY <1>5, ReadKind DEF ReadDone
  <2>2. MayStamp(request.block)
    BY <1>1, <2>1 DEF MayStamp, TypeOK, ClockOK
  <2>3. /\ acquired' = [acquired EXCEPT ![request.block] = TRUE]
        /\ failed' = [failed EXCEPT ![request.block] = FALSE]
    BY <1>5, <2>2 DEF ReadDone, ApplyBlock
  <2>4. acquired \in [Blocks -> BOOLEAN] /\ failed \in [Blocks -> BOOLEAN]
    BY <1>1 DEF TypeOK
  <2>5. Current' = Current \cup {request.block}
    BY <2>1, <2>3, <2>4 DEF Current
  <2>6. PICK i \in Blocks : i = request.block
    BY <2>1
  <2>7. Contract!ItemRead(i)
    BY <2>1, <2>5, <2>6 DEF Contract!ItemRead, Current
  <2>8. QED
    BY <2>7 DEF Contract!ContractStep
<1>6. CASE ProbePassed
  <2>1. Current' = Current /\ (profile_valid' = TRUE \/ profile_valid' = profile_valid)
    BY <1>6 DEF ProbePassed, Current
  <2>2. CASE profile_valid' = TRUE
    <3>1. Contract!Confirm
      BY <2>1, <2>2 DEF Contract!Confirm, Current
    <3>2. QED
      BY <3>1 DEF Contract!ContractStep
  <2>3. QED
    BY <2>1, <2>2
<1>7. CASE Swap \/ Tick \/ \E b \in Blocks : AskBlock(b)
  BY <1>7 DEF Swap, Tick, AskBlock, Current
<1>8. QED
  BY <1>2, <1>3, <1>4, <1>5, <1>6, <1>7
  DEF Next, Step, NoAnswer, ProbeRefused, ProbeWrong, NetworkChanged

\* The ATS engine is one that the rest of the gateway may use as PollContract
\* says: no block is read before the identity, and all are given up with it.
THEOREM EngineImplementsContract == Spec => ImplementsContract
<1>1. Init => Contract!ContractInit
  BY DEF Init, Contract!ContractInit
<1>2. Inv /\ [Next]_vars => [Contract!ContractStep]_<<profile_valid, Current>>
  <2>1. UNCHANGED vars => UNCHANGED <<profile_valid, Current>>
    BY DEF vars, profile, blocks, Current
  <2>2. QED
    BY <2>1, StepIsContractStep
<1>3. QED
  BY <1>1, <1>2, InvIsInvariant, PTL
  DEF Spec, ImplementsContract, Contract!ContractSpec, Contract!contractVars, Current
=============================================================================
