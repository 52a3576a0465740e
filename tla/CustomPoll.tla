----------------------------- MODULE CustomPoll -----------------------------
(***************************************************************************)
(* The poller of a custom map (src/main/custom_map.c) and the part of      *)
(* poll_task that drives it (src/main/app_main.c).  It reads one point at  *)
(* a time, the longest due first, and waits after every request.  A call   *)
(* of custom_poll_step is split at the network request it waits for, and   *)
(* poll_task calls it every 25 ms, so within one tick of the model's       *)
(* clock: time does not pass a request that may be made.                   *)
(*                                                                         *)
(* Of a value the model keeps its quality and the time of its last good    *)
(* sample.                                                                 *)
(***************************************************************************)
EXTENDS Integers, FiniteSets

CONSTANTS
  NPoints,       \* map->count
  Period,        \* poll_ms of each point
  Gap,           \* idle time after a request: 250 ms
  MaxElapsed,    \* the longest a request takes: 1200 ms
  Latencies,     \* the times a request may take here
  RetryFloor,    \* a point that failed is not read again before 5000 ms
  BackoffUnit,   \* 5000 ms for each failure in a row ...
  BackoffCap,    \* ... and 30000 ms from the sixth
  BackoffSteps,
  StaleFloor,    \* no point is stale before 5000 ms
  MaxTime        \* bound of the model on the clock

Points == 0..(NPoints - 1)

ASSUME PointsAssumption ==
  /\ NPoints \in Nat \ {0}
  /\ Period \in [Points -> Nat \ {0}]
\* poll_ms is between 1000 and 3600000 (custom_map.c:176).
ASSUME PeriodsAssumption == \A p \in Points : Gap <= Period[p]
ASSUME WaitsAssumption ==
  /\ {Gap, MaxElapsed, RetryFloor, BackoffUnit, BackoffCap, BackoffSteps,
      StaleFloor, MaxTime} \subseteq Nat
  /\ BackoffSteps > 0
  /\ Latencies \subseteq 0..MaxElapsed

VARIABLES
  now,                    \* the clock
  up,                     \* the network, as poll_task last saw it
  request, asked_at,      \* the point being asked for, and since when
  next_request, next_due, consecutive_failures,
  acquired,               \* points that ever had a good sample
  quality, last_good      \* of each value

\* History variables: they record what happened and guide no action.
VARIABLES
  completed_at,  \* when the last request ended
  bounced,       \* the network changed since
  healthy,       \* the points since whose last good sample every answer has
                 \* been good and took no longer than a sweep allows for
  heard          \* the points with a good sample since the controller was last
                 \* silent or the network changed

schedule == <<next_request, next_due, consecutive_failures>>
values == <<acquired, quality, last_good>>
history == <<completed_at, bounced, healthy, heard>>
vars == <<now, up, request, asked_at, schedule, values, history>>

NoPoint == -1
Waiting == request # NoPoint

TypeOK ==
  /\ now \in Nat /\ up \in BOOLEAN
  /\ request \in Points \cup {NoPoint}
  /\ asked_at \in Nat /\ next_request \in Nat /\ completed_at \in Nat
  /\ next_due \in [Points -> Nat]
  /\ consecutive_failures \in 0..BackoffSteps
  /\ acquired \subseteq Points
  /\ quality \in [Points -> {"comm", "good", "unverified"}]
  /\ last_good \in [Points -> Nat]
  /\ bounced \in BOOLEAN
  /\ healthy \subseteq Points /\ heard \subseteq Points

\* custom_poll_init, before the network is up.
Init ==
  /\ now = 0 /\ up = FALSE
  /\ request = NoPoint /\ asked_at = 0
  /\ next_request = 0 /\ next_due = [p \in Points |-> 0]
  /\ consecutive_failures = 0
  /\ acquired = {}
  /\ quality = [p \in Points |-> "comm"]
  /\ last_good = [p \in Points |-> 0]
  /\ completed_at = 0 /\ bounced = TRUE
  /\ healthy = {} /\ heard = {}

-----------------------------------------------------------------------------
AtLeast(a, b) == IF a >= b THEN a ELSE b

\* custom_map_stale_ms: three periods, or a sweep in which every point takes
\* three gaps and one request runs to its deadline.
custom_map_stale(p) ==
  AtLeast(AtLeast(3 * Period[p], NPoints * 3 * Gap + MaxElapsed), StaleFloor)

\* custom_poll_snapshot: the quality that the rest of the gateway sees.
custom_poll_snapshot(p) ==
  IF p \in acquired /\ now >= last_good[p] /\ now - last_good[p] > custom_map_stale(p)
  THEN "comm" ELSE quality[p]

\* Faulty: the loop ends one point too early.
OfflineSkipsLast ==
  /\ quality' = [p \in Points |-> IF p = NPoints - 1 THEN quality[p] ELSE "comm"]
  /\ UNCHANGED <<acquired, last_good>>

\* custom_poll_offline
custom_poll_offline ==
  /\ quality' = [p \in Points |-> "comm"]
  /\ UNCHANGED <<acquired, last_good>>

\* Faulty: a value is marked good but not as acquired, so it never gets stale.
ApplyNeverAcquires(p) ==
  /\ quality' = [quality EXCEPT ![p] = "good"]
  /\ last_good' = [last_good EXCEPT ![p] = now]
  /\ UNCHANGED acquired

\* custom_map_apply returned true.
ApplyValid(p) ==
  /\ acquired' = acquired \cup {p}
  /\ quality' = [quality EXCEPT ![p] = "good"]
  /\ last_good' = [last_good EXCEPT ![p] = now]

\* custom_map_apply met a value that the point cannot have: the old sample
\* stays, but is no longer vouched for.
ApplyInvalid(p) ==
  /\ quality' = [quality EXCEPT ![p] = "unverified"]
  /\ UNCHANGED <<acquired, last_good>>

-----------------------------------------------------------------------------
\* custom_poll_step up to the request.

Due(p) == next_due[p] <= now

\* Faulty: the first due point of the map is taken.
EarliestIsFirst(p) == Due(p) /\ \A q \in Points : Due(q) => p <= q

\* The point the scan selects: the longest due, the first of equals.
Earliest(p) ==
  /\ Due(p)
  /\ \A q \in Points : Due(q) => \/ next_due[p] < next_due[q]
                                 \/ next_due[p] = next_due[q] /\ p <= q

MayAsk == up /\ ~Waiting /\ now >= next_request

Ask(p) ==
  /\ MayAsk /\ Earliest(p)
  /\ request' = p /\ asked_at' = now
  /\ UNCHANGED <<now, up, schedule, values, history>>

-----------------------------------------------------------------------------
\* custom_poll_step after the request, one action per outcome.

\* Lines 370-372 and the time of the response.
Answered ==
  /\ Waiting
  /\ now - asked_at \in Latencies
  /\ request' = NoPoint
  /\ completed_at' = now /\ bounced' = FALSE
  /\ UNCHANGED <<now, up, asked_at>>

\* Lines 373-379.
Succeeded ==
  /\ consecutive_failures' = 0
  /\ next_request' = now + Gap
  /\ next_due' = [next_due EXCEPT ![request] = now + Period[request]]

Backoff(n) == IF n < BackoffSteps THEN n * BackoffUnit ELSE BackoffCap

\* Lines 380-392.  The failures in a row are counted as far as the wait depends
\* on them.
Failed ==
  /\ consecutive_failures' = IF consecutive_failures < BackoffSteps
                             THEN consecutive_failures + 1 ELSE BackoffSteps
  /\ next_request' = now + Backoff(consecutive_failures')
  /\ next_due' = [next_due EXCEPT ![request] = now + AtLeast(Period[request], RetryFloor)]

\* The longest answer that leaves room for the gap in a slot of a sweep.
InSlot == now - asked_at <= 2 * Gap

ReadValid ==
  /\ Answered
  /\ Succeeded
  /\ ApplyValid(request)
  /\ healthy' = IF InSlot THEN healthy \cup {request} ELSE {request}
  /\ heard' = heard \cup {request}

ReadInvalid ==
  /\ Answered
  /\ Succeeded
  /\ ApplyInvalid(request)
  /\ healthy' = IF InSlot THEN healthy \ {request} ELSE {}
  /\ UNCHANGED heard

\* An exception faults the point that it answers.
ReadRefused ==
  /\ Answered
  /\ Failed
  /\ quality' = [quality EXCEPT ![request] = "comm"]
  /\ healthy' = {}
  /\ UNCHANGED <<acquired, last_good, heard>>

\* Faulty: any failure faults the point it happened on, and no other.
NoAnswerOnePoint ==
  /\ Answered
  /\ Failed
  /\ quality' = [quality EXCEPT ![request] = "comm"]
  /\ healthy' = {} /\ heard' = {}
  /\ UNCHANGED <<acquired, last_good>>

\* Without a reply of the controller nothing that was read before is trusted.
NoAnswer ==
  /\ Answered
  /\ Failed
  /\ custom_poll_offline
  /\ healthy' = {} /\ heard' = {}

-----------------------------------------------------------------------------
\* What poll_task does when the link or the address changed, between two steps
\* (src/main/app_main.c): it does not wait for what was planned, and makes no
\* request while the network is down.
NetworkChanged ==
  /\ ~Waiting
  /\ up' \in BOOLEAN
  /\ custom_poll_offline
  /\ next_request' = now
  /\ bounced' = TRUE /\ healthy' = {} /\ heard' = {}
  /\ UNCHANGED <<now, request, asked_at, next_due, consecutive_failures,
                 completed_at>>

\* Time; a request ends by the last of its times and is made when it may be.
Tick ==
  /\ now < MaxTime
  /\ IF Waiting THEN \E l \in Latencies : now - asked_at < l
     ELSE ~\E p \in Points : MayAsk /\ Due(p)
  /\ now' = now + 1
  /\ UNCHANGED <<up, request, asked_at, schedule, values, history>>

Answer == ReadValid \/ ReadInvalid \/ ReadRefused \/ NoAnswer

Next == (\E p \in Points : Ask(p)) \/ Answer \/ NetworkChanged \/ Tick

Spec == Init /\ [][Next]_vars

\* A controller that answers every request with a good value, on a link that
\* stays up once it is.
HealthySpec ==
  Init /\ [][(\E p \in Points : Ask(p)) \/ ReadValid \/ (NetworkChanged /\ ~up /\ up') \/ Tick]_vars

-----------------------------------------------------------------------------
\* The points of healthy, if the answer that is awaited is not late either.
HealthyNow == {p \in healthy : Waiting => InSlot}

\* While the controller is healthy a point waits, once it is due, for the
\* request in progress and for each other point at most once: the age of its
\* sample stays within its period and one sweep (custom_map.h:65 "requested
\* poll_ms is a minimum interval, not a guarantee").
AgeIsWithinOneSweep ==
  \A p \in HealthyNow :
    now <= last_good[p] + Period[p] + (NPoints - 1) * 3 * Gap + 2 * Gap

\* custom_map.h:61: "Freshness allows a bounded healthy sequential sweep".
HealthyIsFresh == \A p \in HealthyNow : custom_poll_snapshot(p) = "good"

Pause == IF consecutive_failures = 0 THEN Gap ELSE Backoff(consecutive_failures)

\* The pause before a request is the gap, or the backoff of the failures since
\* the last answer that was none, unless the network changed in between
\* (README.md:67-69).
PausesUnlessBounced ==
  Waiting /\ ~bounced => asked_at >= completed_at + Pause

\* What the gateway is shown as good was sampled, no longer ago than the limit,
\* and is not older than the latest word on it (custom_poll_snapshot).
ShownIsBacked ==
  \A p \in Points :
    custom_poll_snapshot(p) = "good" =>
      /\ p \in acquired /\ quality[p] = "good"
      /\ last_good[p] <= now /\ now <= last_good[p] + custom_map_stale(p)

\* After a silence of the controller or a change of the network no value that
\* was read before is shown as good, however young it is (line 389 and
\* poll_task).
NothingFromBeforeSilence ==
  \A p \in Points : custom_poll_snapshot(p) = "good" => p \in heard

-----------------------------------------------------------------------------
\* The times stay in order, and the next request waits for the pause.
ClockOK ==
  /\ \A p \in Points : last_good[p] <= now
  /\ Waiting => asked_at <= now /\ now <= asked_at + MaxElapsed
  /\ ~bounced => completed_at + Pause <= IF Waiting THEN asked_at ELSE next_request

\* A good value can get stale and was read after the last silence.
QualityOK == \A p \in Points : quality[p] = "good" => p \in acquired /\ p \in heard

\* A point of a sweep is read and the gap after it kept within this time.
Slot == 3 * Gap

\* The points that may be read before p.
Ahead(p) == {q \in Points : q # p /\ next_due[q] <= next_due[p]}

\* There is time for so many points by the end of a sweep that begins when p is
\* due, if the first of them is asked for at t.
Fits(p, t, points) ==
  \/ t <= next_due[p]
  \/ t + Slot * Cardinality(points) <= next_due[p] + Slot * (NPoints - 1)

\* A healthy point has been read and is asked for within a sweep once it is due.
\* Nobody waits who may ask, and whoever is read once p is due is due after p.
SweepOK ==
  /\ Waiting => up
  /\ \A p \in healthy :
      /\ up /\ quality[p] = "good"
      /\ next_due[p] = last_good[p] + Period[p]
      /\ ~Waiting => /\ now <= next_request \/ now <= next_due[p]
                     /\ Fits(p, next_request, Ahead(p))
      /\ Waiting /\ request # p => Fits(p, asked_at + Slot, Ahead(p) \ {request})
      /\ request = p => Fits(p, asked_at, {})

\* Types, times, qualities and the queue hold together between the calls of
\* custom_poll_step and during one.
Inv == TypeOK /\ ClockOK /\ QualityOK /\ SweepOK

-----------------------------------------------------------------------------
Contract == INSTANCE PollContract WITH
  Items    <- Points,
  Gated    <- FALSE,
  verified <- TRUE,
  current  <- {p \in Points : quality[p] = "good"}

\* Points become good only by a read of their own, lose that only by one or all
\* together, and no identity is checked (poll_task may put either engine in the
\* place of the other).
ImplementsContract == Contract!ContractSpec
=============================================================================
