------------------------- MODULE CustomPoll_proofs -------------------------
(***************************************************************************)
(* Proofs about CustomPoll, for any number of points, any periods and any  *)
(* delays: what is shown as good is backed by a sample since the last      *)
(* silence, requests keep their distance, a healthy point is read within a *)
(* sweep of the others, and the poller implements the contract it shares   *)
(* with the ATS engine.                                                    *)
(***************************************************************************)
EXTENDS CustomPoll, FiniteSetTheorems, TLAPS

\* The waits and the stale limits are numbers.
LEMMA Numbers ==
  /\ Gap \in Nat /\ MaxElapsed \in Nat /\ RetryFloor \in Nat /\ BackoffUnit \in Nat
  /\ BackoffCap \in Nat /\ BackoffSteps \in Nat /\ BackoffSteps > 0
  /\ \A p \in Points : Period[p] \in Nat /\ custom_map_stale(p) \in Nat
  /\ \A n \in 0..BackoffSteps : Backoff(n) \in Nat
  /\ \A l \in Latencies : l \in Nat /\ l <= MaxElapsed
<1>1. /\ Gap \in Nat /\ MaxElapsed \in Nat /\ RetryFloor \in Nat /\ BackoffUnit \in Nat
      /\ BackoffCap \in Nat /\ BackoffSteps \in Nat /\ StaleFloor \in Nat
      /\ BackoffSteps > 0
  BY WaitsAssumption
<1>2. \A p \in Points : Period[p] \in Nat
  BY PointsAssumption
<1>3. ASSUME NEW p \in Points
      PROVE  custom_map_stale(p) \in Nat
  <2>1. 3 * Period[p] \in Nat
    BY <1>2
  <2>2. NPoints * 3 * Gap \in Nat
    BY <1>1, PointsAssumption
  <2> QED BY <1>1, <2>1, <2>2 DEF custom_map_stale, AtLeast
<1>4. ASSUME NEW n \in 0..BackoffSteps
      PROVE  Backoff(n) \in Nat
  <2>1. n * BackoffUnit \in Nat
    BY <1>1
  <2> QED BY <1>1, <2>1 DEF Backoff
<1>5. \A l \in Latencies : l \in Nat /\ l <= MaxElapsed
  BY <1>1, WaitsAssumption
<1> QED BY <1>1, <1>2, <1>3, <1>4, <1>5

\* A pause is a number, and a point is never taken for none.
LEMMA PauseIsNumber ==
  ASSUME TypeOK
  PROVE  Pause \in Nat
BY Numbers DEF TypeOK, Pause

LEMMA NoPointIsNone == NoPoint \notin Points
BY PointsAssumption DEF NoPoint, Points

-----------------------------------------------------------------------------
\* The arithmetic of a sweep.

\* More slots take more time, and one more takes a slot more.
LEMMA Slots ==
  ASSUME NEW m \in Nat, NEW n \in Nat, m <= n
  PROVE  /\ Slot \in Nat /\ Slot * m \in Nat /\ Slot * n \in Nat /\ Slot * m <= Slot * n
         /\ Slot * (m + 1) = Slot * m + Slot
<1>1. Slot \in Nat
  BY Numbers DEF Slot
<1>2. ASSUME NEW a \in Nat, NEW i \in Nat, NEW d \in Nat
      PROVE  a * i \in Nat /\ a * (i + d) = a * i + a * d
  OBVIOUS
<1> DEFINE d == n - m
<1>3. d \in Nat /\ n = m + d
  OBVIOUS
<1> HIDE DEF d
<1>4. Slot * m \in Nat /\ Slot * d \in Nat /\ Slot * n = Slot * m + Slot * d
  BY <1>1, <1>2, <1>3
<1>5. Slot * (m + 1) = Slot * m + Slot
  <2>1. Slot * (m + 1) = Slot * m + Slot * 1
    BY <1>1, <1>2
  <2> QED BY <1>1, <2>1
<1>6. Slot * n \in Nat /\ Slot * m <= Slot * n
  <2> DEFINE x == Slot * m
             y == Slot * d
  <2>1. x \in Nat /\ y \in Nat /\ Slot * n = x + y
    BY <1>4
  <2> HIDE DEF x, y
  <2>2. Slot * n \in Nat /\ x <= Slot * n
    BY <2>1
  <2> QED BY <2>2 DEF x
<1> QED BY <1>1, <1>4, <1>5, <1>6

\* At most all other points are ahead of one.
LEMMA AheadIsSmall ==
  ASSUME NEW p \in Points, NEW S \in SUBSET (Points \ {p})
  PROVE  /\ IsFiniteSet(S) /\ Cardinality(S) \in 0..(NPoints - 1)
         /\ \A T \in SUBSET S : Cardinality(T) \in 0..Cardinality(S)
         /\ \A q \in S : Cardinality(S \ {q}) = Cardinality(S) - 1
<1>1. NPoints \in Nat \ {0}
  BY PointsAssumption
<1>2. IsFiniteSet(Points) /\ Cardinality(Points) = NPoints
  BY <1>1, FS_Interval DEF Points
<1>3. IsFiniteSet(Points \ {p}) /\ Cardinality(Points \ {p}) = NPoints - 1
  BY <1>2, FS_RemoveElement
<1>4. IsFiniteSet(S) /\ Cardinality(S) <= NPoints - 1
  BY <1>3, FS_Subset
<1>5. Cardinality(S) \in Nat
  BY <1>4, FS_CardinalityType
<1>6. \A T \in SUBSET S : Cardinality(T) \in 0..Cardinality(S)
  BY <1>4, <1>5, FS_Subset, FS_CardinalityType
<1>7. \A q \in S : Cardinality(S \ {q}) = Cardinality(S) - 1
  BY <1>4, FS_RemoveElement
<1> QED BY <1>1, <1>4, <1>5, <1>6, <1>7

\* An earlier time and fewer points fit as well.
LEMMA LessFits ==
  ASSUME TypeOK, NEW p \in Points, NEW S \in SUBSET (Points \ {p}), NEW T \in SUBSET S,
         NEW t \in Nat, NEW u \in Nat, u <= t, Fits(p, t, S)
  PROVE  Fits(p, u, T)
<1>1. Cardinality(S) \in Nat /\ Cardinality(T) \in Nat /\ Cardinality(T) <= Cardinality(S)
  BY AheadIsSmall
<1>2. Slot * Cardinality(T) <= Slot * Cardinality(S)
  BY <1>1, Slots
<1>3. Slot * Cardinality(T) \in Nat /\ Slot * Cardinality(S) \in Nat
  BY <1>1, Slots
<1>4. next_due[p] \in Nat /\ NPoints - 1 \in Nat
  BY PointsAssumption DEF TypeOK
<1>5. Slot * (NPoints - 1) \in Nat
  BY <1>4, Slots
<1> QED BY <1>2, <1>3, <1>4, <1>5 DEF Fits

\* When a point ahead is asked for, the others fit after its slot.
LEMMA OneLessFits ==
  ASSUME TypeOK, NEW p \in Points, NEW S \in SUBSET (Points \ {p}), NEW q \in S,
         NEW t \in Nat, Fits(p, t, S)
  PROVE  Fits(p, t + Slot, S \ {q})
<1> DEFINE n == Cardinality(S)
           m == Cardinality(S \ {q})
<1>1. m \in Nat /\ n = m + 1 /\ n \in Nat /\ n <= NPoints - 1 /\ NPoints - 1 \in Nat
  <2>1. n \in 0..(NPoints - 1) /\ m = n - 1 /\ m \in 0..n
    BY AheadIsSmall
  <2>2. NPoints - 1 \in Nat
    BY PointsAssumption
  <2> HIDE DEF n, m
  <2> QED BY <2>1, <2>2
<1> HIDE DEF n, m
<1>2. /\ Slot \in Nat /\ Slot * m \in Nat /\ Slot * n = Slot * m + Slot
      /\ Slot * n <= Slot * (NPoints - 1)
  <2>1. m <= n
    BY <1>1
  <2>2. Slot \in Nat /\ Slot * m \in Nat /\ Slot * (m + 1) = Slot * m + Slot
    BY <1>1, <2>1, Slots
  <2>3. Slot * n <= Slot * (NPoints - 1)
    BY <1>1, Slots
  <2> QED BY <1>1, <2>2, <2>3
<1>3. Slot * n \in Nat /\ Slot * (NPoints - 1) \in Nat /\ next_due[p] \in Nat
  BY <1>1, Slots DEF TypeOK
<1>4. CASE t <= next_due[p]
  <2>1. t + Slot + Slot * m <= next_due[p] + Slot * (NPoints - 1)
    BY <1>2, <1>3, <1>4
  <2> QED BY <2>1 DEF Fits, m
<1>5. CASE t + Slot * n <= next_due[p] + Slot * (NPoints - 1)
  <2>1. t + Slot + Slot * m <= next_due[p] + Slot * (NPoints - 1)
    BY <1>2, <1>3, <1>5
  <2> QED BY <2>1 DEF Fits, m
<1> QED BY <1>4, <1>5 DEF Fits, n

\* Nothing has been read.
LEMMA InitInv == Init => Inv
<1> SUFFICES ASSUME Init
             PROVE  Inv
  OBVIOUS
<1>1. TypeOK
  <2>1. quality \in [Points -> {"comm", "good", "unverified"}]
    BY DEF Init
  <2>2. next_due \in [Points -> Nat] /\ last_good \in [Points -> Nat]
    BY DEF Init
  <2>3. up \in BOOLEAN /\ bounced \in BOOLEAN
    BY Zenon DEF Init
  <2> QED BY <2>1, <2>2, <2>3, Numbers DEF Init, TypeOK
<1>2. ClockOK
  BY DEF Init, ClockOK, Waiting
<1>3. QualityOK
  BY DEF Init, QualityOK
<1>4. SweepOK
  BY DEF Init, SweepOK, Waiting
<1> QED BY <1>1, <1>2, <1>3, <1>4 DEF Inv

-----------------------------------------------------------------------------
\* An answer ends the request at the present time.
LEMMA AnsweredEffect ==
  ASSUME Inv, Answered
  PROVE  /\ request \in Points /\ request' = NoPoint /\ ~Waiting'
         /\ completed_at' = now /\ completed_at' \in Nat /\ now \in Nat
         /\ ~bounced' /\ bounced' \in BOOLEAN
         /\ UNCHANGED <<now, up, asked_at>>
         /\ now' \in Nat /\ up' \in BOOLEAN /\ asked_at' \in Nat
         /\ request' \in Points \cup {NoPoint}
<1>1. request \in Points
  BY DEF Inv, TypeOK, Answered, Waiting
<1> QED BY <1>1 DEF Inv, TypeOK, Answered, Waiting

\* The next request waits for the gap, or for the backoff.
LEMMA WaitEffect ==
  ASSUME Inv, Answered, Succeeded \/ Failed
  PROVE  /\ consecutive_failures' \in 0..BackoffSteps
         /\ next_due' \in [Points -> Nat]
         /\ next_request' \in Nat
         /\ now + Pause' <= next_request'
<1>1. request \in Points /\ now \in Nat
  BY AnsweredEffect
<1>2. /\ next_due \in [Points -> Nat] /\ consecutive_failures \in 0..BackoffSteps
  BY DEF Inv, TypeOK
<1>3. CASE Succeeded
  <2>1. now + Period[request] \in Nat
    BY <1>1, Numbers
  <2>2. Pause' = Gap
    BY <1>3 DEF Succeeded, Pause
  <2> QED BY <1>1, <1>2, <1>3, <2>1, <2>2, Numbers DEF Succeeded
<1>4. CASE Failed
  <2>1. now + AtLeast(Period[request], RetryFloor) \in Nat
    BY <1>1, Numbers DEF AtLeast
  <2>2. consecutive_failures' \in 0..BackoffSteps /\ consecutive_failures' # 0
    BY <1>2, <1>4, Numbers DEF Failed
  <2>3. next_request' = now + Backoff(consecutive_failures')
    BY <1>4 DEF Failed
  <2> QED BY <1>1, <1>2, <1>4, <2>1, <2>2, <2>3, Numbers DEF Failed, Pause
<1> QED BY <1>3, <1>4


\* Every answer but a good one leaves no more values good than there were, and a
\* good one that of the point it is about (custom_map_apply, custom_poll_offline).
LEMMA ValueEffect ==
  ASSUME Inv, Answer
  PROVE  /\ acquired' \subseteq Points /\ heard' \subseteq Points /\ healthy' \subseteq Points
         /\ quality' \in [Points -> {"comm", "good", "unverified"}]
         /\ last_good' \in [Points -> Nat]
         /\ \A p \in Points : last_good'[p] <= now
         /\ QualityOK'
<1>1. request \in Points /\ now \in Nat
  BY AnsweredEffect DEF Answer, ReadValid, ReadInvalid, ReadRefused, NoAnswer
<1>2. /\ acquired \subseteq Points /\ heard \subseteq Points /\ healthy \subseteq Points
      /\ quality \in [Points -> {"comm", "good", "unverified"}]
      /\ last_good \in [Points -> Nat]
      /\ \A p \in Points : last_good[p] <= now
  BY DEF Inv, TypeOK, ClockOK
<1>3. \A p \in Points : quality[p] = "good" => p \in acquired /\ p \in heard
  BY DEF Inv, QualityOK
<1>4. CASE ReadValid
  BY <1>1, <1>2, <1>3, <1>4 DEF ReadValid, ApplyValid, QualityOK
<1>5. CASE ReadInvalid
  BY <1>1, <1>2, <1>3, <1>5 DEF ReadInvalid, ApplyInvalid, QualityOK
<1>6. CASE ReadRefused
  BY <1>1, <1>2, <1>3, <1>6 DEF ReadRefused, QualityOK
<1>7. CASE NoAnswer
  BY <1>1, <1>2, <1>3, <1>7 DEF NoAnswer, custom_poll_offline, QualityOK
<1> QED BY <1>4, <1>5, <1>6, <1>7 DEF Answer

\* An answer in its slot leaves room for the rest of the sweep, and the point it
\* is about is due after those that wait; a sweep begins anew for a point that
\* becomes healthy.
LEMMA AnswerSweep ==
  ASSUME Inv, Answer
  PROVE  SweepOK'
<1>1. Answered
  BY DEF Answer, ReadValid, ReadInvalid, ReadRefused, NoAnswer
<1>2. /\ request \in Points /\ ~Waiting' /\ now \in Nat /\ asked_at \in Nat /\ request' = NoPoint
      /\ now' = now /\ up' = up /\ asked_at' = asked_at /\ NoPoint \notin Points
  BY <1>1, AnsweredEffect, NoPointIsNone DEF Inv, TypeOK
<1>3. up /\ Waiting
  BY <1>1 DEF Inv, SweepOK, Answered
<1>4. CASE ReadRefused \/ NoAnswer
  BY <1>2, <1>4 DEF ReadRefused, NoAnswer, SweepOK
<1>5. CASE ReadValid \/ ReadInvalid
  <2>1. /\ next_request' = now + Gap
        /\ next_due' = [next_due EXCEPT ![request] = now + Period[request]]
    BY <1>5 DEF ReadValid, ReadInvalid, Succeeded
  <2>2. /\ quality \in [Points -> {"comm", "good", "unverified"}]
        /\ last_good \in [Points -> Nat] /\ next_due \in [Points -> Nat] /\ healthy \subseteq Points
    BY DEF Inv, TypeOK
  <2>3. Gap \in Nat /\ \A q \in Points : Period[q] \in Nat /\ Gap <= Period[q]
    BY Numbers, PeriodsAssumption
  <2>4. ASSUME ReadValid
        PROVE  /\ quality'[request] = "good"
               /\ next_due'[request] = last_good'[request] + Period[request]
               /\ now <= next_request'
               /\ next_request' <= next_due'[request]
    BY <1>2, <2>1, <2>2, <2>3, <2>4 DEF ReadValid, ApplyValid
  <2>5. ASSUME NEW p \in healthy, p # request, InSlot
        PROVE  /\ quality'[p] = "good"
               /\ next_due'[p] = last_good'[p] + Period[p]
               /\ now <= next_request'
               /\ Fits(p, next_request, Ahead(p))'
    <3>1. p \in Points /\ next_due'[p] = next_due[p] /\ next_due[p] \in Nat
      BY <2>1, <2>2, <2>5
    <3>2. last_good'[p] = last_good[p] /\ quality'[p] = quality[p]
      BY <1>5, <2>2, <2>5, <3>1 DEF ReadValid, ReadInvalid, ApplyValid, ApplyInvalid
    <3>3. /\ quality[p] = "good" /\ next_due[p] = last_good[p] + Period[p]
          /\ Fits(p, asked_at + Slot, Ahead(p) \ {request})
      BY <1>3, <2>5 DEF Inv, SweepOK
    <3>4. next_request' \in Nat /\ now <= next_request'
      BY <1>2, <2>1, <2>3
    <3>5. next_request' <= asked_at + Slot /\ asked_at + Slot \in Nat
      BY <1>2, <2>1, <2>3, <2>5 DEF InSlot, Slot
    <3>6. CASE next_request' <= next_due[p]
      BY <3>1, <3>2, <3>3, <3>4, <3>6 DEF Fits
    <3>7. CASE ~(next_request' <= next_due[p])
      <4>1. Ahead(p)' \subseteq Ahead(p) \ {request}
        <5> SUFFICES ASSUME NEW q \in Points, q # p, next_due'[q] <= next_due'[p]
                     PROVE  q # request /\ next_due[q] <= next_due[p]
          BY DEF Ahead
        <5>1. CASE q = request
          <6>1. next_due'[q] = now + Period[q]
            BY <1>2, <2>1, <2>2, <5>1
          <6> QED BY <1>2, <2>1, <2>3, <3>1, <3>7, <6>1
        <5>2. CASE q # request
          BY <2>1, <2>2, <3>1, <5>2
        <5> QED BY <5>1, <5>2
      <4>2. Ahead(p) \ {request} \in SUBSET (Points \ {p})
        BY DEF Ahead
      <4>3. Fits(p, next_request', Ahead(p)')
        BY <3>1, <3>3, <3>4, <3>5, <4>1, <4>2, LessFits DEF Inv
      <4> QED BY <3>1, <3>2, <3>3, <3>4, <4>3 DEF Fits
    <3> QED BY <3>6, <3>7
  <2>6. \A p \in healthy' : \/ p = request /\ ReadValid
                            \/ p \in healthy /\ p # request /\ InSlot
    BY <1>5 DEF ReadValid, ReadInvalid
  <2>7. ASSUME NEW p \in healthy'
        PROVE  /\ up' /\ quality'[p] = "good"
               /\ next_due'[p] = last_good'[p] + Period[p]
               /\ now' <= next_request'
               /\ Fits(p, next_request, Ahead(p))'
               /\ p # request'
    <3>1. p \in Points
      BY <1>2, <2>2, <2>6
    <3> QED BY <1>2, <1>3, <2>4, <2>5, <2>6, <2>7, <3>1 DEF Fits
  <2> QED BY <1>2, <2>7 DEF SweepOK
<1> QED BY <1>4, <1>5 DEF Answer

\* An answer keeps the invariant.
LEMMA AnswerInv == Inv /\ Answer => Inv'
<1> SUFFICES ASSUME Inv, Answer
             PROVE  Inv'
  OBVIOUS
<1>1. Answered /\ (Succeeded \/ Failed)
  BY DEF Answer, ReadValid, ReadInvalid, ReadRefused, NoAnswer
<1>2. TypeOK'
  BY <1>1, AnsweredEffect, WaitEffect, ValueEffect DEF TypeOK
<1>3. ClockOK'
  BY <1>1, AnsweredEffect, WaitEffect, ValueEffect DEF ClockOK
<1> QED BY <1>2, <1>3, ValueEffect, AnswerSweep DEF Inv

\* The point that is asked for is ahead of every other healthy point, and none of
\* those is kept waiting for longer than the slot it takes.
LEMMA AskSweep ==
  ASSUME Inv, NEW p \in Points, Ask(p)
  PROVE  SweepOK'
<1>1. /\ up /\ ~Waiting /\ now >= next_request /\ request' = p /\ asked_at' = now
      /\ UNCHANGED <<now, up, next_due, quality, last_good, healthy>>
  BY DEF Ask, MayAsk, schedule, values, history
<1>2. Waiting'
  BY <1>1, NoPointIsNone DEF Waiting
<1>3. /\ now \in Nat /\ next_request \in Nat /\ next_due \in [Points -> Nat]
      /\ healthy \subseteq Points /\ TypeOK
  BY DEF Inv, TypeOK
<1>4. ASSUME NEW h \in healthy
      PROVE  /\ quality[h] = "good" /\ next_due[h] = last_good[h] + Period[h]
             /\ p # h => Fits(h, now + Slot, Ahead(h) \ {p})
             /\ p = h => Fits(h, now, {})
  <2>1. /\ h \in Points /\ quality[h] = "good" /\ next_due[h] = last_good[h] + Period[h]
        /\ now <= next_request \/ now <= next_due[h]
        /\ Fits(h, next_request, Ahead(h))
    BY <1>1, <1>3, <1>4 DEF Inv, SweepOK
  <2>2. Ahead(h) \in SUBSET (Points \ {h})
    BY DEF Ahead
  <2>3. Fits(h, now, Ahead(h))
    <3>1. CASE now <= next_request
      BY <1>3, <2>1, <2>2, <3>1, LessFits
    <3>2. CASE now <= next_due[h]
      BY <3>2 DEF Fits
    <3> QED BY <2>1, <3>1, <3>2
  <2>4. p # h => p \in Ahead(h)
    <3>1. Due(p) /\ (Due(h) => next_due[p] <= next_due[h])
      BY <1>3, <2>1 DEF Ask, Earliest
    <3> QED BY <1>3, <2>1, <3>1 DEF Due, Ahead
  <2>5. p # h => Fits(h, now + Slot, Ahead(h) \ {p})
    BY <1>3, <2>1, <2>2, <2>3, <2>4, OneLessFits
  <2>6. Fits(h, now, {})
    BY <1>3, <2>1, <2>2, <2>3, LessFits
  <2> QED BY <2>1, <2>5, <2>6
<1>5. ASSUME NEW h \in healthy'
      PROVE  /\ up' /\ quality'[h] = "good" /\ next_due'[h] = last_good'[h] + Period[h]
             /\ request' # h => Fits(h, asked_at + Slot, Ahead(h) \ {request})'
             /\ request' = h => Fits(h, asked_at, {})'
  BY <1>1, <1>4, <1>5 DEF Fits, Ahead
<1> QED BY <1>1, <1>2, <1>5 DEF SweepOK

\* A request is made at the present time, and not before next_request.
LEMMA AskInv ==
  ASSUME Inv, NEW p \in Points, Ask(p)
  PROVE  Inv'
<1>1. /\ ~Waiting /\ now >= next_request /\ request' = p /\ asked_at' = now
      /\ UNCHANGED <<now, up, schedule, values, history>>
  BY DEF Ask, MayAsk
<1>2. TypeOK'
  BY <1>1 DEF Inv, TypeOK, schedule, values, history
<1>3. Waiting' /\ Pause' = Pause
  BY <1>1, NoPointIsNone DEF Waiting, Pause, schedule
<1>4. ClockOK'
  <2>1. \A q \in Points : last_good'[q] <= now'
    BY <1>1 DEF Inv, ClockOK, values
  <2>2. asked_at' <= now' /\ now' <= asked_at' + MaxElapsed
    BY <1>1, Numbers DEF Inv, TypeOK
  <2>3. ~bounced' => completed_at' + Pause' <= asked_at'
    BY <1>1, <1>3, PauseIsNumber DEF Inv, TypeOK, ClockOK, history
  <2> QED BY <1>3, <2>1, <2>2, <2>3 DEF ClockOK
<1>5. QualityOK'
  BY <1>1 DEF Inv, QualityOK, values, history
<1> QED BY <1>2, <1>4, <1>5, AskSweep DEF Inv

\* Nothing stays good when the network changes, and the pause is void.
LEMMA NetworkChangedInv == Inv /\ NetworkChanged => Inv'
<1> SUFFICES ASSUME Inv, NetworkChanged
             PROVE  Inv'
  OBVIOUS
<1>1. quality' = [p \in Points |-> "comm"] /\ UNCHANGED <<acquired, last_good>>
  BY DEF NetworkChanged, custom_poll_offline
<1>2. TypeOK'
  <2>1. quality' \in [Points -> {"comm", "good", "unverified"}]
    BY <1>1
  <2>2. up' \in BOOLEAN /\ bounced' \in BOOLEAN
    BY Zenon DEF NetworkChanged
  <2> QED BY <1>1, <2>1, <2>2 DEF NetworkChanged, Inv, TypeOK
<1>3. ClockOK'
  BY <1>1 DEF NetworkChanged, Inv, ClockOK, Waiting
<1>4. QualityOK'
  BY <1>1 DEF QualityOK
<1>5. SweepOK'
  BY DEF NetworkChanged, SweepOK, Waiting
<1> QED BY <1>2, <1>3, <1>4, <1>5 DEF Inv

\* Time does not pass a due point that may be asked for.
LEMMA TickSweep ==
  ASSUME Inv, Tick
  PROVE  SweepOK'
<1>1. /\ now' = now + 1
      /\ UNCHANGED <<up, request, asked_at, next_request, next_due, quality, last_good, healthy>>
  BY DEF Tick, schedule, values, history
<1>2. /\ now \in Nat /\ next_request \in Nat /\ next_due \in [Points -> Nat]
      /\ healthy \subseteq Points
  BY DEF Inv, TypeOK
<1>3. ASSUME NEW h \in healthy, ~Waiting
      PROVE  now' <= next_request \/ now' <= next_due[h]
  <2>1. h \in Points /\ up
    BY <1>2, <1>3 DEF Inv, SweepOK
  <2>2. ~(now >= next_request /\ next_due[h] <= now)
    BY <1>3, <2>1 DEF Tick, MayAsk, Due
  <2> QED BY <1>1, <1>2, <2>1, <2>2
<1>4. Waiting' = Waiting /\ (Waiting => up)
  BY <1>1 DEF Waiting, Inv, SweepOK
<1>5. ASSUME NEW h \in healthy'
      PROVE  /\ up' /\ quality'[h] = "good"
             /\ next_due'[h] = last_good'[h] + Period[h]
             /\ ~Waiting => /\ now' <= next_request' \/ now' <= next_due'[h]
                            /\ Fits(h, next_request, Ahead(h))'
             /\ Waiting /\ request # h => Fits(h, asked_at + Slot, Ahead(h) \ {request})'
             /\ request = h => Fits(h, asked_at, {})'
  <2>1. h \in healthy
    BY <1>1, <1>5
  <2> QED BY <1>1, <1>3, <2>1 DEF Inv, SweepOK, Fits, Ahead
<1> QED BY <1>1, <1>4, <1>5 DEF SweepOK

\* While a request runs, time stays within the longest it may take.
LEMMA TickInv == Inv /\ Tick => Inv'
<1> SUFFICES ASSUME Inv, Tick
             PROVE  Inv'
  OBVIOUS
<1>1. /\ now' = now + 1
      /\ UNCHANGED <<up, request, asked_at, schedule, values, history>>
      /\ Waiting => \E l \in Latencies : now - asked_at < l
  BY DEF Tick
<1>2. now \in Nat /\ asked_at \in Nat
  BY DEF Inv, TypeOK
<1>3. TypeOK'
  BY <1>1, <1>2 DEF Inv, TypeOK, schedule, values, history
<1>4. ClockOK'
  <2>1. Waiting' = Waiting /\ Pause' = Pause
    BY <1>1 DEF Waiting, Pause, schedule
  <2>2. \A p \in Points : last_good'[p] <= now'
    BY <1>1, <1>2 DEF Inv, TypeOK, ClockOK, values
  <2>3. Waiting => now + 1 <= asked_at + MaxElapsed
    BY <1>1, <1>2, Numbers
  <2>4. Waiting' => asked_at' <= now' /\ now' <= asked_at' + MaxElapsed
    BY <1>1, <1>2, <2>1, <2>3 DEF Inv, ClockOK
  <2> QED BY <1>1, <2>1, <2>2, <2>4 DEF Inv, ClockOK, schedule, history
<1>5. QualityOK'
  BY <1>1 DEF Inv, QualityOK, values, history
<1> QED BY <1>3, <1>4, <1>5, TickSweep DEF Inv

LEMMA NextInv == Inv /\ [Next]_vars => Inv'
<1> SUFFICES ASSUME Inv, [Next]_vars
             PROVE  Inv'
  OBVIOUS
<1>1. CASE UNCHANGED vars
  <2>1. /\ UNCHANGED <<now, up, request, asked_at, next_request, next_due>>
        /\ UNCHANGED <<consecutive_failures, acquired, quality, last_good>>
        /\ UNCHANGED <<completed_at, bounced, healthy, heard>>
    BY <1>1 DEF vars, schedule, values, history
  <2>2. TypeOK' /\ ClockOK' /\ QualityOK'
    BY <2>1 DEF Inv, TypeOK, ClockOK, QualityOK, Waiting, Pause
  <2>3. SweepOK'
    BY <2>1 DEF Inv, SweepOK, Fits, Ahead, Waiting
  <2> QED BY <2>2, <2>3 DEF Inv
<1> QED BY <1>1, AskInv, AnswerInv, NetworkChangedInv, TickInv DEF Next

-----------------------------------------------------------------------------
\* The inductive invariant: types, times and qualities (custom_poll_step).
THEOREM InvIsInvariant == Spec => []Inv
BY InitInv, NextInv, PTL DEF Spec

\* A request follows the one before by the gap or the backoff, unless the
\* network has changed meanwhile (custom_map.c:373-392).
THEOREM AlwaysPausesUnlessBounced == Spec => []PausesUnlessBounced
<1>1. Inv => PausesUnlessBounced
  BY DEF Inv, ClockOK, PausesUnlessBounced
<1> QED BY <1>1, InvIsInvariant, PTL

\* What is shown as good was sampled within the stale limit
\* (custom_poll_snapshot).
THEOREM ShownIsAlwaysBacked == Spec => []ShownIsBacked
<1>1. Inv => ShownIsBacked
  <2> SUFFICES ASSUME Inv, NEW p \in Points, custom_poll_snapshot(p) = "good"
               PROVE  /\ p \in acquired /\ quality[p] = "good"
                      /\ last_good[p] <= now /\ now <= last_good[p] + custom_map_stale(p)
    BY DEF ShownIsBacked
  <2>1. quality[p] = "good" /\ ~(/\ p \in acquired /\ now >= last_good[p]
                                 /\ now - last_good[p] > custom_map_stale(p))
    BY DEF custom_poll_snapshot
  <2>2. p \in acquired /\ last_good[p] <= now
    BY <2>1 DEF Inv, QualityOK, ClockOK
  <2>3. now \in Nat /\ last_good[p] \in Nat /\ custom_map_stale(p) \in Nat
    BY Numbers DEF Inv, TypeOK
  <2> QED BY <2>1, <2>2, <2>3
<1> QED BY <1>1, InvIsInvariant, PTL

\* Nothing read before a silence of the controller or a change of the network is
\* shown as good (custom_map.c:389 and poll_task).
THEOREM NothingIsShownFromBeforeSilence == Spec => []NothingFromBeforeSilence
<1>1. Inv => NothingFromBeforeSilence
  BY DEF Inv, QualityOK, NothingFromBeforeSilence, custom_poll_snapshot
<1> QED BY <1>1, InvIsInvariant, PTL

\* While the controller answers with good values and in time, no sample gets
\* older than its period and a sweep of the other points (custom_map.h:65).
THEOREM AgesAlwaysStayWithinOneSweep == Spec => []AgeIsWithinOneSweep
<1>1. Inv => AgeIsWithinOneSweep
  <2> SUFFICES ASSUME Inv, NEW p \in HealthyNow
               PROVE  now <= last_good[p] + Period[p] + (NPoints - 1) * 3 * Gap + 2 * Gap
    BY DEF AgeIsWithinOneSweep
  <2> DEFINE due == next_due[p]
             sweep == Slot * (NPoints - 1)
  <2>1. /\ p \in healthy /\ p \in Points /\ now \in Nat /\ asked_at \in Nat
        /\ next_request \in Nat /\ request \in Points \cup {NoPoint}
        /\ due \in Nat /\ last_good[p] \in Nat /\ TypeOK
    BY DEF Inv, TypeOK, HealthyNow
  <2>2. due = last_good[p] + Period[p]
    BY <2>1 DEF Inv, SweepOK
  <2>3. Gap \in Nat /\ Slot \in Nat /\ Slot = 3 * Gap
    BY Numbers DEF Slot
  <2>4. NPoints - 1 \in Nat /\ 0 <= NPoints - 1
    BY PointsAssumption
  <2>5. sweep \in Nat /\ sweep = (NPoints - 1) * 3 * Gap
    BY <2>3, <2>4
  <2> HIDE DEF due, sweep
  <2>6. ASSUME NEW t \in Nat, NEW S \in SUBSET (Points \ {p}), Fits(p, t, S)
        PROVE  t <= due + sweep
    <3>1. Fits(p, t, {})
      BY <2>1, <2>6, LessFits
    <3>2. Slot * Cardinality({}) = 0
      BY <2>3, FS_EmptySet
    <3> QED BY <2>1, <2>5, <3>1, <3>2 DEF Fits, due, sweep
  <2>7. CASE ~Waiting
    <3>1. (now <= next_request \/ now <= due) /\ Fits(p, next_request, Ahead(p))
      BY <2>1, <2>7 DEF Inv, SweepOK, due
    <3>2. next_request <= due + sweep
      BY <2>1, <2>6, <3>1 DEF Ahead
    <3>3. now <= due + sweep
      BY <2>1, <2>5, <3>1, <3>2
    <3> QED BY <2>1, <2>2, <2>3, <2>5, <3>3
  <2>8. CASE Waiting
    <3>1. asked_at <= due + sweep
      <4>1. CASE request = p
        BY <2>1, <2>6, <4>1 DEF Inv, SweepOK
      <4>2. CASE request # p
        <5>1. Fits(p, asked_at + Slot, Ahead(p) \ {request})
          BY <2>1, <2>8, <4>2 DEF Inv, SweepOK
        <5>2. asked_at + Slot \in Nat /\ asked_at <= asked_at + Slot
          BY <2>1, <2>3
        <5>3. asked_at + Slot <= due + sweep
          BY <2>6, <5>1, <5>2 DEF Ahead
        <5> QED BY <2>1, <2>3, <2>5, <5>2, <5>3
      <4> QED BY <4>1, <4>2
    <3>2. now <= asked_at + 2 * Gap
      BY <2>1, <2>3, <2>8 DEF HealthyNow, InSlot
    <3> QED BY <2>1, <2>2, <2>3, <2>5, <3>1, <3>2
  <2> QED BY <2>7, <2>8
<1> QED BY <1>1, InvIsInvariant, PTL

\* The points whose stale limit covers their period and a sweep of the others:
\* those of a short period, and those that are asked for less than twice a sweep.
Covered(p) ==
  \/ Period[p] <= Gap + MaxElapsed
  \/ (NPoints - 1) * 3 * Gap + 2 * Gap <= 2 * Period[p]

\* A healthy point is fresh, as custom_map.h:61 promises of all, if its period is
\* at most 1450 ms or at least half a sweep (custom_map_stale_ms); between the two
\* it may be faulted although every answer is good.
THEOREM CoveredPointsStayFresh ==
  Spec => [](\A p \in HealthyNow : Covered(p) => custom_poll_snapshot(p) = "good")
<1>1. Inv /\ AgeIsWithinOneSweep =>
        \A p \in HealthyNow : Covered(p) => custom_poll_snapshot(p) = "good"
  <2> SUFFICES ASSUME Inv, AgeIsWithinOneSweep, NEW p \in HealthyNow, Covered(p)
               PROVE  custom_poll_snapshot(p) = "good"
    OBVIOUS
  <2> DEFINE sweep == (NPoints - 1) * 3 * Gap
  <2>1. /\ p \in healthy /\ p \in Points /\ now \in Nat /\ last_good[p] \in Nat
        /\ quality[p] = "good"
    BY DEF Inv, TypeOK, SweepOK, HealthyNow
  <2>2. /\ Gap \in Nat /\ MaxElapsed \in Nat /\ StaleFloor \in Nat /\ NPoints \in Nat \ {0}
        /\ Period[p] \in Nat
    BY <2>1, Numbers, PointsAssumption, WaitsAssumption
  <2>3. sweep \in Nat /\ NPoints * 3 * Gap = sweep + 3 * Gap
    BY <2>2
  <2>4. now <= last_good[p] + Period[p] + sweep + 2 * Gap
    BY DEF AgeIsWithinOneSweep
  <2>5. \/ Period[p] <= Gap + MaxElapsed
        \/ sweep + 2 * Gap <= 2 * Period[p]
    BY DEF Covered
  <2> HIDE DEF sweep
  <2>6. Period[p] + sweep + 2 * Gap <= custom_map_stale(p)
    BY <2>2, <2>3, <2>5 DEF custom_map_stale, AtLeast
  <2>7. custom_map_stale(p) \in Nat
    BY <2>1, Numbers
  <2>8. now - last_good[p] <= custom_map_stale(p)
    BY <2>1, <2>2, <2>3, <2>4, <2>6, <2>7
  <2> QED BY <2>1, <2>7, <2>8 DEF custom_poll_snapshot
<1> QED BY <1>1, InvIsInvariant, AgesAlwaysStayWithinOneSweep, PTL

-----------------------------------------------------------------------------
Good == {p \in Points : quality[p] = "good"}

\* A step of the poller is a step of the contract, or changes no quality.
LEMMA StepIsContractStep ==
  ASSUME Inv, [Next]_vars
  PROVE  [Contract!ContractStep]_(Contract!contractVars)
<1> USE DEF Contract!ContractStep, Contract!Distrust, Contract!ItemRead,
      Contract!ItemFaulted, Contract!contractVars
<1>1. quality \in [Points -> {"comm", "good", "unverified"}]
  BY DEF Inv, TypeOK
<1>2. CASE UNCHANGED quality
  <2>1. Good' = Good
    BY <1>2 DEF Good
  <2> QED BY <2>1 DEF Good
<1>3. CASE quality' = [p \in Points |-> "comm"]
  <2>1. Good' = {}
    BY <1>3 DEF Good
  <2> QED BY <2>1 DEF Good
<1>4. CASE Answer /\ request \in Points /\ quality' = [quality EXCEPT ![request] = "good"]
  <2>1. Good' = Good \cup {request}
    BY <1>1, <1>4 DEF Good
  <2> QED BY <1>4, <2>1 DEF Good
<1>5. ASSUME Answer, request \in Points, NEW q \in {"comm", "unverified"},
             quality' = [quality EXCEPT ![request] = q]
      PROVE  [Contract!ContractStep]_(Contract!contractVars)
  <2>1. Good' = Good \ {request}
    BY <1>1, <1>5 DEF Good
  <2> QED BY <1>5, <2>1 DEF Good
<1>6. Answer => request \in Points
  BY DEF Inv, TypeOK, Answer, Answered, Waiting, ReadValid, ReadInvalid, ReadRefused, NoAnswer
<1>7. \/ UNCHANGED quality
      \/ quality' = [p \in Points |-> "comm"]
      \/ Answer /\ quality' = [quality EXCEPT ![request] = "good"]
      \/ Answer /\ \E q \in {"comm", "unverified"} : quality' = [quality EXCEPT ![request] = q]
  BY DEF Next, Answer, Ask, Tick, NetworkChanged, ReadValid, ReadInvalid, ReadRefused,
    NoAnswer, ApplyValid, ApplyInvalid, custom_poll_offline, vars, values
<1> QED BY <1>2, <1>3, <1>4, <1>5, <1>6, <1>7

\* The poller of a custom map refines the contract of a polling engine
\* (custom_poll_step, custom_poll_offline).
THEOREM PollerImplementsContract == Spec => ImplementsContract
<1>1. Init => Contract!ContractInit
  BY DEF Init, Contract!ContractInit
<1>2. Inv /\ [Next]_vars => [Contract!ContractStep]_(Contract!contractVars)
  BY StepIsContractStep
<1> QED BY <1>1, <1>2, InvIsInvariant, PTL DEF Spec, ImplementsContract, Contract!ContractSpec
=============================================================================
