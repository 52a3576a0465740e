------------------------ MODULE ErrorHistory_proofs ------------------------
(***************************************************************************)
(* Proofs about ErrorHistory, for every ring capacity, flush interval and  *)
(* bound: the inductive invariant, and from it the safety properties and   *)
(* that the ring, its worker and the restarts implement HistoryLog.  Last, *)
(* what a log of HistoryLog promises by itself.                            *)
(***************************************************************************)
EXTENDS ErrorHistory, Integers, TLAPS

-----------------------------------------------------------------------------
\* Arithmetic of ring slots.  C is a capacity.

\* Division with remainder, as the ring uses it.
LEMMA DivMod ==
  ASSUME NEW C \in Nat \ {0}, NEW n \in Nat
  PROVE  /\ n % C \in 0..(C - 1)
         /\ n \div C \in Int
         /\ n = C * (n \div C) + (n % C)
  OBVIOUS

\* A positive multiple of the capacity is at least the capacity.
LEMMA AtLeastOneTurn ==
  ASSUME NEW C \in Nat \ {0}, NEW d \in Int, d >= 1
  PROVE  C * d >= C
  OBVIOUS

\* Quotient and remainder are unique.
LEMMA UniqueSlot ==
  ASSUME NEW C \in Nat \ {0}, NEW q \in Int, NEW p \in Int,
         NEW r \in 0..(C - 1), NEW s \in 0..(C - 1), C * q + r = C * p + s
  PROVE  r = s
<1>1. C * (q - p) = s - r /\ C * (p - q) = r - s
  OBVIOUS
<1>2. CASE q - p >= 1
  BY <1>1, <1>2, AtLeastOneTurn
<1>3. CASE p - q >= 1
  BY <1>1, <1>3, AtLeastOneTurn
<1>4. CASE q = p
  BY <1>4
<1>5. QED
  BY <1>2, <1>3, <1>4

\* Numbers a whole number of turns apart share a slot.
LEMMA SameSlot ==
  ASSUME NEW C \in Nat \ {0}, NEW m \in Nat, NEW n \in Nat, NEW k \in Int,
         m = n + C * k
  PROVE  m % C = n % C
<1>1. /\ m % C \in 0..(C - 1) /\ m \div C \in Int
      /\ m = C * (m \div C) + (m % C)
      /\ n % C \in 0..(C - 1) /\ n \div C \in Int
      /\ n = C * (n \div C) + (n % C)
  BY DivMod
<1>2. (n \div C) + k \in Int
  BY <1>1
<1>3. C * (m \div C) + (m % C) = C * ((n \div C) + k) + (n % C)
  BY <1>1
<1>4. QED
  BY <1>1, <1>2, <1>3, UniqueSlot

\* Advancing a slot index is taking the slot of the next number.
LEMMA NextSlot ==
  ASSUME NEW C \in Nat \ {0}, NEW n \in Nat
  PROVE  ((n % C) + 1) % C = (n + 1) % C
<1>1. n % C \in 0..(C - 1) /\ n \div C \in Int /\ n = C * (n \div C) + (n % C)
  BY DivMod
<1>2. (n % C) + 1 \in Nat /\ n + 1 \in Nat /\ -(n \div C) \in Int
  BY <1>1
<1>3. (n % C) + 1 = (n + 1) + C * (-(n \div C))
  BY <1>1
<1>4. QED
  BY <1>2, <1>3, SameSlot

\* Numbers less than one turn apart have different slots.
LEMMA DistinctSlots ==
  ASSUME NEW C \in Nat \ {0}, NEW m \in Nat, NEW n \in Nat, m < n, n < m + C
  PROVE  m % C # n % C
<1>1. SUFFICES ASSUME m % C = n % C
               PROVE  FALSE
  OBVIOUS
<1>2. /\ m \div C \in Int /\ m = C * (m \div C) + (m % C)
      /\ n \div C \in Int /\ n = C * (n \div C) + (n % C)
      /\ m % C \in Int
  BY DivMod
<1>3. C * ((n \div C) - (m \div C)) = n - m
  BY <1>1, <1>2
<1>4. CASE (n \div C) - (m \div C) >= 1
  BY <1>2, <1>3, <1>4, AtLeastOneTurn
<1>5. CASE (n \div C) - (m \div C) <= 0
  <2>1. C * ((n \div C) - (m \div C)) <= 0
    BY <1>2, <1>5
  <2>2. QED
    BY <1>3, <2>1
<1>6. QED
  BY <1>2, <1>4, <1>5

-----------------------------------------------------------------------------
\* The ring.

\* A slot index is a slot.
LEMMA SlotOfIsSlot ==
  ASSUME NEW s \in Nat \ {0}
  PROVE  SlotOf(s) \in Slots
<1>1. s - 1 \in Nat
  OBVIOUS
<1>2. QED
  BY <1>1, DivMod, CapacityAssumption DEF SlotOf, Slots

\* The empty ring is well typed and well shaped.
LEMMA ZeroBlobOK == ZeroBlob \in Blob /\ RingOK(ZeroBlob)
<1>1. ZeroBlob \in Blob
  BY CapacityAssumption, MaxBootIdAssumption, MaxErrorsAssumption
     DEF ZeroBlob, Blob, Event, Slots
<1>2. 0 % Capacity = 0
  BY CapacityAssumption
<1>3. RingOK(ZeroBlob)
  BY <1>2, CapacityAssumption, MaxErrorsAssumption
     DEF RingOK, ZeroBlob, Remembers
<1>4. QED
  BY <1>1, <1>3

\* Every blob continues the empty one and itself.
LEMMA ExtendsReflexive ==
  ASSUME NEW b \in Blob
  PROVE  Extends(ZeroBlob, b) /\ Extends(b, b)
BY CapacityAssumption, MaxErrorsAssumption, MaxBootIdAssumption
   DEF Extends, Remembers, ZeroBlob, Blob

\* What Recorded does to each field.
LEMMA RecordedFields ==
  ASSUME NEW b \in Blob
  PROVE  /\ Recorded(b).boot_id = b.boot_id
         /\ Recorded(b).total_errors = b.total_errors + 1
         /\ Recorded(b).next = (b.next + 1) % Capacity
         /\ Recorded(b).count = IF b.count < Capacity THEN b.count + 1
                                ELSE b.count
         /\ Recorded(b).events =
              [b.events EXCEPT ![b.next] = [sequence |-> b.total_errors + 1,
                                            boot_id |-> b.boot_id]]
BY DEF Recorded, Blob

\* Recording keeps the type.
LEMMA RecordedType ==
  ASSUME NEW b \in Blob, b.total_errors < MaxErrors
  PROVE  Recorded(b) \in Blob
<1>0. b.next + 1 \in Nat
  BY DEF Blob, Slots
<1>1. (b.next + 1) % Capacity \in Slots
  BY <1>0, DivMod, CapacityAssumption DEF Slots
<1>2. [sequence |-> b.total_errors + 1, boot_id |-> b.boot_id] \in Event
  BY MaxErrorsAssumption, MaxBootIdAssumption DEF Blob, Event
<1>3. [b.events EXCEPT ![b.next] = [sequence |-> b.total_errors + 1,
                                    boot_id |-> b.boot_id]] \in [Slots -> Event]
  BY <1>2 DEF Blob
<1>4. /\ b.total_errors + 1 \in 0..MaxErrors
      /\ (IF b.count < Capacity THEN b.count + 1 ELSE b.count) \in 0..Capacity
      /\ b.boot_id \in 0..MaxBootId
  BY CapacityAssumption, MaxErrorsAssumption DEF Blob
<1>5. QED
  BY <1>1, <1>3, <1>4 DEF Recorded, Blob

\* The slot a new error takes holds no error that is still remembered after.
LEMMA RecordedSlots ==
  ASSUME NEW b \in Blob, RingOK(b), b.total_errors < MaxErrors,
         NEW s \in 1..MaxErrors, Remembers(Recorded(b), s)
  PROVE  IF s = b.total_errors + 1
         THEN Recorded(b).events[SlotOf(s)] =
                [sequence |-> s, boot_id |-> b.boot_id]
         ELSE /\ Remembers(b, s)
              /\ Recorded(b).events[SlotOf(s)] = b.events[SlotOf(s)]
<1> DEFINE n == b.total_errors
           e == [sequence |-> n + 1, boot_id |-> b.boot_id]
<1>1. n \in Nat /\ b.next = n % Capacity /\ s \in Nat \ {0}
  BY MaxErrorsAssumption DEF Blob, RingOK
<1>2. b.next \in Slots /\ DOMAIN b.events = Slots /\ SlotOf(s) \in Slots
  BY <1>1, SlotOfIsSlot DEF Blob
<1>3. /\ Recorded(b).total_errors = n + 1
      /\ Recorded(b).events = [b.events EXCEPT ![b.next] = e]
  BY RecordedFields
<1>4. CASE s = n + 1
  <2>1. SlotOf(s) = b.next
    BY <1>1, <1>4 DEF SlotOf
  <2>2. QED
    BY <2>1, <1>2, <1>3, <1>4
<1>5. CASE s # n + 1
  <2>1. s < n + 1 /\ s + Capacity > n + 1
    BY <1>1, <1>3, <1>5, CapacityAssumption DEF Remembers
  <2>2. s - 1 \in Nat /\ s - 1 < n /\ n < (s - 1) + Capacity
    BY <1>1, <2>1, CapacityAssumption
  <2>3. SlotOf(s) # b.next
    BY <1>1, <2>2, DistinctSlots, CapacityAssumption DEF SlotOf
  <2>4. Remembers(b, s)
    BY <1>1, <2>1, CapacityAssumption DEF Remembers
  <2>5. QED
    BY <1>2, <1>3, <1>5, <2>3, <2>4
<1>6. QED
  BY <1>4, <1>5

\* Recording keeps the shape of the ring.
LEMMA RecordedRing ==
  ASSUME NEW b \in Blob, RingOK(b), b.total_errors < MaxErrors,
         b.boot_id \in 1..MaxBootId
  PROVE  RingOK(Recorded(b))
<1>1. b.total_errors \in Nat
  BY MaxErrorsAssumption DEF Blob
<1>2. /\ Recorded(b).boot_id = b.boot_id
      /\ Recorded(b).total_errors = b.total_errors + 1
      /\ Recorded(b).next = (b.next + 1) % Capacity
      /\ Recorded(b).count = IF b.count < Capacity THEN b.count + 1
                             ELSE b.count
  BY RecordedFields
<1>3. Recorded(b).count = IF Recorded(b).total_errors < Capacity
                          THEN Recorded(b).total_errors ELSE Capacity
  BY <1>1, <1>2, CapacityAssumption DEF RingOK
<1>4. Recorded(b).next = Recorded(b).total_errors % Capacity
  BY <1>1, <1>2, NextSlot, CapacityAssumption DEF RingOK
<1>5. ASSUME NEW s \in 1..MaxErrors, Remembers(Recorded(b), s)
      PROVE  /\ Recorded(b).events[SlotOf(s)].sequence = s
             /\ Recorded(b).events[SlotOf(s)].boot_id \in 1..Recorded(b).boot_id
  <2>1. CASE s = b.total_errors + 1
    <3>1. Recorded(b).events[SlotOf(s)] = [sequence |-> s, boot_id |-> b.boot_id]
      BY <1>5, <2>1, RecordedSlots
    <3>2. b.boot_id \in 1..b.boot_id
      BY MaxBootIdAssumption
    <3>3. QED
      BY <1>2, <3>1, <3>2
  <2>2. CASE s # b.total_errors + 1
    <3>1. /\ Remembers(b, s)
          /\ Recorded(b).events[SlotOf(s)] = b.events[SlotOf(s)]
      BY <1>5, <2>2, RecordedSlots
    <3>2. QED
      BY <1>2, <3>1 DEF RingOK
  <2>3. QED
    BY <2>1, <2>2
<1>6. QED
  BY <1>3, <1>4, <1>5 DEF RingOK

\* What continues into a ring continues into it after one more error.
LEMMA RecordedExtends ==
  ASSUME NEW a \in Blob, NEW b \in Blob, RingOK(b),
         b.total_errors < MaxErrors, Extends(a, b)
  PROVE  Extends(a, Recorded(b))
<1>1. /\ a.total_errors \in Nat /\ b.total_errors \in Nat
      /\ a.total_errors <= b.total_errors /\ a.boot_id <= b.boot_id
  BY MaxErrorsAssumption DEF Blob, Extends
<1>2. ASSUME NEW s \in 1..MaxErrors, Remembers(a, s), Remembers(Recorded(b), s)
      PROVE  a.events[SlotOf(s)] = Recorded(b).events[SlotOf(s)]
  <2>1. s # b.total_errors + 1
    BY <1>1, <1>2 DEF Remembers
  <2>2. /\ Remembers(b, s)
        /\ Recorded(b).events[SlotOf(s)] = b.events[SlotOf(s)]
    BY <1>2, <2>1, RecordedSlots
  <2>3. QED
    BY <1>2, <2>2 DEF Extends
<1>3. Recorded(b).boot_id = b.boot_id
      /\ Recorded(b).total_errors = b.total_errors + 1
  BY RecordedFields
<1>4. a.total_errors <= Recorded(b).total_errors
      /\ a.boot_id <= Recorded(b).boot_id
  BY <1>1, <1>3
<1>5. QED
  BY <1>2, <1>4 DEF Extends

\* A well-shaped ring passes the check of the next boot.
LEMMA RingIsValid ==
  ASSUME NEW b \in Blob, RingOK(b)
  PROVE  valid_blob(b)
<1> DEFINE n == b.total_errors
<1>1. /\ n \in 0..MaxErrors /\ b.next = n % Capacity
      /\ b.count = IF n < Capacity THEN n ELSE Capacity
  BY DEF Blob, RingOK
<1>2. ASSUME NEW age \in 0..(b.count - 1)
      PROVE  /\ EventAt(b, age).sequence = n - age
             /\ EventAt(b, age).boot_id \in 1..b.boot_id
  <2> DEFINE m == b.next + Capacity - 1 - age
  <2>1. /\ age \in Nat /\ age < n /\ age < Capacity
        /\ n \in Nat /\ n <= MaxErrors /\ Capacity \in Nat \ {0}
    BY <1>1, CapacityAssumption, MaxErrorsAssumption
  <2>2. /\ b.next \in Nat /\ n \div Capacity \in Int
        /\ n = Capacity * (n \div Capacity) + b.next
    <3>1. /\ n % Capacity \in 0..(Capacity - 1) /\ n \div Capacity \in Int
          /\ n = Capacity * (n \div Capacity) + (n % Capacity)
      BY <2>1, DivMod
    <3>2. QED
      BY <1>1, <2>1, <3>1
  <2>3. m \in Nat /\ (n - age) - 1 \in Nat /\ 1 - (n \div Capacity) \in Int
    BY <2>1, <2>2
  <2>4. Capacity * (1 - (n \div Capacity)) =
          Capacity - Capacity * (n \div Capacity)
    BY <2>1, <2>2
  <2>5. m = ((n - age) - 1) + Capacity * (1 - (n \div Capacity))
    BY <2>1, <2>2, <2>4
  <2> HIDE DEF m
  <2>6. m % Capacity = SlotOf(n - age)
    BY <2>3, <2>5, SameSlot, CapacityAssumption DEF SlotOf
  <2>7. (n - age) \in 1..MaxErrors /\ Remembers(b, n - age)
    BY <2>1, MaxErrorsAssumption DEF Remembers
  <2>8. EventAt(b, age) = b.events[SlotOf(n - age)]
    BY <2>6 DEF EventAt, m
  <2>9. QED
    BY <2>7, <2>8 DEF RingOK
<1>3. QED
  BY <1>1, <1>2 DEF valid_blob

-----------------------------------------------------------------------------
\* The inductive invariant.

\* A device that was never powered satisfies the invariant.
LEMMA InitInv == Init => Inv
<1> SUFFICES ASSUME Init
             PROVE  Inv
  OBVIOUS
<1> USE ZeroBlobOK
<1>1. ZeroBlob.boot_id = 0
  BY DEF ZeroBlob
<1>2. TypeOK
  <2>1. flash \in Flash
    BY DEF Init, Flash
  <2>2. FlushInterval \in 0..FlushInterval /\ 0 \in Nat
    BY FlushIntervalAssumption
  <2>3. QED
    BY <2>1, <2>2 DEF Init, TypeOK
<1>3. RingsOK
  BY DEF Init, RingsOK
<1>4. ProtocolOK
  BY DEF Init, ProtocolOK, Flushing
<1>5. NothingDirtyIsForgotten
  BY DEF Init, NothingDirtyIsForgotten
<1>6. QED
  BY <1>2, <1>3, <1>4, <1>5 DEF Inv

\* error_history_init without a mutex.
LEMMA BootWithoutLockInv == Inv /\ BootWithoutLock => Inv'
BY DEF Inv, BootWithoutLock, TypeOK, RingsOK, ProtocolOK, Flushing,
       NothingDirtyIsForgotten, flushVars

\* Another boot number disturbs neither the ring nor what it continues.
LEMMA NextBoot ==
  ASSUME NEW b \in Blob, RingOK(b), b.boot_id # MaxBootId,
         NEW c, c = [b EXCEPT !.boot_id = @ + 1]
  PROVE  /\ c \in Blob /\ RingOK(c) /\ Extends(b, c)
         /\ c.boot_id \in 1..MaxBootId
<1>1. /\ c.boot_id = b.boot_id + 1 /\ c.count = b.count /\ c.next = b.next
      /\ c.total_errors = b.total_errors /\ c.events = b.events
  BY DEF Blob
<1>2. b.boot_id \in Nat /\ b.boot_id + 1 \in 1..MaxBootId
  BY MaxBootIdAssumption DEF Blob
<1>3. c \in Blob
  BY <1>2, MaxBootIdAssumption DEF Blob
<1>4. \A s \in 1..MaxErrors : Remembers(c, s) <=> Remembers(b, s)
  BY <1>1 DEF Remembers
<1>5. RingOK(c)
  BY <1>1, <1>2, <1>4 DEF RingOK
<1>6. Extends(b, c)
  BY <1>1, <1>2, <1>4, MaxErrorsAssumption DEF Extends, Blob
<1>7. QED
  BY <1>1, <1>2, <1>3, <1>5, <1>6

\* error_history_init: whatever was loaded, the ring continues it.
LEMMA BootInv == Inv /\ Boot => Inv'
<1> SUFFICES ASSUME Inv, Boot
             PROVE  Inv'
  OBVIOUS
<1>1. PICK load \in LoadResults, started \in BOOLEAN :
        LET exhausted == load.blob.boot_id = MaxBootId
            runs == load.writable /\ ~exhausted /\ started
        IN /\ blob' = IF exhausted THEN load.blob
                      ELSE [load.blob EXCEPT !.boot_id = @ + 1]
           /\ writable' = runs
           /\ persistence_error' = ~runs
           /\ worker' = IF runs THEN "idle" ELSE "none"
  BY DEF Boot
<1> DEFINE b == load.blob
<1>2. /\ lock' = TRUE /\ generation' = generation + 1
      /\ UNCHANGED <<flash, saved_generation, attempted, waited, snapshot,
                     snapshot_generation>>
      /\ worker = "off"
  BY DEF Boot, flushVars
<1>3. /\ TypeOK /\ RingsOK /\ generation = 0 /\ saved_generation = 0
      /\ flash.blob \in Blob
  BY <1>2 DEF Inv, ProtocolOK, TypeOK, Flash
<1>4. /\ b \in Blob /\ RingOK(b) /\ load.writable \in BOOLEAN
      /\ load.writable => flash.status # "foreign" /\ b = flash.blob
  <2>1. \/ load = [blob |-> ZeroBlob, writable |-> FALSE]
        \/ /\ flash.status = "absent"
           /\ load = [blob |-> ZeroBlob, writable |-> TRUE]
        \/ /\ flash.status = "stored"
           /\ load = [blob |-> flash.blob, writable |-> TRUE]
    BY DEF LoadResults
  <2>2. RingOK(flash.blob) /\ (flash.status = "absent" => flash.blob = ZeroBlob)
    BY <1>3 DEF RingsOK
  <2>3. CASE load = [blob |-> ZeroBlob, writable |-> FALSE]
    BY <2>3, ZeroBlobOK
  <2>4. CASE /\ flash.status = "absent"
             /\ load = [blob |-> ZeroBlob, writable |-> TRUE]
    BY <2>2, <2>4, ZeroBlobOK
  <2>5. CASE /\ flash.status = "stored"
             /\ load = [blob |-> flash.blob, writable |-> TRUE]
    BY <1>3, <2>2, <2>5
  <2>6. QED
    BY <2>1, <2>3, <2>4, <2>5
<1>5. /\ blob' \in Blob /\ RingOK(blob') /\ Extends(b, blob')
      /\ blob'.boot_id \in 1..MaxBootId
  <2>1. CASE b.boot_id = MaxBootId
    BY <1>1, <1>4, <2>1, ExtendsReflexive, MaxBootIdAssumption
  <2>2. CASE b.boot_id # MaxBootId
    <3>1. blob' = [b EXCEPT !.boot_id = @ + 1]
      BY <1>1, <2>2
    <3>2. QED
      BY <1>4, <2>2, <3>1, NextBoot
  <2>3. QED
    BY <2>1, <2>2
<1>6. /\ writable' \in BOOLEAN /\ persistence_error' \in BOOLEAN
      /\ worker' = IF writable' THEN "idle" ELSE "none"
      /\ writable' => flash.status # "foreign" /\ Extends(flash.blob, blob')
  BY <1>1, <1>4, <1>5
<1>7. TypeOK'
  BY <1>2, <1>3, <1>5, <1>6 DEF TypeOK
<1>8. RingsOK'
  BY <1>2, <1>3, <1>5 DEF RingsOK
<1>9. ProtocolOK'
  BY <1>2, <1>3, <1>6 DEF ProtocolOK, Flushing
<1>10. NothingDirtyIsForgotten'
  BY <1>2, <1>3 DEF NothingDirtyIsForgotten
<1>11. QED
  BY <1>7, <1>8, <1>9, <1>10 DEF Inv

\* error_history_record, also while a snapshot is being written.
LEMMA RecordInv == Inv /\ Record => Inv'
<1> SUFFICES ASSUME Inv, Record
             PROVE  Inv'
  OBVIOUS
<1>1. /\ lock /\ blob.total_errors < MaxErrors /\ blob' = Recorded(blob)
      /\ generation' = generation + 1 /\ worker # "off"
      /\ UNCHANGED <<flash, lock, writable, saved_generation,
                     persistence_error, worker, attempted, waited, snapshot,
                     snapshot_generation>>
  BY DEF Record, flushVars
<1>2. /\ blob \in Blob /\ snapshot \in Blob /\ flash.blob \in Blob
      /\ generation \in Nat /\ saved_generation \in Nat
      /\ snapshot_generation \in Nat
      /\ RingOK(blob) /\ blob.boot_id \in 1..MaxBootId
  BY <1>1 DEF Inv, TypeOK, Flash, RingsOK
<1>3. /\ blob' \in Blob /\ RingOK(blob') /\ blob'.boot_id = blob.boot_id
  BY <1>1, <1>2, RecordedType, RecordedRing, RecordedFields
<1>4. /\ Extends(snapshot, blob) => Extends(snapshot, blob')
      /\ Extends(flash.blob, blob) => Extends(flash.blob, blob')
  BY <1>1, <1>2, RecordedExtends
<1>5. TypeOK'
  BY <1>1, <1>2, <1>3 DEF Inv, TypeOK
<1>6. RingsOK'
  BY <1>1, <1>2, <1>3 DEF Inv, RingsOK
<1>7. ProtocolOK'
  BY <1>1, <1>2, <1>4 DEF Inv, ProtocolOK, Flushing
<1>8. NothingDirtyIsForgotten'
  BY <1>1, <1>2 DEF Inv, ProtocolOK, NothingDirtyIsForgotten
<1>9. QED
  BY <1>5, <1>6, <1>7, <1>8 DEF Inv

\* The sections of flush_pending.
LEMMA WorkerInv == Inv /\ Worker => Inv'
<1> SUFFICES ASSUME Inv, Worker
             PROVE  Inv'
  OBVIOUS
<1>1. CASE FlushBegin
  BY <1>1, FlushIntervalAssumption
     DEF FlushBegin, FlushDue, Inv, TypeOK, RingsOK, ProtocolOK, Flushing,
         NothingDirtyIsForgotten
<1>2. CASE FlushAllocFails
  BY <1>2 DEF FlushAllocFails, Inv, TypeOK, RingsOK, ProtocolOK, Flushing,
              NothingDirtyIsForgotten, flushVars
<1>3. CASE FlushCopy
  <2>1. Extends(blob, blob)
    BY ExtendsReflexive DEF Inv, TypeOK
  <2>2. QED
    BY <1>3, <2>1 DEF FlushCopy, Inv, TypeOK, RingsOK, ProtocolOK, Flushing,
                      NothingDirtyIsForgotten
<1>4. CASE FlushWrite
  <2>1. /\ worker = "write" /\ worker' \in {"saved", "failed"}
        /\ \/ flash' = [status |-> "stored", blob |-> snapshot]
           \/ flash' = flash /\ worker' = "failed"
        /\ UNCHANGED <<blob, lock, writable, generation, saved_generation,
                       persistence_error, attempted, waited, snapshot,
                       snapshot_generation>>
    BY <1>4 DEF FlushWrite, flushVars
  <2>2. TypeOK'
    BY <2>1 DEF Inv, TypeOK, Flash
  <2>3. RingsOK'
    BY <2>1 DEF Inv, RingsOK
  <2>4. ProtocolOK'
    BY <2>1 DEF Inv, ProtocolOK, Flushing
  <2>5. NothingDirtyIsForgotten'
    BY <2>1 DEF Inv, TypeOK, ProtocolOK, Flushing, NothingDirtyIsForgotten
  <2>6. QED
    BY <2>2, <2>3, <2>4, <2>5 DEF Inv
<1>5. CASE FlushEnd
  <2>1. /\ worker \in {"saved", "failed"} /\ worker' = "idle"
        /\ saved_generation' = IF worker = "saved" THEN snapshot_generation
                               ELSE saved_generation
        /\ persistence_error' = (worker = "failed")
        /\ snapshot' = ZeroBlob /\ snapshot_generation' = 0
        /\ UNCHANGED <<flash, blob, lock, writable, generation, attempted,
                       waited>>
    BY <1>5 DEF FlushEnd, Acknowledged
  <2>2. TypeOK'
    BY <2>1, ZeroBlobOK DEF Inv, TypeOK
  <2>3. RingsOK'
    BY <2>1, ZeroBlobOK DEF Inv, RingsOK
  <2>4. ProtocolOK'
    BY <2>1 DEF Inv, ProtocolOK, Flushing
  <2>5. NothingDirtyIsForgotten'
    BY <2>1 DEF Inv, TypeOK, ProtocolOK, Flushing, NothingDirtyIsForgotten
  <2>6. QED
    BY <2>2, <2>3, <2>4, <2>5 DEF Inv
<1>6. QED
  BY <1>1, <1>2, <1>3, <1>4, <1>5 DEF Worker

\* The clock.
LEMMA TickInv == Inv /\ Tick => Inv'
BY FlushIntervalAssumption
   DEF Inv, Tick, TypeOK, RingsOK, ProtocolOK, Flushing,
       NothingDirtyIsForgotten

\* Power loss at any point of any of the above.
LEMMA CrashInv == Inv /\ Crash => Inv'
<1> SUFFICES ASSUME Inv, Crash
             PROVE  Inv'
  OBVIOUS
<1>1. /\ worker' = "off" /\ writable' = FALSE /\ lock' = FALSE
      /\ blob' = ZeroBlob /\ snapshot' = ZeroBlob /\ flash' = flash
      /\ generation' = 0 /\ saved_generation' = 0 /\ snapshot_generation' = 0
      /\ waited' = FlushInterval /\ attempted' = FALSE
      /\ persistence_error' = FALSE
  BY DEF Crash
<1>2. TypeOK'
  <2>1. FlushInterval \in 0..FlushInterval /\ 0 \in Nat
    BY FlushIntervalAssumption
  <2>2. QED
    BY <1>1, <2>1, ZeroBlobOK DEF Inv, TypeOK
<1>2a. RingsOK'
  BY <1>1, ZeroBlobOK DEF Inv, RingsOK
<1>3. ProtocolOK' /\ NothingDirtyIsForgotten'
  BY <1>1 DEF ProtocolOK, Flushing, NothingDirtyIsForgotten
<1>4. QED
  BY <1>2, <1>2a, <1>3 DEF Inv

\* Every step preserves the invariant.
LEMMA NextInv == Inv /\ [Next]_vars => Inv'
<1>1. Inv /\ UNCHANGED vars => Inv'
  BY DEF vars, ram, Inv, TypeOK, RingsOK, ProtocolOK, Flushing,
         NothingDirtyIsForgotten
<1>2. QED
  BY <1>1, BootWithoutLockInv, BootInv, RecordInv, WorkerInv, TickInv, CrashInv
     DEF Next

\* The inductive invariant holds in every reachable state: rings are well
\* shaped, and the worker's copy, the flash and the ring continue each other.
THEOREM InvIsInvariant == Spec => []Inv
BY InitInv, NextInv, PTL DEF Spec

-----------------------------------------------------------------------------
\* error_history.c:165: the boot never rejects a blob this code has written.
THEOREM OwnHistoryIsAccepted == Spec => []OwnHistoryAccepted
<1>1. Inv => OwnHistoryAccepted
  BY RingIsValid DEF Inv, TypeOK, Flash, RingsOK, OwnHistoryAccepted
<1>2. QED
  BY <1>1, InvIsInvariant, PTL

\* error_history.c:88-89: when the counters agree the flash holds the ring,
\* whatever was recorded while a snapshot was written.
THEOREM NothingDirtyIsEverForgotten == Spec => []NothingDirtyIsForgotten
<1>1. Inv => NothingDirtyIsForgotten
  BY DEF Inv
<1>2. QED
  BY <1>1, InvIsInvariant, PTL

\* error_history.h:20-23: stored history is only ever continued, and
\* unreadable history is left alone, over restarts and failed writes.
THEOREM StoredHistoryIsAlwaysKept == Spec => StoredHistoryIsKept
<1> DEFINE Kept == /\ flash.status = "foreign" => flash' = flash
                   /\ flash.status = "stored" =>
                        /\ flash'.status = "stored"
                        /\ Extends(flash.blob, flash'.blob)
<1>1. Inv /\ [Next]_vars => [Kept]_vars
  <2> SUFFICES ASSUME Inv, Next
               PROVE  Kept
    BY DEF vars, ram
  <2>1. Extends(flash.blob, flash.blob)
    BY ExtendsReflexive DEF Inv, TypeOK, Flash
  <2>2. CASE FlushWrite
    BY <2>1, <2>2 DEF FlushWrite, Inv, ProtocolOK
  <2>3. CASE ~FlushWrite
    <3>1. flash' = flash
      BY <2>3 DEF Next, BootWithoutLock, Boot, Record, Worker, FlushBegin,
                  FlushAllocFails, FlushCopy, FlushEnd, Tick, Crash
    <3>2. QED
      BY <2>1, <3>1
  <2>4. QED
    BY <2>2, <2>3
<1>2. QED
  BY <1>1, InvIsInvariant, PTL DEF Spec, StoredHistoryIsKept
-----------------------------------------------------------------------------
\* The ring as a log.

\* What is staged and what a restart would find, as Log is instantiated.
Staged == IF worker \in {"write", "saved", "failed"} THEN LogOf(snapshot)
          ELSE [total |-> 0, unreadable |-> TRUE]
Stable == IF flash.status = "foreign" THEN [total |-> 0, unreadable |-> TRUE]
          ELSE LogOf(flash.blob)

\* The errors that a ring remembers are the window of its log.
LEMMA LogFields ==
  ASSUME NEW b \in Blob
  PROVE  /\ LogOf(b).total = b.total_errors
         /\ LogOf(b).bootOf = [s \in Log!Window(b.total_errors) |->
                                 b.events[SlotOf(s)].boot_id]
         /\ LogOf(b) = [total |-> LogOf(b).total, bootOf |-> LogOf(b).bootOf]
<1>1. {t \in 1..b.total_errors : Remembers(b, t)} = Log!Window(b.total_errors)
  BY DEF Remembers, Log!Window
<1>2. LogOf(b) = [total  |-> b.total_errors,
                  bootOf |-> [s \in Log!Window(b.total_errors) |->
                                b.events[SlotOf(s)].boot_id]]
  BY <1>1 DEF LogOf
<1> QED BY <1>2

\* A log that can be read is none that cannot.
LEMMA LogIsReadable ==
  ASSUME NEW b
  PROVE  LogOf(b) # Log!NoLog
<1>1. "bootOf" \in DOMAIN LogOf(b)
  BY DEF LogOf
<1>2. "bootOf" \notin DOMAIN Log!NoLog
  BY DEF Log!NoLog
<1> QED BY <1>1, <1>2

\* The empty ring is the empty log.
LEMMA ZeroIsEmptyLog == LogOf(ZeroBlob) = Log!EmptyLog
<1>1. LogOf(ZeroBlob).total = 0 /\ ZeroBlob.total_errors = 0
  BY DEF LogOf, ZeroBlob
<1>2. Log!Window(0) = {}
  BY DEF Log!Window
<1>3. LogOf(ZeroBlob).bootOf = [s \in {} |-> ZeroBlob.events[SlotOf(s)].boot_id]
  BY <1>1, <1>2, ZeroBlobOK, LogFields
<1>4. LogOf(ZeroBlob).bootOf = [s \in {} |-> 0]
  BY <1>3
<1> QED BY <1>1, <1>4, ZeroBlobOK, LogFields DEF Log!EmptyLog

\* The number of the boot that owns a ring is no part of its log.
LEMMA LogOfNextBoot ==
  ASSUME NEW b \in Blob, NEW c, c = [b EXCEPT !.boot_id = @ + 1]
  PROVE  LogOf(c) = LogOf(b)
<1>1. c.total_errors = b.total_errors /\ c.events = b.events
  BY DEF Blob
<1> QED BY <1>1 DEF LogOf, Remembers

\* Recording an error appends it to the log, under the number of this boot.
LEMMA RecordedAppends ==
  ASSUME NEW b \in Blob, RingOK(b), b.total_errors < MaxErrors
  PROVE  LogOf(Recorded(b)) = Log!Extend(LogOf(b), b.boot_id)
<1> DEFINE n == b.total_errors
           r == Recorded(b)
           Next1(s) == IF s = n + 1 THEN b.boot_id ELSE LogOf(b).bootOf[s]
<1>1. n \in Nat /\ n < MaxErrors /\ MaxErrors \in Nat
  BY MaxErrorsAssumption DEF Blob
<1>2. r \in Blob /\ r.total_errors = n + 1
  BY RecordedType, RecordedFields
<1>3. LogOf(r) = [total |-> n + 1,
                  bootOf |-> [s \in Log!Window(n + 1) |-> r.events[SlotOf(s)].boot_id]]
  BY <1>2, LogFields
<1>4. Log!Extend(LogOf(b), b.boot_id) =
        [total |-> n + 1, bootOf |-> [s \in Log!Window(n + 1) |-> Next1(s)]]
  BY LogFields DEF Log!Extend
<1>5. ASSUME NEW s \in Log!Window(n + 1)
      PROVE  r.events[SlotOf(s)].boot_id = Next1(s)
  <2>1. s \in 1..MaxErrors /\ Remembers(r, s)
    BY <1>1, <1>2 DEF Log!Window, Remembers
  <2>2. CASE s = n + 1
    <3>1. r.events[SlotOf(s)] = [sequence |-> s, boot_id |-> b.boot_id]
      BY <2>1, <2>2, RecordedSlots
    <3> QED BY <2>2, <3>1
  <2>3. CASE s # n + 1
    <3>1. Remembers(b, s) /\ r.events[SlotOf(s)] = b.events[SlotOf(s)]
      BY <2>1, <2>3, RecordedSlots
    <3>2. s \in Log!Window(n)
      BY <3>1 DEF Remembers, Log!Window
    <3>3. LogOf(b).bootOf[s] = b.events[SlotOf(s)].boot_id
      BY <3>2, LogFields
    <3> QED BY <2>3, <3>1, <3>3
  <2> QED BY <2>2, <2>3
<1>6. [s \in Log!Window(n + 1) |-> r.events[SlotOf(s)].boot_id] =
        [s \in Log!Window(n + 1) |-> Next1(s)]
  <2> HIDE DEF r, Next1
  <2> QED BY <1>5
<1> QED BY <1>3, <1>4, <1>6

-----------------------------------------------------------------------------
\* Each step of the device is a step of the log, or none.

\* error_history_record
LEMMA RecordIsAppend == Inv /\ Record => Log!LogAppend
<1> SUFFICES ASSUME Inv, Record
             PROVE  Log!LogAppend
  OBVIOUS
<1>1. /\ lock /\ blob.total_errors < MaxErrors /\ blob' = Recorded(blob)
      /\ UNCHANGED <<flash, writable, worker, snapshot>>
  BY DEF Record, flushVars
<1>2. /\ blob \in Blob /\ RingOK(blob) /\ blob.boot_id \in 1..MaxBootId
      /\ blob.total_errors \in Nat /\ MaxErrors \in Nat
  BY <1>1, MaxErrorsAssumption DEF Inv, TypeOK, RingsOK, Blob
<1>3. ASSUME NEW s \in Log!Window(LogOf(blob).total)
      PROVE  LogOf(blob).bootOf[s] <= blob.boot_id
  <2>1. s \in Log!Window(blob.total_errors)
    BY <1>2, <1>3, LogFields
  <2>2. s \in 1..MaxErrors /\ Remembers(blob, s)
    BY <1>1, <1>2, <2>1 DEF Log!Window, Remembers
  <2>3. LogOf(blob).bootOf[s] = blob.events[SlotOf(s)].boot_id
    BY <1>2, <2>1, LogFields
  <2>4. blob.events[SlotOf(s)].boot_id \in 1..blob.boot_id
    BY <1>2, <2>2 DEF RingOK
  <2> QED BY <1>2, <2>3, <2>4
<1>4. LogOf(blob)' = Log!Extend(LogOf(blob), blob.boot_id)
  <2>1. LogOf(blob)' = LogOf(blob')
    BY DEF LogOf, Remembers
  <2> QED BY <1>1, <1>2, <2>1, RecordedAppends
<1>5. UNCHANGED <<Staged, Stable, writable>>
  BY <1>1 DEF Staged, Stable, LogOf, Remembers
<1> QED BY <1>2, <1>3, <1>4, <1>5 DEF Log!LogAppend, Staged, Stable

\* error_history_init finds the stored log, or starts from none and leaves the
\* stored one alone.
LEMMA BootIsRestart == Inv /\ Boot => Log!LogRestart
<1> SUFFICES ASSUME Inv, Boot
             PROVE  Log!LogRestart
  OBVIOUS
<1>1. PICK load \in LoadResults, started \in BOOLEAN :
        LET exhausted == load.blob.boot_id = MaxBootId
            runs == load.writable /\ ~exhausted /\ started
        IN /\ blob' = IF exhausted THEN load.blob
                      ELSE [load.blob EXCEPT !.boot_id = @ + 1]
           /\ writable' = runs
           /\ worker' = IF runs THEN "idle" ELSE "none"
  BY DEF Boot
<1>2. flash' = flash /\ flash.blob \in Blob
  BY DEF Boot, Inv, TypeOK, Flash
<1>3. /\ load.blob \in Blob /\ load.writable \in BOOLEAN
      /\ LogOf(load.blob) \in {Log!EmptyLog, Stable}
      /\ load.writable => LogOf(load.blob) = Stable
  <2>1. \/ load = [blob |-> ZeroBlob, writable |-> FALSE]
        \/ /\ flash.status = "absent"
           /\ load = [blob |-> ZeroBlob, writable |-> TRUE]
        \/ /\ flash.status = "stored"
           /\ load = [blob |-> flash.blob, writable |-> TRUE]
    BY DEF LoadResults
  <2>2. flash.status = "absent" => flash.blob = ZeroBlob
    BY DEF Inv, RingsOK
  <2>3. CASE load = [blob |-> ZeroBlob, writable |-> FALSE]
    BY <2>3, ZeroBlobOK, ZeroIsEmptyLog
  <2>4. CASE /\ flash.status = "absent"
             /\ load = [blob |-> ZeroBlob, writable |-> TRUE]
    BY <2>2, <2>4, ZeroBlobOK DEF Stable
  <2>5. CASE /\ flash.status = "stored"
             /\ load = [blob |-> flash.blob, writable |-> TRUE]
    BY <1>2, <2>5 DEF Stable
  <2> QED BY <2>1, <2>3, <2>4, <2>5
<1>4. LogOf(blob') = LogOf(load.blob)
  <2>1. CASE load.blob.boot_id = MaxBootId
    BY <1>1, <2>1
  <2>2. CASE load.blob.boot_id # MaxBootId
    <3>1. blob' = [load.blob EXCEPT !.boot_id = @ + 1]
      BY <1>1, <2>2
    <3> QED BY <1>3, <3>1, LogOfNextBoot
  <2> QED BY <2>1, <2>2
<1>5. LogOf(blob)' = LogOf(blob') /\ Stable' = Stable
  BY <1>2 DEF LogOf, Remembers, Stable
<1>6. Staged' = Log!NoLog
  BY <1>1 DEF Staged, Log!NoLog
<1>7. writable' \in BOOLEAN /\ (writable' => LogOf(blob') = Stable)
  BY <1>1, <1>3, <1>4
<1>8. LogOf(blob)' \in {Log!EmptyLog, Stable} \ {Log!NoLog}
  BY <1>3, <1>4, <1>5, LogIsReadable
<1> QED BY <1>5, <1>6, <1>7, <1>8 DEF Log!LogRestart, Staged, Stable

\* Without power there is no ring, and nothing may be stored until the next boot.
LEMMA CrashIsRestart == Inv /\ Crash => Log!LogRestart
<1> SUFFICES ASSUME Inv, Crash
             PROVE  Log!LogRestart
  OBVIOUS
<1>1. blob' = ZeroBlob /\ writable' = FALSE /\ worker' = "off" /\ flash' = flash
  BY DEF Crash
<1>2. LogOf(blob)' = Log!EmptyLog
  <2>1. LogOf(blob)' = LogOf(blob')
    BY DEF LogOf, Remembers
  <2> QED BY <1>1, <2>1, ZeroIsEmptyLog
<1>3. Log!EmptyLog # Log!NoLog
  BY ZeroIsEmptyLog, LogIsReadable
<1>4. Staged' = Log!NoLog /\ Stable' = Stable
  BY <1>1 DEF Staged, Stable, LogOf, Remembers, Log!NoLog
<1> QED BY <1>1, <1>2, <1>3, <1>4 DEF Log!LogRestart, Staged, Stable

\* flush_pending stages the ring, stores what it staged, and gives it up.
LEMMA WorkerIsLogStep ==
  Inv /\ Worker => Log!LogStage \/ Log!LogStore \/ Log!LogDiscard \/ UNCHANGED Log!logVars
<1> SUFFICES ASSUME Inv, Worker
             PROVE  Log!LogStage \/ Log!LogStore \/ Log!LogDiscard \/ UNCHANGED Log!logVars
  OBVIOUS
<1>1. writable <=> worker \notin {"off", "none"}
  BY DEF Inv, ProtocolOK
<1>2. CASE FlushBegin \/ FlushAllocFails
  <2>1. /\ UNCHANGED <<flash, blob, writable, snapshot>>
        /\ worker \in {"idle", "alloc"} /\ worker' \in {"idle", "alloc"}
    BY <1>2 DEF FlushBegin, FlushAllocFails, flushVars
  <2>2. UNCHANGED <<LogOf(blob), Staged, Stable, writable>>
    BY <2>1 DEF LogOf, Remembers, Staged, Stable
  <2> QED BY <2>2 DEF Log!logVars, Staged, Stable
<1>3. CASE FlushCopy
  <2>1. /\ writable /\ worker' = "write" /\ snapshot' = blob
        /\ UNCHANGED <<flash, blob, writable>>
    BY <1>1, <1>3 DEF FlushCopy
  <2>2. Staged' = LogOf(blob) /\ UNCHANGED <<LogOf(blob), Stable, writable>>
    BY <2>1 DEF LogOf, Remembers, Staged, Stable
  <2> QED BY <2>1, <2>2 DEF Log!LogStage, Staged, Stable
<1>4. CASE FlushWrite
  <2>1. /\ writable /\ worker = "write" /\ worker' \in {"saved", "failed"}
        /\ \/ flash' = [status |-> "stored", blob |-> snapshot]
           \/ flash' = flash
        /\ UNCHANGED <<blob, writable, snapshot>>
    BY <1>1, <1>4 DEF FlushWrite, flushVars
  <2>2. UNCHANGED <<LogOf(blob), Staged, writable>> /\ Staged = LogOf(snapshot)
    BY <2>1 DEF LogOf, Remembers, Staged
  <2>3. Stable' = Staged \/ Stable' = Stable
    BY <2>1 DEF LogOf, Remembers, Staged, Stable
  <2>4. Staged # Log!NoLog
    BY <2>2, LogIsReadable
  <2> QED BY <2>1, <2>2, <2>3, <2>4 DEF Log!LogStore, Log!logVars, Staged, Stable
<1>5. CASE FlushEnd
  <2>1. worker' = "idle" /\ UNCHANGED <<flash, blob, writable>>
    BY <1>5 DEF FlushEnd
  <2>2. Staged' = Log!NoLog /\ UNCHANGED <<LogOf(blob), Stable, writable>>
    BY <2>1 DEF LogOf, Remembers, Staged, Stable, Log!NoLog
  <2> QED BY <2>2 DEF Log!LogDiscard, Staged, Stable
<1> QED BY <1>2, <1>3, <1>4, <1>5 DEF Worker

\* The clock, a boot without a mutex and a stutter are none of the log's business.
LEMMA OthersAreNoLogStep ==
  Inv /\ (BootWithoutLock \/ Tick \/ UNCHANGED vars) => UNCHANGED Log!logVars
<1> SUFFICES ASSUME BootWithoutLock \/ Tick \/ UNCHANGED vars
             PROVE  UNCHANGED Log!logVars
  OBVIOUS
<1>1. /\ UNCHANGED <<flash, blob, writable, snapshot>>
      /\ worker' = worker \/ (worker = "off" /\ worker' = "none")
  <2>1. CASE BootWithoutLock
    BY <2>1 DEF BootWithoutLock, flushVars
  <2>2. CASE Tick
    BY <2>2 DEF Tick
  <2>3. CASE UNCHANGED vars
    BY <2>3 DEF vars, ram
  <2> QED BY <2>1, <2>2, <2>3
<1>2. UNCHANGED <<LogOf(blob), Staged, Stable, writable>>
  BY <1>1 DEF LogOf, Remembers, Staged, Stable
<1> QED BY <1>2 DEF Log!logVars, Staged, Stable

\* The ring, the flush protocol and the restarts implement a log that only grows,
\* forgets its oldest entries alone and is replaced by a boot that loaded it
\* (error_history.h:20-23).
THEOREM HistoryImplementsLog == Spec => ImplementsLog
<1>1. Init => Log!LogInit
  <2> SUFFICES ASSUME Init
               PROVE  Log!LogInit
    OBVIOUS
  <2>1. /\ blob = ZeroBlob /\ writable = FALSE /\ worker = "off"
        /\ flash.status \in {"absent", "foreign"} /\ flash.blob = ZeroBlob
    BY DEF Init
  <2>2. LogOf(blob) = Log!EmptyLog /\ Staged = Log!NoLog
    BY <2>1, ZeroIsEmptyLog DEF Staged, Log!NoLog
  <2>3. Stable \in {Log!EmptyLog, Log!NoLog}
    BY <2>1, ZeroIsEmptyLog DEF Stable, Log!NoLog
  <2> QED BY <2>1, <2>2, <2>3 DEF Log!LogInit, Staged, Stable
<1>2. Inv /\ [Next]_vars => [Log!LogNext]_(Log!logVars)
  BY RecordIsAppend, BootIsRestart, CrashIsRestart, WorkerIsLogStep, OthersAreNoLogStep
     DEF Next, Log!LogNext
<1> QED BY <1>1, <1>2, InvIsInvariant, PTL DEF Spec, ImplementsLog, Log!LogSpec

-----------------------------------------------------------------------------
\* What a log promises by itself, whoever implements it.
VARIABLES live, staged, stable, linked

Any == INSTANCE HistoryLog WITH Boots <- 1..MaxBootId

\* A boot that may store continues what it loaded, and what it has staged comes in
\* between.
LogInv ==
  /\ live.total \in Nat /\ staged.total \in Nat /\ stable.total \in Nat
  /\ linked => stable # Any!NoLog /\ Any!IsEarlier(stable, live)
  /\ linked /\ staged # Any!NoLog =>
       Any!IsEarlier(stable, staged) /\ Any!IsEarlier(staged, live)

\* A log is its own earlier state, and stays an earlier state after one more error.
LEMMA EarlierStaysEarlier ==
  ASSUME NEW a, NEW b, NEW boot, a.total \in Nat, b.total \in Nat
  PROVE  /\ Any!IsEarlier(b, b)
         /\ Any!Extend(b, boot).total \in Nat
         /\ Any!IsEarlier(a, b) => Any!IsEarlier(a, Any!Extend(b, boot))
<1>1. Any!IsEarlier(b, b)
  BY DEF Any!IsEarlier
<1> DEFINE c == Any!Extend(b, boot)
<1>2. /\ c.total = b.total + 1
      /\ \A s \in Any!Window(b.total + 1) :
           c.bootOf[s] = IF s = b.total + 1 THEN boot ELSE b.bootOf[s]
  BY DEF Any!Extend
<1> HIDE DEF c
<1>3. ASSUME Any!IsEarlier(a, b)
      PROVE  Any!IsEarlier(a, c)
  <2>1. a.total <= b.total /\ a.total <= c.total
    BY <1>2, <1>3 DEF Any!IsEarlier
  <2>2. ASSUME NEW s \in Any!Window(a.total) \cap Any!Window(c.total)
        PROVE  a.bootOf[s] = c.bootOf[s]
    <3>1. s # b.total + 1 /\ s \in Any!Window(b.total) /\ s \in Any!Window(a.total)
      BY <1>2, <2>1, <2>2, CapacityAssumption DEF Any!Window
    <3>2. c.bootOf[s] = b.bootOf[s]
      BY <1>2, <2>2, <3>1
    <3> QED BY <1>3, <3>1, <3>2 DEF Any!IsEarlier
  <2> QED BY <2>1, <2>2 DEF Any!IsEarlier
<1> QED BY <1>1, <1>2, <1>3 DEF c

\* The steps of a log keep that order.
LEMMA LogNextInv == LogInv /\ [Any!LogNext]_(Any!logVars) => LogInv'
<1> SUFFICES ASSUME LogInv, [Any!LogNext]_(Any!logVars)
             PROVE  LogInv'
  OBVIOUS
<1>1. Any!EmptyLog.total = 0 /\ Any!NoLog.total = 0
  BY DEF Any!EmptyLog, Any!NoLog
<1>2. CASE Any!LogAppend
  <2>1. PICK b \in 1..MaxBootId : live' = Any!Extend(live, b)
    BY <1>2 DEF Any!LogAppend
  <2>2. UNCHANGED <<staged, stable, linked>>
    BY <1>2 DEF Any!LogAppend
  <2> QED BY <2>1, <2>2, EarlierStaysEarlier DEF LogInv
<1>3. CASE Any!LogStage
  BY <1>3, EarlierStaysEarlier DEF Any!LogStage, LogInv
<1>4. CASE Any!LogStore
  BY <1>4, EarlierStaysEarlier DEF Any!LogStore, LogInv
<1>5. CASE Any!LogDiscard
  BY <1>1, <1>5 DEF Any!LogDiscard, LogInv
<1>6. CASE Any!LogRestart
  BY <1>1, <1>6, EarlierStaysEarlier DEF Any!LogRestart, LogInv
<1>7. CASE UNCHANGED Any!logVars
  BY <1>7 DEF Any!logVars, LogInv
<1> QED BY <1>2, <1>3, <1>4, <1>5, <1>6, <1>7 DEF Any!LogNext

\* So whatever implements a log never replaces one that cannot be read, and one
\* that can only by a later state of itself (error_history.h:20-23).
THEOREM LogIsOnlyContinued ==
  Any!LogSpec =>
    [][IF stable = Any!NoLog THEN stable' = stable
       ELSE stable' # Any!NoLog /\ Any!IsEarlier(stable, stable')]_(Any!logVars)
<1>1. Any!LogInit => LogInv
  BY DEF Any!LogInit, LogInv, Any!EmptyLog, Any!NoLog
<1>2. LogInv /\ [Any!LogNext]_(Any!logVars) => LogInv'
  BY LogNextInv
<1>3. LogInv /\ [Any!LogNext]_(Any!logVars) =>
        [IF stable = Any!NoLog THEN stable' = stable
         ELSE stable' # Any!NoLog /\ Any!IsEarlier(stable, stable')]_(Any!logVars)
  <2> SUFFICES ASSUME LogInv, Any!LogNext
               PROVE  IF stable = Any!NoLog THEN stable' = stable
                      ELSE stable' # Any!NoLog /\ Any!IsEarlier(stable, stable')
    OBVIOUS
  <2>1. CASE Any!LogStore
    BY <2>1 DEF Any!LogStore, LogInv
  <2>2. CASE stable' = stable
    BY <2>2, EarlierStaysEarlier DEF LogInv
  <2> QED BY <2>1, <2>2 DEF Any!LogNext, Any!LogAppend, Any!LogStage, Any!LogDiscard,
        Any!LogRestart
<1> QED BY <1>1, <1>2, <1>3, PTL DEF Any!LogSpec
=============================================================================
