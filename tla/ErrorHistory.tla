---------------------------- MODULE ErrorHistory ----------------------------
(***************************************************************************)
(* The persistent Modbus error history (src/main/error_history.c): a ring  *)
(* of the last Capacity errors in RAM, filled by the polling task, and a   *)
(* worker that copies it to one NVS blob at most once per FlushInterval.   *)
(* The mutex is held only for short sections, each one action here; flash  *)
(* is written outside it, so errors arrive during a flush.  Power may be   *)
(* lost between any two steps.  Checksums are abstracted to the status     *)
(* "foreign": whatever bytes another firmware or a damaged sector left.    *)
(***************************************************************************)
EXTENDS Naturals

CONSTANTS
  Capacity,        \* ERROR_HISTORY_CAPACITY
  FlushInterval,   \* ERROR_HISTORY_FLUSH_INTERVAL_MS, in ticks of the clock
  MaxBootId,       \* UINT32_MAX: the boot counter stops there
  MaxErrors        \* bound of the model: errors recorded, over all boots

ASSUME CapacityAssumption == Capacity \in Nat \ {0}
ASSUME FlushIntervalAssumption == FlushInterval \in Nat
ASSUME MaxBootIdAssumption == MaxBootId \in Nat \ {0}
ASSUME MaxErrorsAssumption == MaxErrors \in Nat

VARIABLES
  flash,              \* the blob under "history_v1"
  blob,               \* history.blob
  lock,               \* whether history.lock was created
  writable,
  generation,         \* dirty counter, and the part of it known to be saved
  saved_generation,
  persistence_error,  \* whether the error text is non-empty
  attempted,          \* whether this boot tried a flush
  waited,             \* ticks since last_attempt_ms, capped at FlushInterval
  worker,             \* the program point of persistence_task, "off": no power
  snapshot,           \* flush_pending's copy, and the generation it copied
  snapshot_generation

ram == <<blob, lock, writable, generation, saved_generation, persistence_error,
         attempted, waited, worker, snapshot, snapshot_generation>>
vars == <<flash, ram>>
flushVars == <<attempted, waited, snapshot, snapshot_generation>>

-----------------------------------------------------------------------------
Slots == 0..(Capacity - 1)

\* The slot that error number s occupies while it is remembered.
SlotOf(s) == (s - 1) % Capacity

Event == [sequence : 0..MaxErrors, boot_id : 0..MaxBootId]

Blob == [boot_id : 0..MaxBootId, count : 0..Capacity, next : Slots,
         total_errors : 0..MaxErrors, events : [Slots -> Event]]

ZeroBlob ==
  [boot_id |-> 0, count |-> 0, next |-> 0, total_errors |-> 0,
   events |-> [i \in Slots |-> [sequence |-> 0, boot_id |-> 0]]]

Flash == [status : {"absent", "foreign", "stored"}, blob : Blob]

\* The event `age` entries before the newest one.
EventAt(b, age) == b.events[(b.next + Capacity - 1 - age) % Capacity]

\* What a stored blob must satisfy to be loaded by the next boot.
valid_blob(b) ==
  /\ b.count = IF b.total_errors < Capacity THEN b.total_errors ELSE Capacity
  /\ b.next = b.total_errors % Capacity
  /\ \A age \in 0..(b.count - 1) :
       /\ EventAt(b, age).sequence = b.total_errors - age
       /\ EventAt(b, age).boot_id \in 1..b.boot_id

TypeOK ==
  /\ flash \in Flash
  /\ blob \in Blob
  /\ lock \in BOOLEAN
  /\ writable \in BOOLEAN
  /\ generation \in Nat
  /\ saved_generation \in Nat
  /\ persistence_error \in BOOLEAN
  /\ attempted \in BOOLEAN
  /\ waited \in 0..FlushInterval
  /\ worker \in {"off", "none", "idle", "alloc", "write", "saved", "failed"}
  /\ snapshot \in Blob
  /\ snapshot_generation \in Nat

-----------------------------------------------------------------------------
\* No power; RAM is statically initialised before a boot runs.
Init ==
  /\ flash \in [status : {"absent", "foreign"}, blob : {ZeroBlob}]
  /\ blob = ZeroBlob
  /\ lock = FALSE
  /\ writable = FALSE
  /\ generation = 0
  /\ saved_generation = 0
  /\ persistence_error = FALSE
  /\ attempted = FALSE
  /\ waited = FlushInterval
  /\ worker = "off"
  /\ snapshot = ZeroBlob
  /\ snapshot_generation = 0

\* error_history_init, when the mutex cannot be allocated: nothing is loaded.
BootWithoutLock ==
  /\ worker = "off"
  /\ worker' = "none"
  /\ persistence_error' = TRUE
  /\ UNCHANGED <<flash, blob, lock, writable, generation, saved_generation,
                 flushVars>>

\* Faulty: a failed read is taken for an empty flash and stays writable.
LoadResultsAlwaysWritable ==
  {[blob |-> ZeroBlob, writable |-> TRUE]} \cup
  (IF flash.status = "stored" /\ valid_blob(flash.blob)
   THEN {[blob |-> flash.blob, writable |-> TRUE]} ELSE {})

\* What loading can leave in history.blob and history.writable.  Opening,
\* reading or allocating may fail whatever the flash holds.
LoadResults ==
  {[blob |-> ZeroBlob, writable |-> FALSE]} \cup
  (IF flash.status = "absent" THEN {[blob |-> ZeroBlob, writable |-> TRUE]}
   ELSE IF flash.status = "stored" /\ valid_blob(flash.blob)
        THEN {[blob |-> flash.blob, writable |-> TRUE]}
        ELSE {})

\* error_history_init, from the mutex on.  The worker may fail to start.
Boot ==
  /\ worker = "off"
  /\ lock' = TRUE
  /\ \E load \in LoadResults, started \in BOOLEAN :
       LET exhausted == load.blob.boot_id = MaxBootId
           runs == load.writable /\ ~exhausted /\ started
       IN /\ blob' = IF exhausted THEN load.blob
                     ELSE [load.blob EXCEPT !.boot_id = @ + 1]
          /\ writable' = runs
          /\ persistence_error' = ~runs
          /\ worker' = IF runs THEN "idle" ELSE "none"
  /\ generation' = generation + 1
  /\ UNCHANGED <<flash, saved_generation, flushVars>>

\* Faulty: the count is not capped.
RecordedUncapped(b) ==
  [b EXCEPT !.events[b.next] = [sequence |-> b.total_errors + 1,
                                boot_id |-> b.boot_id],
            !.total_errors = @ + 1,
            !.next = (@ + 1) % Capacity,
            !.count = @ + 1]

\* Faulty: the slot is found from the number of events, not from next.
RecordedAtCount(b) ==
  [b EXCEPT !.events[b.count % Capacity] = [sequence |-> b.total_errors + 1,
                                            boot_id |-> b.boot_id],
            !.total_errors = @ + 1,
            !.next = (@ + 1) % Capacity,
            !.count = IF @ < Capacity THEN @ + 1 ELSE @]

\* The ring after one more error.
Recorded(b) ==
  [b EXCEPT !.events[b.next] = [sequence |-> b.total_errors + 1,
                                boot_id |-> b.boot_id],
            !.total_errors = @ + 1,
            !.next = (@ + 1) % Capacity,
            !.count = IF @ < Capacity THEN @ + 1 ELSE @]

\* error_history_record, called by the polling task for a failed read.
Record ==
  /\ worker # "off" /\ lock
  /\ blob.total_errors < MaxErrors
  /\ blob' = Recorded(blob)
  /\ generation' = generation + 1
  /\ UNCHANGED <<flash, lock, writable, saved_generation, persistence_error,
                 worker, flushVars>>

-----------------------------------------------------------------------------
\* flush_pending, one action per section of the code between lock operations.

FlushDue ==
  /\ writable
  /\ saved_generation # generation
  /\ attempted => waited >= FlushInterval

FlushBegin ==
  /\ worker = "idle"
  /\ FlushDue
  /\ worker' = "alloc"
  /\ attempted' = TRUE
  /\ waited' = 0
  /\ UNCHANGED <<flash, blob, lock, writable, generation, saved_generation,
                 persistence_error, snapshot, snapshot_generation>>

\* Faulty: out of memory is not reported.
FlushAllocFailsSilently ==
  /\ worker = "alloc"
  /\ worker' = "idle"
  /\ UNCHANGED <<flash, blob, lock, writable, generation, saved_generation,
                 persistence_error, flushVars>>

FlushAllocFails ==
  /\ worker = "alloc"
  /\ worker' = "idle"
  /\ persistence_error' = TRUE
  /\ UNCHANGED <<flash, blob, lock, writable, generation, saved_generation,
                 flushVars>>

FlushCopy ==
  /\ worker = "alloc"
  /\ worker' = "write"
  /\ snapshot' = blob
  /\ snapshot_generation' = generation
  /\ UNCHANGED <<flash, blob, lock, writable, generation, saved_generation,
                 persistence_error, attempted, waited>>

\* nvs_set_blob and nvs_commit: the entry is replaced as a whole or not at
\* all, and an error does not tell which.
FlushWrite ==
  /\ worker = "write"
  /\ \/ /\ flash' = [status |-> "stored", blob |-> snapshot]
        /\ worker' \in {"saved", "failed"}
     \/ /\ flash' = flash
        /\ worker' = "failed"
  /\ UNCHANGED <<blob, lock, writable, generation, saved_generation,
                 persistence_error, flushVars>>

\* Faulty: errors recorded during the write are counted as saved.
AcknowledgedLate == generation

\* The dirty counter up to which a successful write has saved.
Acknowledged == snapshot_generation

FlushEnd ==
  /\ worker \in {"saved", "failed"}
  /\ saved_generation' = IF worker = "saved" THEN Acknowledged
                         ELSE saved_generation
  /\ persistence_error' = (worker = "failed")
  /\ worker' = "idle"
  /\ snapshot' = ZeroBlob
  /\ snapshot_generation' = 0
  /\ UNCHANGED <<flash, blob, lock, writable, generation, attempted, waited>>

-----------------------------------------------------------------------------
Tick ==
  /\ worker # "off"
  /\ waited < FlushInterval
  /\ waited' = waited + 1
  /\ UNCHANGED <<flash, blob, lock, writable, generation, saved_generation,
                 persistence_error, attempted, worker, snapshot,
                 snapshot_generation>>

\* Power loss, a panic or esp_restart, at any point.
Crash ==
  /\ worker # "off"
  /\ blob' = ZeroBlob
  /\ lock' = FALSE
  /\ writable' = FALSE
  /\ generation' = 0
  /\ saved_generation' = 0
  /\ persistence_error' = FALSE
  /\ attempted' = FALSE
  /\ waited' = FlushInterval
  /\ worker' = "off"
  /\ snapshot' = ZeroBlob
  /\ snapshot_generation' = 0
  /\ UNCHANGED flash

Worker == FlushBegin \/ FlushAllocFails \/ FlushCopy \/ FlushWrite \/ FlushEnd

Next == BootWithoutLock \/ Boot \/ Record \/ Worker \/ Tick \/ Crash

Spec == Init /\ [][Next]_vars

\* The scheduler keeps running the worker and the clock keeps running.
FairSpec == Spec /\ WF_vars(Worker) /\ WF_vars(Tick)

-----------------------------------------------------------------------------
\* A blob this code has written is one its next boot accepts: no sequence of
\* errors, flushes and restarts makes the device reject its own history.
OwnHistoryAccepted == flash.status = "stored" => valid_blob(flash.blob)

\* flush_pending's comment, error_history.c:88-89: when the dirty counter says
\* all is saved, flash holds exactly the ring, even if an error arrived while
\* the previous snapshot was being written.
NothingDirtyIsForgotten ==
  writable /\ saved_generation = generation =>
    flash = [status |-> "stored", blob |-> blob]

\* The error with sequence number s is among those remembered by b.
Remembers(b, s) == s \in 1..b.total_errors /\ s + Capacity > b.total_errors

\* Blob b continues the history in blob a.
Extends(a, b) ==
  /\ a.total_errors <= b.total_errors
  /\ a.boot_id <= b.boot_id
  /\ \A s \in 1..MaxErrors :
       Remembers(a, s) /\ Remembers(b, s) =>
         a.events[SlotOf(s)] = b.events[SlotOf(s)]

\* error_history.h:23 and :20: no step replaces unreadable history, or stored
\* history by less: an error leaves the flash only when Capacity newer errors
\* are there, over any number of restarts, failed loads and failed writes.
StoredHistoryIsKept ==
  [][/\ flash.status = "foreign" => flash' = flash
     /\ flash.status = "stored" =>
          /\ flash'.status = "stored"
          /\ Extends(flash.blob, flash'.blob)
    ]_vars

\* Every error, and every new boot number, reaches the flash unless the device
\* restarts first or shows a persistence error on the dashboard
\* (error_history_json reports persistence_error and pending_persistence).
EveryChangeIsSavedOrReported ==
  \A g \in 1..(MaxErrors + 1) :
    (worker # "off" /\ generation >= g) ~>
      (saved_generation >= g \/ persistence_error \/ worker = "off")

-----------------------------------------------------------------------------
\* The inductive invariant that the safety properties follow from.

\* The shape of a ring, by sequence number instead of by age.
RingOK(b) ==
  /\ b.count = IF b.total_errors < Capacity THEN b.total_errors ELSE Capacity
  /\ b.next = b.total_errors % Capacity
  /\ \A s \in 1..MaxErrors : Remembers(b, s) =>
       /\ b.events[SlotOf(s)].sequence = s
       /\ b.events[SlotOf(s)].boot_id \in 1..b.boot_id

Flushing == worker \in {"write", "saved", "failed"}

RingsOK ==
  /\ RingOK(flash.blob) /\ RingOK(blob) /\ RingOK(snapshot)
  /\ lock => blob.boot_id \in 1..MaxBootId
  /\ flash.status # "stored" => flash.blob = ZeroBlob

\* Where the worker is decides what it has copied and what it may overwrite.
ProtocolOK ==
  /\ writable <=> worker \notin {"off", "none"}
  /\ worker = "off" => /\ blob = ZeroBlob /\ snapshot = ZeroBlob
                       /\ generation = 0 /\ saved_generation = 0
  /\ saved_generation <= generation
  /\ worker = "alloc" => saved_generation < generation
  /\ Flushing => /\ saved_generation < snapshot_generation
                 /\ snapshot_generation <= generation
                 /\ snapshot_generation = generation => snapshot = blob
                 /\ Extends(snapshot, blob)
  /\ worker = "write" => Extends(flash.blob, snapshot)
  /\ worker = "saved" => flash = [status |-> "stored", blob |-> snapshot]
  /\ writable => flash.status # "foreign" /\ Extends(flash.blob, blob)

\* Everything the ring, the worker and the flash rely on between steps of
\* persistence_task, error_history_record and error_history_init.
Inv == TypeOK /\ RingsOK /\ ProtocolOK /\ NothingDirtyIsForgotten

-----------------------------------------------------------------------------
\* The ring as a log: see HistoryLog.
LogOf(b) ==
  [total  |-> b.total_errors,
   bootOf |-> [s \in {t \in 1..b.total_errors : Remembers(b, t)} |->
                 b.events[SlotOf(s)].boot_id]]

Log == INSTANCE HistoryLog WITH
  Boots  <- 1..MaxBootId,
  live   <- LogOf(blob),
  staged <- IF worker \in {"write", "saved", "failed"} THEN LogOf(snapshot)
            ELSE [total |-> 0, unreadable |-> TRUE],
  stable <- IF flash.status = "foreign" THEN [total |-> 0, unreadable |-> TRUE]
            ELSE LogOf(flash.blob),
  linked <- writable

\* The ring, the flush protocol and the restarts together are a log that only
\* grows, forgets only its oldest entries and is replaced only by a boot that
\* loaded it.
ImplementsLog == Log!LogSpec
=============================================================================
