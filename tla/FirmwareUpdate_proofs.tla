----------------------- MODULE FirmwareUpdate_proofs -----------------------
(***************************************************************************)
(* Proofs about FirmwareUpdate, for any set of images and any delays: the  *)
(* slots and the validation keep their invariant through every upload,     *)
(* restart and power loss, so that a proven image is never lost.           *)
(***************************************************************************)
EXTENDS FirmwareUpdate, TLAPS

\* The parts of Inv that speak of the flash and of the slot that runs.
SafetyOK ==
  /\ SlotsOK /\ RunningOK /\ ProgressOK
  /\ SomeSlotIsProven /\ RunningIsProven /\ NeverLockedOut

\* Two slots: each is the other one's other.
LEMMA TwoSlots ==
  ASSUME NEW s \in Slots
  PROVE  /\ Other(s) \in Slots /\ Other(s) # s /\ Other(Other(s)) = s
         /\ \A t \in Slots : t = s \/ t = Other(s)
BY DEF Slots, Other

\* A board as it is flashed, or with a validated image.
LEMMA InitInv == Init => Inv
<1> SUFFICES ASSUME Init
             PROVE  Inv
  OBVIOUS
<1> USE ImagesAssumption, TimesAssumption DEF Init
<1>1. 0 \in Slots
  BY DEF Slots
<1>2. TypeOK
  <2>1. armed \in BOOLEAN /\ finished \in BOOLEAN /\ restart_pending \in BOOLEAN
        /\ validated \in BOOLEAN
    BY Zenon
  <2>2. content \in [Slots -> Images \cup {Broken}]
        /\ proven \subseteq Slots /\ installed \subseteq Slots
        /\ entry \in [Slots -> {"none", "new", "pending", "valid", "aborted"}]
    BY <1>1
  <2>3. uptime \in 0..(Deadline + 1) /\ gate \in 0..Samples /\ streak \in 0..Samples
    OBVIOUS
  <2>4. QED
    BY <1>1, <2>1, <2>2, <2>3 DEF TypeOK
<1>3. SafetyOK
  BY <1>1 DEF SafetyOK, SlotsOK, RunningOK, ProgressOK, SomeSlotIsProven, RunningIsProven,
              NeverLockedOut
<1>4. QED
  BY <1>2, <1>3 DEF Inv, SafetyOK

-----------------------------------------------------------------------------
\* What is in memory, typed.
RamOK ==
  /\ running \in Slots /\ phase \in {"off", "begin", "startup", "up"}
  /\ uptime \in 0..(Deadline + 1) /\ next_sample \in Nat
  /\ validator \in {"none", "sampling", "marking", "marked"}
  /\ gate \in 0..Samples /\ streak \in 0..Samples
  /\ armed \in BOOLEAN /\ finished \in BOOLEAN /\ restart_pending \in BOOLEAN
  /\ handler \in {"idle", "receiving", "received", "leaving"}
  /\ incoming \in Images \cup {Broken}

\* A reset leaves memory well typed.
LEMMA ResetType == ResetRam => RamOK'
<1> SUFFICES ASSUME ResetRam
             PROVE  RamOK'
  OBVIOUS
<1>1. armed' \in BOOLEAN /\ finished' \in BOOLEAN /\ restart_pending' \in BOOLEAN
  BY Zenon DEF ResetRam
<1>2. uptime' \in 0..(Deadline + 1) /\ gate' \in 0..Samples /\ streak' \in 0..Samples
  BY TimesAssumption DEF ResetRam
<1>3. running' \in Slots /\ next_sample' \in Nat
  BY DEF ResetRam, Slots
<1>4. QED
  BY <1>1, <1>2, <1>3 DEF RamOK, ResetRam

\* After a reset nothing runs: only the flash matters.
LEMMA ResetInv ==
  ASSUME Inv, ResetRam, UNCHANGED <<content, proven, validated, installed, chosen, entry>>
  PROVE  Inv'
<1>1. TypeOK'
  BY ResetType DEF Inv, TypeOK, RamOK
<1>2. SafetyOK'
  BY TimesAssumption
  DEF Inv, TypeOK, ResetRam, SafetyOK, SlotsOK, RunningOK, ProgressOK, SomeSlotIsProven,
      RunningIsProven, NeverLockedOut
<1>3. QED
  BY <1>1, <1>2 DEF Inv, SafetyOK

\* Restarts and power loss (gateway_ota.c:278, 376, 390).
LEMMA HaltInv == Inv /\ (Crash \/ MarkFails \/ Expire \/ Restart) => Inv'
BY ResetInv DEF Crash, MarkFails, Expire, Restart, flash, history

\* What is pending is given up, and nothing else changes before the selection.
LEMMA GivenUpKeeps ==
  Inv => /\ GivenUp \in [Slots -> {"none", "new", "valid", "aborted"}]
         /\ \A s \in Slots : /\ GivenUp[s] = "valid" <=> entry[s] = "valid"
                             /\ GivenUp[s] = "new" <=> entry[s] = "new"
                             /\ Bootable(s) <=> entry[s] \in {"new", "valid"}
BY DEF GivenUp, Bootable, Inv, TypeOK

\* The bootloader runs the slot selected last if it can.
LEMMA BootInv == Inv /\ Boot => Inv'
<1> SUFFICES ASSUME Inv, Boot
             PROVE  Inv'
  OBVIOUS
<1> USE DEF Boot, Booted, validation, web, history
<1>1. Selection \in Slots /\ chosen \in Slots /\ running' \in Slots
  BY TwoSlots DEF Selection, Inv, TypeOK, Slots
<1>2. /\ entry' \in [Slots -> {"none", "new", "pending", "valid", "aborted"}]
      /\ \A s \in Slots : /\ entry'[s] = "valid" <=> entry[s] = "valid"
                          /\ entry'[s] = "new" => entry[s] = "new" /\ s # Selection
                          /\ entry'[s] = "pending" => entry[s] = "new" /\ s = Selection
  BY <1>1, GivenUpKeeps
<1>3. entry[Selection] = "new" => entry'[Selection] = "pending"
  BY <1>1, GivenUpKeeps
<1>4. \A s \in Slots : entry[s] \in {"new", "valid"} <=> Bootable(s)
  BY GivenUpKeeps
<1>5. Bootable(chosen) => running' = chosen /\ Selection = chosen
  BY <1>1, <1>4, TwoSlots, ImagesAssumption DEF Selection, Inv, SlotsOK
<1>6. TypeOK'
  BY <1>1, <1>2 DEF Inv, TypeOK
<1>7. SlotsOK'
  BY <1>1, <1>2, TwoSlots DEF Inv, TypeOK, SlotsOK
<1>8. RunningOK'
  <2>1. \A s \in Slots : entry'[s] \in {"new", "pending"} => s = running'
    BY <1>1, <1>2, <1>4, <1>5 DEF Inv, SlotsOK
  <2>2. entry'[running'] = "valid" /\ entry'[Other(running')] = "valid" => chosen' = running'
    BY <1>1, <1>2, <1>4, <1>5, TwoSlots DEF Inv
  <2>3. QED
    BY <1>1, <2>1, <2>2, TwoSlots DEF RunningOK
<1>9. ProgressOK'
  BY DEF Inv, ProgressOK
<1>10. SomeSlotIsProven'
  BY <1>2 DEF Inv, SomeSlotIsProven
<1>11. RunningIsProven'
  BY <1>1, <1>2, <1>4, <1>5, TwoSlots DEF Inv, SlotsOK, RunningIsProven
<1>12. NeverLockedOut'
  <2> SUFFICES ASSUME validated \/ installed # {}
               PROVE  entry'[running'] \in {"pending", "valid"}
    BY DEF NeverLockedOut
  <2>1. PICK s \in Slots : Bootable(s)
    BY <1>4 DEF Inv, TypeOK, SomeSlotIsProven, SlotsOK
  <2>2. Bootable(Selection)
    BY <1>1, <2>1, TwoSlots DEF Selection
  <2>3. content[Selection] # Broken
    BY <1>1, <1>4, <1>5, <2>2, ImagesAssumption DEF Inv, SlotsOK
  <2>4. QED
    BY <1>1, <1>2, <1>3, <1>4, <2>2, <2>3
<1>13. QED
  BY <1>6, <1>7, <1>8, <1>9, <1>10, <1>11, <1>12 DEF Inv

\* Nothing had counted as valid when it records a slot by itself.
LEMMA RecordInv == Inv /\ Record => Inv'
<1> SUFFICES ASSUME Inv, Record
             PROVE  Inv'
  OBVIOUS
<1> USE DEF Record, validation, web, history
<1>1. Booted \in Slots
  BY TwoSlots DEF Booted, Selection, Inv, TypeOK, Slots
<1>2. \A s \in Slots : entry[s] \notin {"new", "valid"}
  BY GivenUpKeeps
<1>3. ~validated /\ installed = {} /\ proven = {}
  BY <1>2 DEF Inv, TypeOK, SomeSlotIsProven, SlotsOK
<1>4. /\ entry' \in [Slots -> {"none", "new", "pending", "valid", "aborted"}]
      /\ entry'[Booted] = "valid"
      /\ \A s \in Slots : s # Booted => entry'[s] \notin {"new", "pending", "valid"}
  BY <1>1, <1>2, GivenUpKeeps
<1>5. TypeOK'
  BY <1>1, <1>4 DEF Inv, TypeOK
<1>6. SlotsOK'
  BY <1>1, <1>3, <1>4, TwoSlots DEF SlotsOK
<1>7. RunningOK'
  BY <1>1, <1>4, TwoSlots DEF RunningOK
<1>8. ProgressOK'
  BY DEF Inv, ProgressOK
<1>9. SomeSlotIsProven' /\ RunningIsProven' /\ NeverLockedOut'
  BY <1>1, <1>3, <1>4 DEF SomeSlotIsProven, RunningIsProven, NeverLockedOut
<1>10. QED
  BY <1>5, <1>6, <1>7, <1>8, <1>9 DEF Inv

-----------------------------------------------------------------------------
\* The first lines of app_main (gateway_ota.c:406-433).
LEMMA BeginInv == Inv /\ Begin => Inv'
<1> SUFFICES ASSUME Inv, Begin
             PROVE  Inv'
  OBVIOUS
<1> USE TwoSlots, TimesAssumption DEF validation, web, history, flash
<1>1. CASE SelectRunning
  <2>1. running \in Slots /\ entry \in [Slots -> {"none", "new", "pending", "valid", "aborted"}]
    BY DEF Inv, TypeOK
  <2>2. \A s \in Slots : entry'[s] = IF s = running THEN "new" ELSE entry[s]
    BY <1>1, <2>1 DEF SelectRunning
  <2>3. TypeOK'
    BY <1>1, <2>1, ResetType DEF SelectRunning, Inv, TypeOK, RamOK
  <2>4. \A s \in Slots : s # running => entry[s] \notin {"new", "pending"}
    BY <1>1, <2>1 DEF SelectRunning, Inv, RunningOK, ProgressOK
  <2>5. SlotsOK'
    BY <1>1, <2>1, <2>2, <2>4 DEF SelectRunning, Inv, TypeOK, SlotsOK, RunningOK
  <2>6. RunningOK' /\ ProgressOK' /\ RunningIsProven' /\ NeverLockedOut'
    BY <1>1 DEF SelectRunning, ResetRam, RunningOK, ProgressOK, RunningIsProven,
                NeverLockedOut
  <2>7. SomeSlotIsProven'
    BY <1>1, <2>1, <2>2 DEF SelectRunning, Inv, SlotsOK, SomeSlotIsProven
  <2>8. QED
    BY <2>3, <2>5, <2>6, <2>7 DEF Inv
<1>2. CASE BeginValidation
  <2>1. TypeOK'
    BY <1>2 DEF BeginValidation, Inv, TypeOK
  <2>2. SafetyOK'
    BY <1>2 DEF BeginValidation, Inv, TypeOK, SafetyOK, SlotsOK, RunningOK, ProgressOK,
                SomeSlotIsProven, RunningIsProven, NeverLockedOut
  <2>3. QED
    BY <2>1, <2>2 DEF Inv, SafetyOK
<1>3. CASE SkipValidation
  <2>1. TypeOK'
    BY <1>3 DEF SkipValidation, Inv, TypeOK
  <2>2. SafetyOK'
    BY <1>3 DEF SkipValidation, Inv, TypeOK, SafetyOK, SlotsOK, RunningOK, ProgressOK,
                SomeSlotIsProven, RunningIsProven, NeverLockedOut
  <2>3. QED
    BY <2>1, <2>2 DEF Inv, SafetyOK
<1>4. QED
  BY <1>1, <1>2, <1>3 DEF Begin

\* The end of app_main, and time.
LEMMA PassiveInv == Inv /\ (Started \/ Tick) => Inv'
<1> SUFFICES ASSUME Inv, Started \/ Tick
             PROVE  Inv'
  OBVIOUS
<1>1. TypeOK'
  BY TimesAssumption DEF Started, Tick, Inv, TypeOK, flash, validation, web, history
<1>2. SafetyOK'
  BY DEF Started, Tick, Inv, SafetyOK, SlotsOK, RunningOK, ProgressOK, SomeSlotIsProven,
         RunningIsProven, NeverLockedOut, flash, validation, web, history
<1>3. QED
  BY <1>1, <1>2 DEF Inv, SafetyOK

\* validate_task (gateway_ota.c:379-394).
LEMMA ValidateInv == Inv /\ (Sample \/ Mark \/ Finish) => Inv'
<1> SUFFICES ASSUME Inv, Sample \/ Mark \/ Finish
             PROVE  Inv'
  OBVIOUS
<1> USE TimesAssumption DEF web, history, flash
<1>1. CASE Sample
  <2>1. PICK healthy \in BOOLEAN :
          /\ healthy => phase = "up" /\ content[running] \in Healthy
          /\ gate' = Sampled(healthy)
          /\ streak' = IF ~healthy THEN 0 ELSE IF streak < Samples THEN streak + 1 ELSE streak
    BY <1>1 DEF Sample
  <2>2. gate' \in 0..Samples /\ gate' = streak' /\ (gate' > 0 => healthy)
    BY <2>1 DEF Sampled, Inv, TypeOK, ProgressOK
  <2>3. TypeOK'
    BY <1>1, <2>2 DEF Sample, Inv, TypeOK
  <2>4. SafetyOK'
    BY <1>1, <2>1, <2>2
    DEF Sample, Inv, TypeOK, SafetyOK, SlotsOK, RunningOK, ProgressOK, SomeSlotIsProven,
        RunningIsProven, NeverLockedOut
  <2>5. QED
    BY <2>3, <2>4 DEF Inv, SafetyOK
<1>2. CASE Mark
  <2>1. /\ running \in Slots
        /\ entry \in [Slots -> {"none", "new", "pending", "valid", "aborted"}]
        /\ entry[running] = "pending" /\ running = chosen
        /\ content[running] \in Healthy
        /\ proven' = proven \cup {running}
    BY <1>2 DEF Mark, Inv, TypeOK, SlotsOK, ProgressOK
  <2>2. \A s \in Slots : entry'[s] = IF s = running THEN "valid" ELSE entry[s]
    BY <1>2, <2>1 DEF Mark
  <2>3. TypeOK'
    BY <1>2, <2>1 DEF Mark, Inv, TypeOK
  <2>4. SlotsOK'
    BY <1>2, <2>1, <2>2, TwoSlots DEF Mark, Inv, TypeOK, SlotsOK
  <2>5. RunningOK' /\ RunningIsProven' /\ SomeSlotIsProven' /\ NeverLockedOut'
    BY <1>2, <2>1, <2>2, TwoSlots DEF Mark, Inv, RunningOK, RunningIsProven, SomeSlotIsProven,
                               NeverLockedOut
  <2>6. ProgressOK'
    BY <1>2, <2>1, <2>2 DEF Mark, Inv, ProgressOK
  <2>7. QED
    BY <2>3, <2>4, <2>5, <2>6 DEF Inv
<1>3. CASE Finish
  <2>1. TypeOK'
    BY <1>3 DEF Finish, Inv, TypeOK
  <2>2. SafetyOK'
    BY <1>3 DEF Finish, Inv, SafetyOK, SlotsOK, RunningOK, ProgressOK, SomeSlotIsProven,
                RunningIsProven, NeverLockedOut
  <2>3. QED
    BY <2>1, <2>2 DEF Inv, SafetyOK
<1>4. QED
  BY <1>1, <1>2, <1>3

-----------------------------------------------------------------------------
\* Uploads and scheduled restarts (gateway_ota.c:207-296).  The slot that runs
\* is proven, so that the other one may be erased and selected.
LEMMA RequestsInv == Inv /\ Requests => Inv'
<1> SUFFICES ASSUME Inv, Requests
             PROVE  Inv'
  OBVIOUS
<1> USE DEF flash, validation, web, history
<1>1. /\ running \in Slots /\ Other(running) \in Slots /\ Other(running) # running
      /\ Other(Other(running)) = running
      /\ \A s \in Slots : s = running \/ s = Other(running)
      /\ content \in [Slots -> Images \cup {Broken}]
      /\ proven \subseteq Slots /\ installed \subseteq Slots
      /\ entry \in [Slots -> {"none", "new", "pending", "valid", "aborted"}]
  BY TwoSlots DEF Inv, TypeOK
<1>2. phase = "up" /\ entry[running] = "valid" => running \in proven \cup installed
  BY DEF Inv, RunningIsProven
<1>3. CASE UploadBegin
  <2>1. content'[running] = content[running] /\ content'[Other(running)] = Broken
    BY <1>1, <1>3 DEF UploadBegin
  <2>2. /\ phase = "up" /\ handler = "idle" /\ entry[running] = "valid"
        /\ running \in proven' \cup installed' /\ Other(running) \notin proven' \cup installed'
    BY <1>1, <1>2, <1>3 DEF UploadBegin, MayMutate
  <2>3. TypeOK'
    BY <1>1, <1>3 DEF UploadBegin, Inv, TypeOK
  <2>4. SlotsOK'
    BY <1>1, <1>3, <2>1, <2>2 DEF UploadBegin, Inv, TypeOK, SlotsOK, RunningOK
  <2>5. RunningOK' /\ RunningIsProven' /\ SomeSlotIsProven' /\ NeverLockedOut'
    BY <1>1, <1>3, <2>1, <2>2
    DEF UploadBegin, Inv, RunningOK, RunningIsProven, SlotsOK, SomeSlotIsProven,
        NeverLockedOut
  <2>6. ProgressOK'
    BY <1>1, <1>3, <2>1, <2>2, ImagesAssumption DEF UploadBegin, Inv, ProgressOK
  <2>7. QED
    BY <2>3, <2>4, <2>5, <2>6 DEF Inv
<1>4. CASE UploadEnd
  <2>1. /\ content'[running] = content[running] /\ content'[Other(running)] = incoming
        /\ incoming # Broken /\ running \in proven \cup installed
        /\ phase = "up" /\ entry[running] = "valid"
        /\ entry[Other(running)] \notin {"new", "pending"}
    BY <1>1, <1>4 DEF UploadEnd, Inv, ProgressOK, RunningOK
  <2>2. Other(running) \notin proven \cup installed
    BY <1>4 DEF UploadEnd, Inv, ProgressOK
  <2>3. TypeOK'
    BY <1>1, <1>4 DEF UploadEnd, Inv, TypeOK
  <2>4. SlotsOK'
    BY <1>1, <1>4, <2>1, <2>2 DEF UploadEnd, Inv, TypeOK, SlotsOK
  <2>5. RunningOK' /\ RunningIsProven' /\ SomeSlotIsProven' /\ NeverLockedOut'
    BY <1>1, <1>4, <2>1, <2>2
    DEF UploadEnd, Inv, RunningOK, RunningIsProven, SlotsOK, SomeSlotIsProven,
        NeverLockedOut
  <2>6. ProgressOK'
    BY <1>1, <1>4, <2>1 DEF UploadEnd, Inv, ProgressOK
  <2>7. QED
    BY <2>3, <2>4, <2>5, <2>6 DEF Inv
<1>5. CASE UploadFail
  <2>1. TypeOK'
    BY <1>5 DEF UploadFail, Inv, TypeOK
  <2>2. SafetyOK'
    BY <1>5 DEF UploadFail, Inv, SafetyOK, SlotsOK, RunningOK, ProgressOK, SomeSlotIsProven,
                RunningIsProven, NeverLockedOut
  <2>3. QED
    BY <2>1, <2>2 DEF Inv, SafetyOK
<1>6. CASE Select
  <2>1. /\ phase = "up" /\ entry[running] = "valid" /\ running \in proven \cup installed
        /\ content[Other(running)] # Broken
        /\ entry'[running] = "valid" /\ entry'[Other(running)] = "new"
        /\ Other(running) \notin proven \cup installed
    BY <1>1, <1>6 DEF Select, Inv, ProgressOK
  <2>2. TypeOK'
    <3>1. restart_pending' \in BOOLEAN
      BY <1>6, Zenon DEF Select
    <3>2. QED
      BY <1>1, <1>6, <3>1 DEF Select, Inv, TypeOK
  <2>3. SlotsOK'
    BY <1>1, <1>6, <2>1 DEF Select, Inv, TypeOK, SlotsOK
  <2>4. RunningOK' /\ RunningIsProven' /\ SomeSlotIsProven' /\ NeverLockedOut'
    BY <1>1, <1>6, <2>1
    DEF Select, Inv, RunningOK, RunningIsProven, SlotsOK, SomeSlotIsProven,
        NeverLockedOut
  <2>5. ProgressOK'
    BY <1>1, <1>6, <2>1 DEF Select, Inv, ProgressOK
  <2>6. QED
    BY <2>2, <2>3, <2>4, <2>5 DEF Inv
<1>7. CASE ScheduleRestart
  <2>1. TypeOK'
    <3>1. restart_pending' \in BOOLEAN
      BY <1>7, Zenon DEF ScheduleRestart
    <3>2. QED
      BY <1>7, <3>1 DEF ScheduleRestart, Inv, TypeOK
  <2>2. SafetyOK'
    BY <1>7 DEF ScheduleRestart, MayMutate, Inv, SafetyOK, SlotsOK, RunningOK, ProgressOK,
                SomeSlotIsProven, RunningIsProven, NeverLockedOut
  <2>3. QED
    BY <2>1, <2>2 DEF Inv, SafetyOK
<1>8. QED
  BY <1>3, <1>4, <1>5, <1>6, <1>7 DEF Requests

-----------------------------------------------------------------------------
\* Slots, validation and uploads agree in every state (gateway_ota.c).
THEOREM InvIsInvariant == Spec => []Inv
<1>1. Init => Inv
  BY InitInv
<1>2. Inv /\ [Next]_vars => Inv'
  <2> SUFFICES ASSUME Inv, [Next]_vars
               PROVE  Inv'
    OBVIOUS
  <2>1. CASE Next
    BY <2>1, HaltInv, BootInv, RecordInv, BeginInv, PassiveInv, ValidateInv, RequestsInv
    DEF Next, Bootloader, Validate
  <2>2. CASE UNCHANGED vars
    BY <2>2 DEF vars, flash, validation, web, history, Inv, TypeOK, SlotsOK, RunningOK,
                ProgressOK, SomeSlotIsProven, RunningIsProven, NeverLockedOut
  <2>3. QED
    BY <2>1, <2>2
<1>3. QED
  BY <1>1, <1>2, PTL DEF Spec

\* Whatever is uploaded and wherever power is lost, once an image has been
\* validated one remains that can be booted (gateway_ota.c:143).
THEOREM SomeSlotIsAlwaysProven == Spec => []SomeSlotIsProven
<1>1. Inv => SomeSlotIsProven
  BY DEF Inv
<1>2. QED
  BY <1>1, InvIsInvariant, PTL

\* No image runs as validated without its healthy samples (ota_health.c:20),
\* unless the bootloader had no other and took it for valid.
THEOREM RunningIsAlwaysProven == Spec => []RunningIsProven
<1>1. Inv => RunningIsProven
  BY DEF Inv
<1>2. QED
  BY <1>1, InvIsInvariant, PTL

\* Once an image counts as valid, whatever runs is valid or being validated
\* (gateway_ota.c:425), and never locked out of further updates.
THEOREM NobodyIsEverLockedOut == Spec => []NeverLockedOut
<1>1. Inv => NeverLockedOut
  BY DEF Inv
<1>2. QED
  BY <1>1, InvIsInvariant, PTL
=============================================================================
