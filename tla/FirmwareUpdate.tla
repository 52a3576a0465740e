--------------------------- MODULE FirmwareUpdate ---------------------------
(***************************************************************************)
(* Signed updates over two slots (src/main/gateway_ota.c, ota_health.c):   *)
(* an upload is written to the slot that is not running and selected for   *)
(* the next boot; the new image must then be healthy for some samples in a *)
(* row before a deadline, or the device resets and the bootloader returns  *)
(* to the other slot.  Power may be lost at any point.                     *)
(*                                                                         *)
(* The HTTP task answers one request at a time; the validation task, the   *)
(* timer of the deadline and app_main run beside it.  The bootloader is    *)
(* external: ESP-IDF with rollback enabled and no factory slot.  What it   *)
(* records of a slot that it boots for want of a choice is left open.      *)
(***************************************************************************)
EXTENDS Naturals

CONSTANTS
  Images,         \* signed images of this project
  Healthy,        \* those that can be healthy
  Broken,         \* the content of a slot with no complete image
  HealthDelay,    \* HEALTH_DELAY_MS, HEALTH_DEADLINE_MS, HEALTH_SAMPLES, with
  Deadline,       \*   the second between two samples as the unit of time
  Samples

ASSUME ImagesAssumption == Healthy \subseteq Images /\ Broken \notin Images
ASSUME TimesAssumption ==
  HealthDelay \in Nat /\ Deadline \in Nat /\ Samples \in Nat \ {0}

Slots == 0..1
Other(s) == 1 - s

VARIABLES
  content, entry, chosen,   \* the slots, their OTA data, the slot selected last
  phase, running,           \* how far the device is, and with which slot
  uptime,                   \* counts until the image is validated
  validator,                \* validate_task
  next_sample, gate,
  armed, finished,          \* validation_deadline, validation_finished
  handler, incoming,        \* the HTTP task and the image it receives
  restart_pending

\* History variables: they record what happened and guide no action.
VARIABLES
  streak,     \* healthy samples in a row in this boot
  proven,     \* slots whose image was marked after enough of them
  validated,  \* whether there has been one
  installed   \* slots that the bootloader recorded as valid by itself

flash == <<content, entry, chosen>>
validation == <<uptime, validator, next_sample, gate, armed, finished, streak>>
web == <<handler, incoming, restart_pending>>
history == <<proven, validated, installed>>
vars == <<flash, phase, running, validation, web, history>>

TypeOK ==
  /\ content \in [Slots -> Images \cup {Broken}]
  /\ entry \in [Slots -> {"none", "new", "pending", "valid", "aborted"}]
  /\ chosen \in Slots /\ running \in Slots
  /\ phase \in {"off", "begin", "startup", "up"}
  /\ uptime \in 0..(Deadline + 1) /\ next_sample \in Nat
  /\ validator \in {"none", "sampling", "marking", "marked"}
  /\ gate \in 0..Samples /\ streak \in 0..Samples
  /\ armed \in BOOLEAN /\ finished \in BOOLEAN /\ restart_pending \in BOOLEAN
  /\ handler \in {"idle", "receiving", "received", "leaving"}
  /\ incoming \in Images \cup {Broken}
  /\ proven \subseteq Slots /\ installed \subseteq Slots /\ validated \in BOOLEAN

ResetRam ==
  /\ phase' = "off" /\ running' = 0
  /\ uptime' = 0 /\ validator' = "none" /\ next_sample' = 0
  /\ gate' = 0 /\ streak' = 0
  /\ armed' = FALSE /\ finished' = FALSE
  /\ handler' = "idle" /\ incoming' = Broken /\ restart_pending' = FALSE

\* A board flashed over USB, or one that runs a validated image.
Init ==
  /\ \/ content \in [Slots -> Images \cup {Broken}] /\ content[0] # Broken
        /\ entry = [s \in Slots |-> "none"] /\ proven = {} /\ validated = FALSE
     \/ content \in [Slots -> Images \cup {Broken}] /\ content[0] \in Healthy
        /\ entry = [s \in Slots |-> IF s = 0 THEN "valid" ELSE "none"]
        /\ proven = {0} /\ validated = TRUE
  /\ chosen = 0 /\ installed = {}
  /\ phase = "off" /\ running = 0
  /\ uptime = 0 /\ validator = "none" /\ next_sample = 0
  /\ gate = 0 /\ streak = 0 /\ armed = FALSE /\ finished = FALSE
  /\ handler = "idle" /\ incoming = Broken /\ restart_pending = FALSE

-----------------------------------------------------------------------------
\* The bootloader

\* An image that was still being validated is given up.
GivenUp == [s \in Slots |-> IF entry[s] = "pending" THEN "aborted" ELSE entry[s]]

Bootable(s) == GivenUp[s] \in {"new", "valid"}

\* The slot selected last, else the other one; the first without a choice.
Selection ==
  IF Bootable(chosen) THEN chosen
  ELSE IF Bootable(Other(chosen)) THEN Other(chosen) ELSE 0

\* A slot without a complete image is passed over.
Booted == IF content[Selection] # Broken THEN Selection ELSE Other(Selection)

Boot ==
  /\ phase = "off"
  /\ content[Booted] # Broken
  /\ running' = Booted
  /\ entry' = [GivenUp EXCEPT ![Selection] = IF @ = "new" THEN "pending" ELSE @]
  /\ phase' = "begin"
  /\ UNCHANGED <<content, chosen, validation, web, history>>

\* It may instead record a slot that it boots without a choice as valid.
Record ==
  /\ phase = "off"
  /\ \A s \in Slots : ~Bootable(s)
  /\ content[Booted] # Broken
  /\ running' = Booted /\ chosen' = Booted
  /\ entry' = [GivenUp EXCEPT ![Booted] = "valid"]
  /\ installed' = installed \cup {Booted}
  /\ phase' = "begin"
  /\ UNCHANGED <<content, validation, web, proven, validated>>

\* Power loss, a panic, or an error that app_main checks for.
Crash == phase # "off" /\ ResetRam /\ UNCHANGED <<flash, history>>

-----------------------------------------------------------------------------
\* Start-up

\* gateway_ota_begin_validation on a board without OTA data.
SelectRunning ==
  /\ phase = "begin" /\ entry[running] = "none"
  /\ entry' = [entry EXCEPT ![running] = "new"] /\ chosen' = running
  /\ ResetRam
  /\ UNCHANGED <<content, history>>

\* Faulty: the deadline is not set.
BeginWithoutDeadline ==
  /\ phase = "begin" /\ entry[running] = "pending"
  /\ validator' = "sampling" /\ next_sample' = HealthDelay
  /\ phase' = "startup"
  /\ UNCHANGED <<flash, running, uptime, gate, armed, finished, streak, web, history>>

\* On a new image.  Without the timer or the task app_main panics.
BeginValidation ==
  /\ phase = "begin" /\ entry[running] = "pending"
  /\ armed' = TRUE
  /\ validator' = "sampling" /\ next_sample' = HealthDelay
  /\ phase' = "startup"
  /\ UNCHANGED <<flash, running, uptime, gate, finished, streak, web, history>>

\* On any other one.
SkipValidation ==
  /\ phase = "begin" /\ entry[running] \notin {"none", "pending"}
  /\ phase' = "startup"
  /\ UNCHANGED <<flash, running, validation, web, history>>

\* app_main to its end, gateway_ota_start included.  It may hang.
Started ==
  /\ phase = "startup" /\ phase' = "up"
  /\ UNCHANGED <<flash, running, validation, web, history>>

-----------------------------------------------------------------------------
\* Validation

\* ota_health_gate_sample: the count after one more sample.
Sampled(healthy) ==
  IF ~healthy THEN 0 ELSE IF gate < Samples THEN gate + 1 ELSE gate

\* One sample by validate_task.  Whether a healthy image is healthy now depends
\* on the link, the configuration and the tasks.
Sample ==
  /\ validator = "sampling" /\ ~finished /\ uptime >= next_sample
  /\ \E healthy \in BOOLEAN :
       /\ healthy => phase = "up" /\ content[running] \in Healthy
       /\ gate' = Sampled(healthy)
       /\ streak' = IF ~healthy THEN 0 ELSE IF streak < Samples THEN streak + 1 ELSE streak
  /\ validator' = IF gate' >= Samples THEN "marking" ELSE "sampling"
  /\ next_sample' = IF gate' >= Samples THEN next_sample ELSE uptime + 1
  /\ UNCHANGED <<flash, phase, running, uptime, armed, finished, web, history>>

\* esp_ota_mark_app_valid_cancel_rollback; a failure resets.
Mark ==
  /\ validator = "marking"
  /\ entry' = [entry EXCEPT ![running] = "valid"]
  /\ validator' = "marked"
  /\ proven' = IF streak >= Samples THEN proven \cup {running} ELSE proven
  /\ validated' = TRUE /\ UNCHANGED installed
  /\ UNCHANGED <<content, chosen, phase, running, uptime, next_sample, gate, armed,
                 finished, streak, web>>

MarkFails == validator = "marking" /\ ResetRam /\ UNCHANGED <<flash, history>>

Finish ==
  /\ validator = "marked"
  /\ finished' = TRUE /\ armed' = FALSE /\ validator' = "none"
  /\ UNCHANGED <<flash, phase, running, uptime, next_sample, gate, streak, web, history>>

\* hard_validation_deadline, whatever hangs.
Expire ==
  /\ armed /\ ~finished /\ uptime >= Deadline
  /\ ResetRam
  /\ UNCHANGED <<flash, history>>

\* The clock runs on while the timer task is about to fire.
Tick ==
  /\ phase # "off" /\ armed /\ uptime <= Deadline
  /\ uptime' = uptime + 1
  /\ UNCHANGED <<flash, phase, running, validator, next_sample, gate, armed,
                 finished, streak, web, history>>

-----------------------------------------------------------------------------
\* Requests

\* Faulty: an image that is being validated may be asked to replace the other.
MayMutateUnvalidated == phase = "up" /\ handler = "idle" /\ ~restart_pending

\* gateway_ota_authorize_mutation, for the administrator.
MayMutate ==
  /\ phase = "up" /\ handler = "idle" /\ ~restart_pending
  /\ entry[running] = "valid"

\* upload_post up to esp_ota_begin, which erases the slot.
UploadBegin ==
  /\ MayMutate
  /\ content' = [content EXCEPT ![Other(running)] = Broken]
  /\ proven' = proven \ {Other(running)}
  /\ installed' = installed \ {Other(running)} /\ UNCHANGED validated
  /\ incoming' \in Images
  /\ handler' = "receiving"
  /\ UNCHANGED <<entry, chosen, phase, running, validation, restart_pending>>

\* It is complete and its signature, project and version are accepted.
UploadEnd ==
  /\ handler = "receiving"
  /\ content' = [content EXCEPT ![Other(running)] = incoming]
  /\ handler' = "received"
  /\ UNCHANGED <<entry, chosen, phase, running, validation, incoming,
                 restart_pending, history>>

\* It is cut off, late, refused or cannot be selected.
UploadFail ==
  /\ handler \in {"receiving", "received"}
  /\ handler' = "idle" /\ incoming' = Broken
  /\ UNCHANGED <<flash, phase, running, validation, restart_pending, history>>

\* Faulty: the image that was received counts as validated.
SelectAsValid ==
  /\ handler = "received"
  /\ entry' = [entry EXCEPT ![Other(running)] = "valid"]
  /\ chosen' = Other(running)
  /\ restart_pending' = TRUE
  /\ handler' = "leaving" /\ incoming' = Broken
  /\ UNCHANGED <<content, phase, running, validation, history>>

\* esp_ota_set_boot_partition
Select ==
  /\ handler = "received"
  /\ entry' = [entry EXCEPT ![Other(running)] = "new"]
  /\ chosen' = Other(running)
  /\ restart_pending' = TRUE
  /\ handler' = "leaving" /\ incoming' = Broken
  /\ UNCHANGED <<content, phase, running, validation, history>>

\* reboot_post never returns; a configuration that was saved restarts later.
ScheduleRestart ==
  /\ MayMutate
  /\ restart_pending' = TRUE
  /\ handler' \in {"idle", "leaving"}
  /\ UNCHANGED <<flash, phase, running, validation, incoming, history>>

Restart == restart_pending /\ ResetRam /\ UNCHANGED <<flash, history>>

-----------------------------------------------------------------------------
Bootloader == Boot \/ Record
Begin == SelectRunning \/ BeginValidation \/ SkipValidation
Validate == Sample \/ Mark \/ MarkFails \/ Finish
Requests == UploadBegin \/ UploadEnd \/ UploadFail \/ Select \/ ScheduleRestart

Next == Bootloader \/ Crash \/ Begin \/ Started \/ Validate \/ Expire \/ Tick
        \/ Requests \/ Restart

Spec == Init /\ [][Next]_vars

\* The bootloader and the first lines of app_main run, time passes and timers
\* fire.  Nothing else need happen: the start-up or a sample may hang.
FairSpec ==
  /\ Spec
  /\ WF_vars(Bootloader) /\ WF_vars(Begin)
  /\ WF_vars(Tick) /\ WF_vars(Expire) /\ WF_vars(Restart)

-----------------------------------------------------------------------------
\* Whatever is uploaded and wherever power is lost, once an image has been
\* validated some slot keeps one, complete and bootable (gateway_ota.c:143: no
\* upload before the running image is validated).
SomeSlotIsProven ==
  validated => \E s \in Slots : s \in proven /\ content[s] \in Healthy /\ entry[s] = "valid"

\* An image runs as validated only if it had Samples healthy samples in a row,
\* in one boot, since it was written (ota_health.c:20), or the bootloader took it
\* for valid when it had no other.
RunningIsProven ==
  phase # "off" /\ entry[running] = "valid" => running \in proven \cup installed

\* Once there has been an image that counts as valid, the one that runs is valid
\* or is being validated, so that it can be replaced or is left: never one that
\* gateway_ota.c:425 does not validate and line 143 does not let replace.
NeverLockedOut ==
  (validated \/ installed # {}) /\ phase # "off" =>
    entry[running] \in {"pending", "valid"}

\* What the OTA data says of the slots at any time.
SlotsOK ==
  /\ \A s \in proven : content[s] \in Healthy /\ entry[s] = "valid"
  /\ \A s \in installed :
       /\ content[s] # Broken /\ entry[s] = "valid" /\ s \notin proven
       /\ validated => s = Other(chosen) /\ chosen \in proven
       /\ entry[Other(s)] = "valid" => validated
  /\ proven # {} => validated
  /\ \A s \in Slots :
       /\ entry[s] \in {"new", "pending"} => s = chosen /\ content[s] # Broken
       /\ entry[s] = "valid" /\ s \notin proven \cup installed =>
            s = Other(chosen) /\ chosen \in proven

\* The slot that runs is the one selected last, unless that cannot be booted or
\* a later one has been selected for the next boot.
RunningOK ==
  phase # "off" =>
    /\ content[running] # Broken
    /\ entry[Other(running)] \in {"new", "pending"} => handler = "leaving"
    /\ entry[running] = "valid" /\ entry[Other(running)] = "valid" => chosen = running

\* How far validation and an upload are, by the slot that runs.
ProgressOK ==
  /\ phase \in {"off", "begin"} => /\ validator = "none" /\ gate = 0
                                  /\ ~armed /\ ~finished /\ handler = "idle"
  /\ gate = streak
  /\ validator # "none" => armed /\ ~finished
  /\ validator \in {"sampling", "marking"} => entry[running] = "pending"
  /\ validator = "sampling" => gate < Samples
  /\ validator = "marking" => streak >= Samples /\ content[running] \in Healthy
  /\ armed /\ validator # "marked" => entry[running] = "pending"
  /\ handler # "idle" => entry[running] = "valid" /\ phase = "up"
  /\ handler \in {"receiving", "received"} =>
       /\ running \in proven \cup installed
       /\ Other(running) \notin proven \cup installed
       /\ incoming # Broken
  /\ handler = "received" => content[Other(running)] # Broken

\* Slots, validation and uploads agree (gateway_ota.c:143 and 385-391); it is
\* inductive.
Inv ==
  /\ TypeOK /\ SlotsOK /\ RunningOK /\ ProgressOK
  /\ SomeSlotIsProven /\ RunningIsProven /\ NeverLockedOut

\* OTA.md:86-90: a new image is validated or reset by its deadline, whatever
\* hangs on the way.
PendingIsResolved ==
  phase # "off" /\ entry[running] = "pending" ~>
    phase = "off" \/ entry[running] = "valid"

\* An image that cannot be healthy is left for the one it replaced.
UnhealthyIsRolledBack ==
  phase # "off" /\ content[running] \notin Healthy /\ proven # {} ~>
    phase # "off" /\ running \in proven
=============================================================================
