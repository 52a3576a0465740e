# Modbus/TCP to BACnet/IP gateway: TLA+ models

These modules model the firmware in `src/main` of the ESP32-P4 gateway, which
polls a Kohler MPAC 1500 transfer switch (or the points of a custom CSV map)
over Modbus/TCP and serves what it reads as read-only BACnet/IP objects. TLC
checks them on small instances; the theorems are checked by TLAPS for every
value of the constants. Line numbers below are those of `src/main` unless a
directory is given.

## The system

| Component | State | Operations | Interacts with |
|---|---|---|---|
| `app_main.c` tasks | under `lock`: `network_up`, `network_generation`, `network_info`, `published`, `published_generation`, `published_bacnet` | `network_event`, `poll_task`, `bacnet_task`, status and points JSON, `startup_healthy` | everything |
| ATS engine `gateway_poll.c` | `gateway_poll_t`: identity stage, due times, back-off, blocks | `init`, `step`, `offline` | called by `poll_task`; calls the Modbus client and the register model |
| Register model `ats_model.c`, `ats_map.inc` | `ats_block_state_t` per block | `apply_block`, `fail_block`, `decode` | engine writes it, `snapshot_values` reads a copy |
| Custom map `custom_map.c` | parsed points, sample cache | `parse`, `step`, `offline`, `decode` | as the ATS engine |
| Modbus client `modbus_tcp.c` | one socket per request | `mb_read_holding` | engines, network |
| Error history `error_history.c` | ring in RAM, dirty counters, blob in NVS | `init`, `record`, `flush_pending`, `json` | `poll_task` records, a worker task writes, the web task reads |
| BACnet adapter `gateway_bacnet.c`, `bip_port.c` | objects, address, socket, COV recovery | `init`, `network_update`, `update`, `tick`, `poll` | only `bacnet_task` |
| Configuration `gateway_config.c`, `gateway_web.c`, `web/index.html` | blob `settings_v1`, running copy, `restart_pending`, pages | load, show, validate, save, restart | web task; the pages poll it |
| Configuration region `gateway_storage.c` | ownership marker and NVS region | `prepare` | before every load |
| Firmware update `gateway_ota.c`, `ota_health.c`, `ota_auth.c` | two slots with OTA data, upload flags, validation task and deadline | authorize, upload, reboot, begin validation | web task, validation task, timer, bootloader |
| `dashboard_redirect.c`, `src/tools` | none on the device | redirect; host scripts | |

What is hard in it:

* **Tasks that meet under one lock.** `poll_task` reads the network state,
  blocks in a request, and publishes; `bacnet_task` takes values and the network
  generation at other times; the link may bounce between any two of these.
* **Stale or foreign data.** A controller may be replaced by another model
  without a lost packet, and one register means something else there.
* **Scheduling.** One request at a time, with pauses, back-off, rejection and
  periodic identity checks all written into one `next_request_ms`.
* **Power loss, failed loads and failed writes** around three persistent
  things: the history blob, the configuration, the firmware slots.
* **Retries with partly applied state**: the BACnet rebind stores the address
  before it opens the socket, an uncertain NVS write, a lost answer to a save.
* **Slow or silent peers**: a Modbus answer in pieces, late or wrong, a
  subscriber that does not acknowledge, one point of a map that fails.

`PROJECT.json` lists every component with its status, and every hazard with its
line and the properties that would catch it.

## Modules

| Module | Models | Checked by |
|---|---|---|
| `HistoryLog` | what the error history promises: an append-only log of bounded length | through `ErrorHistory` |
| `ErrorHistory` | `error_history.c`: boot, record, the flush worker, crash | `error_history` |
| `ErrorHistory_proofs` | theorems about it | TLAPS |
| `PollContract` | what the gateway may assume of a polling engine | through `GatewayPoll` and `CustomPoll`, which implement it |
| `GatewayPoll`, `MCGatewayPoll` | `gateway_poll.c` and the block cache of `ats_model.c` | `gateway_poll` |
| `GatewayPoll_proofs` | theorems about it | TLAPS |
| `Gateway` | the event handler, `poll_task` and `bacnet_task` of `app_main.c` over any engine of `PollContract`, with the BACnet adapter's network handling | `gateway` |
| `Gateway_proofs` | theorems about it | TLAPS |
| `CustomPoll`, `MCCustomPoll` | the poller of a custom map, `custom_map.c` | `custom_poll`, `custom_poll_stale` |
| `CustomPoll_proofs` | theorems about it | TLAPS |
| `ModbusTransaction` | one request of `modbus_tcp.c`, and the next | `modbus_transaction` |
| `ModbusTransaction_proofs` | theorems about it | TLAPS |
| `BacnetCov`, `MCBacnetCov` | notifications to subscribers and their recovery, `gateway_bacnet.c` | `bacnet_cov` |
| `BacnetCov_proofs` | theorems about it | TLAPS |
| `ConfigStore`, `MCConfigStore` | the configuration from browser page to flash and back | `config_store`, `config_store_map` |
| `GatewayStorage`, `MCGatewayStorage` | where the configuration is kept, `gateway_storage.c` | `gateway_storage` |
| `ConfigStore_proofs` | theorems about both | TLAPS |
| `FirmwareUpdate` | uploads, slots, validation and rollback | `firmware_update` |
| `FirmwareUpdate_proofs` | theorems about it | TLAPS |

`GatewayPoll`, `CustomPoll` and `Gateway` compose through `PollContract`. That the
first two implement it, each with its engine, is checked and proved there.
`Gateway` assumes it: its engine is built from the actions of an instance of
`PollContract`, and may take any of them that the place in the loop of
`poll_task` allows. So `Gateway` says nothing about an engine, and what it shows
of the two tasks holds for either. Both engines take
a request as something that ends within its deadline with one of a few outcomes;
that it does, and that an answer is the right one, is what `ModbusTransaction`
shows. `GatewayStorage` ends where `ConfigStore` begins, with a region that can
be loaded or not; its definitions are named `Storage...` so that the proofs can
extend both. `ConfigStore` and `FirmwareUpdate` share only "a restart
happens", which each takes as possible at any time.

### From code to model

* **ErrorHistory.** `blob` is the ring in RAM, `flash` the stored blob with
  whether it is absent, stored, or `foreign` (unreadable for this code).
  `valid_blob` is the boot-time validation. A flush is split where the code
  releases the lock or calls NVS: `FlushBegin` (the due test), `FlushAllocFails`,
  `FlushCopy`, `FlushWrite` (success, failure, or failure that took effect),
  `FlushEnd` (`Acknowledged`). Errors carry only sequence number and boot; the
  other fields never decide anything.
* **GatewayPoll.** One call of `gateway_poll_step` is `AskIdentity` or
  `AskBlock` up to the request and one action per outcome after it. A controller
  is the set of identity probes that it passes; `Swap` replaces it at any time,
  also during a request. `NetworkChanged` is what `poll_task` does between
  steps. Counters shown on the status page are left out.
* **Gateway.** An action ends where a task takes or gives back the lock. A value
  is the set of network generations that it rests on: those its read went through
  and those that the probes of the identity check before it went through (`probed`,
  a history variable that `Offline` and the start of a new check reset); `{}` is
  a value that is not good. `gateway_bacnet_init` and `gateway_bacnet_network_update` take
  the outcome of opening the socket as a parameter. `due` is the 200 ms refresh.
* **ConfigStore.** A configuration is its revision, its settings (a member of a
  small set, some of which select the custom profile) and its CSV map. The web
  server handles one request at a time, so `Write` (checks and NVS write) and
  `Answer` (reply, `restart_pending`, timer) are the two halves of
  `save_handler`, and power may be lost between them. A page keeps the
  configuration it shows (`form`) and waits as `waitForRestart` does. `Reject`
  stands for every refusal: authorisation, form, memory, and any of the checks
  of `MaySave` that fails; it may come at any time, so nothing depends on the
  JSON rules. Loading may fail at any boot (storage, memory, content).
* **FirmwareUpdate.** `content` is what the slots hold, `entry` the OTA state of
  each, `chosen` the slot of the highest OTA sequence. The bootloader actions
  (`Boot`, `Record`, `Selection`, `GivenUp`) are external and follow ESP-IDF's
  documented rollback. Its source is not in the repository, and what it writes
  when there is no slot to choose, on erased OTA data or when every image has
  been given up, is left open: `Boot` leaves the slot that it falls back to as it
  is, which is the case that `gateway_ota.c:406` handles, and `Record` records it as
  valid. `installed` is the history of the slots recorded so. `begin`, `startup`, `up` are how far `app_main` has come;
  `validator` is `validate_task`, with `Mark` and `Finish` separate because the
  deadline timer may fire between them. `streak` counts healthy samples
  independently of the gate that the code uses.
* **ModbusTransaction.** `pc` is where `mb_read_points` is, `wait` where it is in
  `wait_ready`. `SelectReady`, `SelectTimesOut`, `SelectFails` and
  `SelectInterrupted` are the returns of select; the transfer that follows moves
  any number of units, may be interrupted, and fails if the connection is gone.
  `Device` lets the answer come in pieces; of its content the model keeps which
  check of `check_header` fails first and what the rest turns out to be.
  `received_at` is history.
* **CustomPoll.** One call of `custom_poll_step` is `Ask` and one of
  `ReadValid`, `ReadInvalid`, `ReadRefused`, `NoAnswer`. `NetworkChanged` is
  `poll_task`. `poll_task` calls the step every 25 ms, so the clock, in ticks of
  the 250 ms gap, does not pass a request that may be made. A value is its
  quality and the time of its last good sample. `heard` and `healthy` are history.
* **GatewayStorage.** One boot of `gateway_storage_prepare`, an action for each
  place at which power may be lost: the checks of the table, the marker, the
  scan, setting and committing the mark, registering the region, the first NVS
  write. The region is blank, partly written, the gateway's or somebody's.
* **BacnetCov.** An action is one call that `bacnet_task` makes. The protocol
  stack is a submodule that is not in the repository; its subscriptions,
  transactions and passes are modelled by how `gateway_bacnet.c` drives them and
  marked external where they are not its code. `requested`, `flight`, `known` are
  the stack and the subscriber; `recovery` is the table of lines 120-138 and
  252-264. `overtaken` is history.

Definitions named in comments as "Faulty" are plausible mistakes in the code
(`... as` in `PROJECT.json` "mutants"); each breaks the property it is listed
with, and no specification uses them.

## Runs

| Run | Bounds | Shows |
|---|---|---|
| `error_history` | capacity 3, 3 boots, 7 errors, flush interval 2 | the invariant, nothing dirty is forgotten, stored history is only continued, refinement of `HistoryLog`, and that every change is saved, reported, or cut off by a restart |
| `gateway_poll` | 2 blocks, 3 controllers, clock to 12 | identity before data, no good data while in doubt, freshness, pauses and backoff (in `Inv`), fairness between blocks, and `PollContract` |
| `gateway` | 2 values, 2 addresses, 3 network events | origin of everything shown and of the identity it rests on, settled network, that a link loss shows and a new network is followed |
| `custom_poll` | 3 points, clock to 16 | ages within one sweep, nothing good from before a silence, and `PollContract` |
| `custom_poll_stale` | 10 points, constants of the code | expected violation, see Findings |
| `modbus_transaction` | messages of up to 4 units, timeout 3 | an answer is complete, of this request and in time; every call returns |
| `bacnet_cov` | 1 object, 3 subscribers, 2 transactions | who lacks a value is going to be told, and is told |
| `config_store` | 2 pages, 2 settings, 1 map, 3 revisions | no lost update, one map for a revision, what a page reports, that what was written becomes active after a restart |
| `config_store_map` | 2 pages | expected violation, see Findings |
| `gateway_storage` | both tables with 9 sectors, each with one partition more or less | foreign data is kept, own data is never refused, no overlap |
| `firmware_update` | 2 images, 3 samples, delay 2, deadline 7 | always a validated image to fall back to; none runs that can neither be validated nor replaced, once there has been a valid one; a new image is resolved in time, an unhealthy one rolled back |

`Inv` (`StorageInv` in `gateway_storage`) of each run is the inductive invariant of its module. It has further named
properties among its conjuncts or consequences, for instance that a
descriptor is closed, that an exception code is of this call, or that an address
is announced; they are stated beside it and, where a module has proofs, proved.

Why the bounds are enough for the cases that matter:

* Seven errors in a ring of three wrap twice; three boots allow a failed load
  between two good ones, and a reused boot number.
* Twelve ticks contain a full identification (4 probes with pauses), data of
  both blocks, the periodic recheck (4 ticks) and a rejection (4 ticks). The
  periods, stale limits and delays keep the order of the real ones: back-off is
  capped, the recheck is the longest, the slow block's period is twice the fast
  one's.
* Three network events are enough for up, down and up with another address, or
  for two changes of address while a request or a rebind is under way. Two values
  tell an engine that gives up everything from one that gives up one value. `MaxGeneration` only
  bounds events; the safety results hold for any number of events and values by
  proof.
* Two pages with three revisions can both edit the first, race for the second
  and exhaust the third; revision 3 stands for `UINT32_MAX`, so the exhaustion
  check is exercised. `NeverReplaced` ends an execution of `config_store` at the
  replacement of a configuration that could not be loaded, where revisions may
  be used again (`RevisionNamesOneMapIfLoaded` says nothing after that);
  `config_store_map` does not stop there.
* Timeout 3 against messages of four units lets an answer come in time, in part
  or after the deadline, and a wait be woken twice within it. A clock that may
  run to 5 passes the deadline.
* Three points with periods of 1, 2 and 4 ticks and requests that take 2 or 3 are
  more than the poller can do, so points are late and the order of the queue
  matters; 16 ticks contain a backoff of every length (3 and 5) and a value
  past its limit (12). `custom_poll_stale` has the true
  constants in ticks of 250 ms and a single latency, which keeps a clock of 160
  ticks small.
* The tables of `gateway_storage` are those of the repository with sectors for
  sizes, each also with any one partition left out or one more put anywhere; the
  smaller flash ends before the region of the older table.
* One object suffices for `bacnet_cov`, where entries of different objects do
  not touch each other. Three subscribers and two transactions make one wait; two
  of them never answer.
* Samples 3, delay 2 and deadline 7 leave room for one broken streak before a
  late success and for a success that coincides with the deadline.

The runs of `CustomPoll` do not check for deadlock, since there the bounded clock
ends everything; all others do. No state of those systems has to stop: where the
bounds end a dimension (the clock, the events), other actions remain.

## Fairness

* `error_history`: the worker task (`persistence_task` loops for ever with
  a delay) and the clock. Nothing makes a write succeed: the property allows a
  reported error.
* `gateway`: both tasks loop with a delay and FreeRTOS runs each again; the
  200 ms timer elapses. A socket that can be opened at infinitely many attempts
  is opened at some (strong fairness of `BacnetTop(TRUE)`): the code retries
  every round but cannot make `bip_init` succeed.
* `config_store`: the device boots after power loss, ends a handler it has
  begun, and its restart timer fires. Pages owe nothing.
* `firmware_update`: the bootloader and the first lines of `app_main` run,
  the clock advances, armed timers fire. Start-up (`Started`), samples and
  marking owe nothing, so the deadline has to do its work alone.

* `modbus_transaction`: the call is executed and the clock runs. The device owes
  nothing. A signal may interrupt select for ever; only the clock ends that.
* `bacnet_cov`: the tick is called over and over and time passes for it; no
  transaction stays open for ever (the stack gives up after its repetitions); a
  subscriber that answers acknowledges one of infinitely many notifications
  (strong fairness). `SubscriberIsTold` has a premise besides, `Calm`: from
  some time on nobody asks again and sending does not fail, since the stack visits
  subscribers by number and one with a low number that renews in every round
  would get the free transaction every time.

## Proofs

`ErrorHistory_proofs` proves, for every capacity, flush interval and number of
boots and errors:

* `InvIsInvariant` (Spec => []Inv). `Inv` is inductive: `RingOK` describes a
  ring by sequence number (the slot of number s is (s-1) mod capacity, its
  boot number at most the ring's); `ProtocolOK` says, for each place the worker
  can be at, how ring, snapshot and flash continue one another. The properties
  alone are not inductive: that the acknowledged counter is right depends on the
  snapshot being what the ring was at `snapshot_generation`.
* `OwnHistoryIsAccepted`, `NothingDirtyIsEverForgotten` and the action property
  `StoredHistoryIsAlwaysKept` follow from `Inv`. The lemma they share is that
  continuing a ring is transitive and that recording one error continues it.
* `HistoryImplementsLog`: the device refines `HistoryLog`. The window of a log is
  the set of sequence numbers a ring remembers, so recording is an append because
  the slot that is overwritten is the only one that leaves the window
  (`RecordedSlots`); loading and power loss are restarts; copy, write and end of a
  flush stage, store and discard; a write that failed before it took effect, the
  clock and a boot without a mutex are stutters. It needs `Inv`: that an absent
  history is an empty one, and that only a boot that loaded the flash flushes.
* `LogIsOnlyContinued` is about `HistoryLog` alone, with variables of its own: a
  stored log is replaced only by a later state of itself, and one that could not
  be read by none. Its invariant orders the three logs, stored, staged and live.

`Gateway_proofs` proves, for any items, addresses, number of network events and
any engine that keeps to `PollContract`:

* `InvIsInvariant`. `Inv` adds to the properties what each task knows at each
  place of its loop: the generations a task has seen have happened; the engine
  holds only values, and only the part of an identity check, that rest on what was
  read since `poll_task` last looked at the network; the socket is open exactly
  when the adapter says its link is up, and then the address was announced; a
  generation counted as handled is really followed.
* `PublishedIsAlwaysOfItsGeneration`, `ShownIsAlwaysReadOnThisNetwork`,
  `AlwaysSettledOnNetwork`, `AddressIsAlwaysAnnounced` follow from it.

`BacnetCov_proofs` proves, for any objects, subscribers, limits and delays, from
the assumption that the table has a place for each object (`CapacityAssumption`;
`RECOVERY_CAPACITY` is 8 more than the points, and the gateway has fewer objects of
its own):

* `TimeoutsAreAlwaysRecorded`: the search for a free entry never fails
  (`gateway_bacnet.c:256` falls through silently if it does). Entries and objects
  that have none are counted together against the objects: there is one entry for
  an object at most, and the new ones have none.
* `InvIsInvariant`. `Inv` has, besides the types and one entry per object,
  `ToldOK`: a subscriber that was not overtaken has something pending, or is
  being told the current value, or knows it. `NothingIsForgotten` alone is not
  inductive: it is content with a notification of an old value that is under way,
  and an acknowledgement of that would leave nothing.
* `NoSubscriberIsForgotten` follows. In a pass a subscriber is told, stays marked,
  or is neither; in the third case its object has not changed, and either keeps
  its entry or had none and nothing of it expired.

`GatewayPoll_proofs` proves, for any number of blocks, any periods and delays
and any set of controllers (from the assumptions that periods, the retry delay,
the recheck delay and the number of backoff steps are positive and the pause is
no longer than the delay after a rejection):

* `InvIsInvariant`. `Inv` has a part for time (no time stamp lies in the future,
  so the block cache never refuses a fault; a request ends by its deadline; what
  is good was stamped at most one request after the identity was valid; the next
  request waits for the gap, the backoff of the failures in a row or the
  rejection, whatever came between), one
  for identity (a controller that was not replaced since the check began passes
  every probe below the present stage), and one for the queue (a block that was
  preferred to a due one is due after it from then on).
* Identity before data, nothing good while in doubt, freshness, spacing, and that
  no block is passed twice by the same other block follow, and with it that a due
  block waits for at most `NBlocks - 1` reads (`DueBlockWaitsForOthersOnce`).
* `EngineImplementsContract`: the engine refines `PollContract`.

`FirmwareUpdate_proofs` proves, for any images and any delays:

* `InvIsInvariant`. `Inv` says what the OTA data means: a new or pending entry
  is that of the slot selected last; a valid entry that is no longer proven (its
  slot was erased for an upload) belongs to the other slot while the selected
  one is proven; the slot that runs is the selected one unless that cannot be
  booted. Without these the bootloader could return to an erased slot.
* `SomeSlotIsAlwaysProven`, `RunningIsAlwaysProven` and `NobodyIsEverLockedOut`
  follow. They rest on the bootloader as modelled, with either outcome where it has
  no slot to choose: an image may also run as valid because the bootloader
  recorded it so, and `installed` then keeps the slot until it is replaced.

`CustomPoll_proofs` proves, for any points, periods, latencies and delays:

* `InvIsInvariant`. `Inv` says that no time stamp lies in the future, that a
  request ends by its deadline, that the next one waits for the pause, that a
  good value was read since the last silence, and `SweepOK`.
* The pause or backoff between requests, that what is shown is backed by a sample
  within its limit, that nothing is shown from before a silence, and that the
  poller implements `PollContract`.
* `AgesAlwaysStayWithinOneSweep`, from `SweepOK`: for each healthy point there is
  time for all points ahead of it, a slot of three gaps for each, before a sweep
  has passed since it was due. A point that is read is not ahead any more: it is
  due a period later, which is at least a gap, so after a point that is due by the
  time of the next request. That a period is no shorter than the gap is the
  assumption `PeriodsAssumption` (`custom_map.c:176` accepts no period below
  1000 ms). Fewer points ahead and an earlier request fit as well (`LessFits`),
  and asking for one of them takes its slot (`OneLessFits`).
* `CoveredPointsStayFresh`: a point that is healthy, which includes that answers
  take at most 500 ms, does not go stale if its period is at most 1450 ms or at
  least half a sweep of the others and a request. So the finding
  `custom_poll_stale` can only hit the periods in between.

`ModbusTransaction_proofs` proves, for any timeout and sizes:

* `InvIsInvariant`. `Inv` says that select is entered only with the deadline of
  the call, at which places a descriptor is open, and that a body is received
  only after a header that was checked.
* An answer is complete, of this request and in time; the call blocks only before
  its deadline; the descriptor is closed; an exception code is of this call.

`ConfigStore_proofs` proves, for any pages, settings, maps and revisions:

* `InvIsInvariant`. `Inv` says what the device, an answer under way and each page
  may hold in relation to the flash, in particular that nothing names a revision
  newer than the flash and that equal revisions are equal configurations, unless
  a configuration that could not be loaded was replaced.
* The flash is at most one save ahead, one map for a revision, no confirmed change
  is undone unseen, and a page reports only what was revised. The first two and
  the last except what follows a failed load, as the definitions say.

Its second part proves about `GatewayStorage`, for any set of tables and flash
sizes:

* `StorageInvIsInvariant`: the region holds what the gateway wrote only if its mark is
  committed, and each step of a boot is reached only past its checks.
* Foreign data is kept, own data is never refused, and the storage overlaps
  nothing. They rest on the assumption that nobody else writes the region or
  erases the default NVS between two boots.

Only model-checked are the liveness properties, which are outside the prover's
reach; every invariant, action property and refinement that a run checks is proved.

## Findings

Each is a run with an expected violation.

1. `config_store_map`: docs/WEB_CONFIGURATION.md:120 says that saving other
   settings preserves the custom map; after a failed load there is no map in the
   running copy, and the save replaces the stored one by none.
2. `custom_poll_stale`: custom_map.h:61 says that freshness allows a healthy
   sweep; the limit is the larger of three periods and one sweep, but a point is
   read again only a period after its last read plus the sweep of the others. Ten
   points on a controller that answers in 500 ms are enough for one to go stale.

Properties that pass carve out what the code does not promise, and say so where
they are stated:

* `SpacedUnlessBounced`, `PausesUnlessBounced`: a change of the network generation
  cancels the pause and any backoff (`app_main.c:154` and 177), although
  README.md:68 names 250 ms between transactions.
* `RunningIsProven`, `NeverLockedOut`: a board flashed over USB has no validated
  image. If its first one is given up and the bootloader leaves that on record,
  the board runs an image that is never validated (`gateway_ota.c:425`) and refuses
  mutations; the premise of `NeverLockedOut` excludes it, as nothing in the
  repository says otherwise.
* `RevisionNamesOneMapIfLoaded`: after a failed load the defaults run as revision
  1, and a save from them uses revision 2 again.
* `PageReportsRevised`: the page takes any other revision for the revised
  configuration, also the defaults after a failed load.
* `NothingIsForgotten`, `SubscriberIsTold`: when one subscriber of an object is
  told, the recovery entry of the object is cleared also for another that timed
  out in the same call (`overtaken`, `gateway_bacnet.c:127-138`).
* `AgeIsWithinOneSweep`: a point that the controller refuses delays every request
  after it by the backoff, so the bound starts anew.

## Not modelled

* Decoding and qualification of the 164 points, the point catalogue, the parsing
  of CSV and JSON, BACnet encoding and datagrams (`bip_port.c`): functions of
  their input that keep no state.
* Tokens, TLS, the HTTP redirect, status and report pages, host tools: no state
  of the device changes.
* The BACnet stack and ESP-IDF are external: only what the gateway relies on.
* Partitions on other flash chips in `gateway_storage.c`.
* Ages in the composition: `snapshot_values` and `startup_healthy` read the clock
  before they wait for the lock (`app_main.c:97`, 197), and between a network
  change and the next refresh, at most 200 ms, the rebound server still answers
  with earlier values. `Gateway` has no clock.
* A boot number is in flash only after the first flush of its boot
  (`error_history.c:178`), so that after an earlier power loss it is used again;
  the reports in which somebody may have seen it are not modelled.

## Plan

What would add most next:

1. A timed composition of the two tasks with their heartbeats and ages.
2. A schedule of `GatewayPoll` with the real scan table
   (`ats_map.inc:352-376`): how long the first sweep takes against the stale
   limits, within what TLC can explore.
3. A log-like abstract specification of the two OTA slots and of the configuration
   region, and proofs that `FirmwareUpdate` and `ConfigStore` refine them.
