--------------------------- MODULE GatewayStorage ---------------------------
(***************************************************************************)
(* Where the configuration is kept (src/main/gateway_storage.c): at every  *)
(* boot the partition that the table declares for it is taken, or on a     *)
(* board with the older two-slot table, which is never rewritten, a region *)
(* behind the last partition that the gateway has marked as its own.  Only *)
(* a blank region may be marked; the mark is written before the region is. *)
(*                                                                         *)
(* Power may be lost between any two steps.  Addresses are in sectors; of  *)
(* the region the model keeps whose its content is.                        *)
(***************************************************************************)
EXTENDS Naturals, FiniteSets

CONSTANTS
  Tables,            \* partition tables, each a set of partitions
  FlashSizes,
  FactoryPlaces,     \* where each kind of partition has to be, in the table
  OtaPlaces,         \* with one slot and in the one with two
  FactoryAddress,    \* of gateway_cfg in them
  OtaAddress,
  StorageSize,
  MaxPartitions      \* MAX_PRIMARY_PARTITIONS

\* A place is [start |-> .., size |-> ..]; a partition has a kind besides, its
\* type, subtype and label, and cannot be used if it is read-only or encrypted.
Start(p) == p.place.start
End(p) == p.place.start + p.place.size
Gateway == "gateway_cfg"
Places == [start : Nat, size : Nat]
Partitions == [kind : STRING, place : Places, usable : BOOLEAN]

ASSUME TablesAssumption ==
  /\ Tables \subseteq SUBSET Partitions
  /\ FlashSizes \subseteq Nat
  /\ {OtaAddress, FactoryAddress, StorageSize, MaxPartitions} \subseteq Nat

VARIABLES
  table, flash_size,   \* of this board
  marker,              \* ownership_marker in the default NVS
  region,              \* the content of the storage
  pc,                  \* how far this boot has come
  registered,          \* the descriptor in RAM
  op_failed            \* history: a flash or NVS operation failed in this boot

board == <<table, flash_size>>
storageVars == <<board, marker, region, pc, registered, op_failed>>

Declared == {p \in table : p.kind = Gateway}

StorageTypeOK ==
  /\ table \in Tables /\ flash_size \in FlashSizes
  /\ marker \in {"none", "ours", "other"}
  /\ region \in {"blank", "partial", "ours", "foreign"}
  /\ pc \in {"off", "prepare", "marker", "scan", "claim", "commit", "register",
             "init", "ready", "failed"}
  /\ registered \in BOOLEAN /\ op_failed \in BOOLEAN

\* A board from the field: a region that is not declared and not marked was
\* never written by the gateway.
StorageInit ==
  /\ table \in Tables /\ flash_size \in FlashSizes
  /\ marker \in {"none", "ours", "other"}
  /\ region \in {"blank", "ours", "foreign"}
  /\ Declared = {} => (marker = "ours" <=> region = "ours")
  /\ pc = "off" /\ registered = FALSE /\ op_failed = FALSE

-----------------------------------------------------------------------------
\* The checks of the partition table

overlap(a, b) ==
  a.start < b.start + b.size /\ b.start < a.start + a.size

\* What inventory requires of the whole table.
inventory ==
  /\ Cardinality(table) <= MaxPartitions
  /\ Cardinality(Declared) <= 1
  /\ \A p \in table : p.place.size > 0 /\ End(p) <= flash_size
  /\ \A p, q \in table : p # q => ~overlap(p.place, q.place)

\* Exactly one partition of the kind, and that in its place.
exact(kind, place) ==
  /\ \E p \in table : p.kind = kind
  /\ \A p, q \in table : p.kind = kind /\ q.kind = kind => p = q
  /\ \A p \in table : p.kind = kind => p.place = place /\ p.usable

factory_layout == \A kind \in DOMAIN FactoryPlaces : exact(kind, FactoryPlaces[kind])
ota_layout == \A kind \in DOMAIN OtaPlaces : exact(kind, OtaPlaces[kind])

\* A declared partition that may be taken.
DeclaredFits ==
  \A p \in Declared :
    /\ p.usable /\ p.place.size = StorageSize
    /\ \/ Start(p) = FactoryAddress /\ factory_layout
       \/ Start(p) = OtaAddress /\ ota_layout

Storage == [start |-> OtaAddress, size |-> StorageSize]

\* Faulty: the partitions are not compared with the region.
IsFreeUnchecked == ota_layout /\ OtaAddress + StorageSize <= flash_size

\* The region behind the two slots exists and nothing is in it.
IsFree ==
  /\ ota_layout
  /\ OtaAddress + StorageSize <= flash_size
  /\ \A p \in table : ~overlap(Storage, p.place)

-----------------------------------------------------------------------------
\* gateway_storage_prepare

PowerOn ==
  /\ pc = "off"
  /\ pc' = "prepare" /\ op_failed' = FALSE
  /\ UNCHANGED <<board, marker, region, registered>>

Refuse == pc' = "failed" /\ UNCHANGED <<board, marker, region, registered, op_failed>>

OperationFails ==
  /\ pc' = "failed" /\ op_failed' = TRUE
  /\ UNCHANGED <<board, registered>>

Go(step) == pc' = step /\ UNCHANGED <<board, marker, region, registered, op_failed>>

\* Reading the size of the flash, the marker or the region, or registering it.
ReadFails ==
  /\ pc \in {"prepare", "marker", "scan", "register"}
  /\ OperationFails
  /\ UNCHANGED <<marker, region>>

CheckTable ==
  /\ pc = "prepare"
  /\ IF ~inventory THEN Refuse
     ELSE IF Declared # {} THEN IF DeclaredFits THEN Go("init") ELSE Refuse
     ELSE IF IsFree THEN Go("marker") ELSE Refuse

\* Faulty: a marker of something else counts.
CheckMarkerPresent ==
  /\ pc = "marker"
  /\ IF marker = "none" THEN Go("scan") ELSE Go("register")

check_marker ==
  /\ pc = "marker"
  /\ \/ marker = "none" /\ Go("scan")
     \/ marker = "ours" /\ Go("register")
     \/ marker = "other" /\ Refuse

\* Faulty: the region is not read before it is claimed.
ScanNothing == pc = "scan" /\ Go("claim")

\* claim_blank_region up to its write.
Scan ==
  /\ pc = "scan"
  /\ IF region = "blank" THEN Go("claim") ELSE Refuse

\* Faulty: the region is initialised before it is marked.
SetMarkerLater ==
  /\ pc = "claim"
  /\ region' = "ours" /\ pc' = "commit"
  /\ UNCHANGED <<board, marker, registered, op_failed>>

\* nvs_open and nvs_set_blob
SetMarker == pc = "claim" /\ Go("commit")

\* nvs_set_blob or nvs_commit reports an error, and may have taken effect.
MarkFails ==
  /\ pc \in {"claim", "commit"}
  /\ OperationFails
  /\ marker' \in {marker, "ours"}
  /\ UNCHANGED region

Commit ==
  /\ pc = "commit"
  /\ marker' = "ours" /\ pc' = "register"
  /\ UNCHANGED <<board, region, registered, op_failed>>

\* esp_partition_register_external
Register ==
  /\ pc = "register"
  /\ registered' = TRUE /\ pc' = "init"
  /\ UNCHANGED <<board, marker, region, op_failed>>

\* nvs_flash_init_partition writes to the region, whatever it finds there.
InitNvs ==
  /\ pc = "init"
  /\ region' = "ours" /\ pc' = "ready"
  /\ UNCHANGED <<board, marker, registered, op_failed>>

InitFails ==
  /\ pc = "init"
  /\ OperationFails
  /\ region' \in {region, "partial"}
  /\ UNCHANGED marker

\* Power loss, or a restart.  What was being written may or may not be in flash.
PowerLoss ==
  /\ pc # "off"
  /\ marker' \in IF pc = "commit" THEN {marker, "ours"} ELSE {marker}
  /\ region' \in IF pc = "init" THEN {region, "partial"} ELSE {region}
  /\ pc' = "off" /\ registered' = FALSE
  /\ UNCHANGED <<board, op_failed>>

-----------------------------------------------------------------------------
StorageNext ==
  \/ PowerOn \/ CheckTable \/ ReadFails \/ check_marker \/ Scan
  \/ SetMarker \/ MarkFails \/ Commit \/ Register
  \/ InitNvs \/ InitFails \/ PowerLoss

StorageSpec == StorageInit /\ [][StorageNext]_storageVars

-----------------------------------------------------------------------------
\* The inductive invariant that the properties after it rest on, for a region
\* that the table does not declare.

\* The mark says that the region is not foreign, and whatever the gateway has
\* written is marked.
MarkOK ==
  Declared = {} =>
    /\ marker = "ours" => region # "foreign"
    /\ region \in {"partial", "ours"} => marker = "ours"

\* What the present boot has found out.
BootOK ==
  /\ pc \notin {"off", "prepare", "failed"} =>
       inventory /\ (Declared = {} => IsFree)
  /\ pc \in {"marker", "scan", "claim", "commit", "register"} => Declared = {}
  /\ pc \in {"claim", "commit"} => region = "blank"
  /\ pc = "scan" => marker = "none"
  /\ pc = "register" => marker = "ours"
  /\ pc = "init" /\ Declared = {} => marker = "ours" /\ registered
  /\ pc = "failed" /\ ~op_failed /\ Declared = {} /\ inventory /\ IsFree =>
       region \notin {"partial", "ours"}

\* The parts hold together in every state (gateway_storage.c, between the reads
\* and writes of gateway_storage_prepare).
StorageInv == StorageTypeOK /\ MarkOK /\ BootOK

\* Data that the gateway did not write, behind the partitions of an older board,
\* is never overwritten (gateway_storage.h:17, "No unknown region is erased").
ForeignIsNeverTouched ==
  [][Declared = {} /\ region = "foreign" => region' = "foreign"]_storageVars

\* A region that the gateway has begun to write is taken again at every later
\* boot in which the flash can be read, however the earlier ones ended
\* (gateway_storage.c:139-140, "A power failure after this commit is safe").
OwnIsNeverRefused ==
  pc = "failed" /\ ~op_failed /\ inventory /\ IsFree /\ Declared = {} =>
    region \notin {"partial", "ours"}

\* What the gateway is going to write lies in the flash and shares no sector with
\* any other partition, on either kind of board (gateway_storage.c:53-58, :171-175).
StorageIsItsOwn ==
  pc \in {"init", "ready"} =>
    \A place \in IF Declared = {} THEN {Storage} ELSE {p.place : p \in Declared} :
      /\ place.start + place.size <= flash_size
      /\ \A p \in table \ Declared :
           End(p) <= place.start \/ Start(p) >= place.start + place.size
=============================================================================
