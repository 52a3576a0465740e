---------------------------- MODULE ConfigStore ----------------------------
(***************************************************************************)
(* The configuration of the gateway: one NVS blob read at boot, the copy   *)
(* that runs unchanged until the next restart, and the browser pages that  *)
(* edit it (src/main/gateway_web.c, gateway_config.c, web/index.html).     *)
(* A save carries the revision the page was loaded with and is stored      *)
(* under the next one; the device then restarts to make it active.         *)
(*                                                                         *)
(* A configuration is its revision, its settings and its CSV map.  One     *)
(* task answers all requests, so a save that has begun ends before the     *)
(* next; requests and answers may be lost and power fails at any point.    *)
(***************************************************************************)
EXTENDS Naturals

CONSTANTS
  Clients,         \* browser pages
  Settings,        \* the other fields; those that select the custom profile
  CustomSettings,
  DefaultSettings,
  Maps,            \* CSV maps that parse
  NoMap,           \* the empty csv
  Keep,            \* a save without csv
  MaxRevision      \* UINT32_MAX

ASSUME SettingsAssumption ==
  DefaultSettings \in Settings \ CustomSettings /\ CustomSettings \subseteq Settings
ASSUME MapsAssumption == NoMap \notin Maps /\ Keep \notin Maps \cup {NoMap}
ASSUME MaxRevisionAssumption == MaxRevision \in Nat \ {0}

VARIABLES
  stored,           \* settings_v1
  power,
  active,           \* what runs, and whether loading it failed
  config_error,
  restart_pending,
  handler,          \* the save being answered
  page, form,       \* of each client: what it does, the configuration it shows
  request           \* and the save it has sent

\* History variables: they record what happened and guide no action.
VARIABLES
  confirmed,   \* the last save answered with success
  ran,         \* the first configuration that ran under each revision
  replaced     \* a save replaced a configuration that this boot could not load

device == <<power, active, config_error, restart_pending>>
clients == <<page, form, request>>
history == <<confirmed, ran, replaced>>
vars == <<stored, device, handler, clients, history>>

Config == [revision : 1..MaxRevision, settings : Settings, map : Maps \cup {NoMap}]

Nothing == [none |-> TRUE]      \* no blob, no save, no answer yet
Unreadable == [bad |-> TRUE]    \* a blob that does not load, whenever it is tried

gateway_config_defaults == [revision |-> 1, settings |-> DefaultSettings, map |-> NoMap]

\* A save: the configuration it was made from, whose revision it carries, and
\* the new fields.
Request == [base : Config, settings : Settings, map : Maps \cup {NoMap, Keep}]

TypeOK ==
  /\ stored \in Config \cup {Nothing, Unreadable}
  /\ power \in {"off", "on"}
  /\ active \in Config
  /\ config_error \in BOOLEAN /\ restart_pending \in BOOLEAN /\ replaced \in BOOLEAN
  /\ handler \in {Nothing} \cup [client : Clients, candidate : Config, ok : BOOLEAN]
  /\ page \in [Clients -> {"blank", "editing", "saving", "waiting", "done"}]
  /\ form \in [Clients -> Config]
  /\ request \in [Clients -> Request \cup {Nothing}]
  /\ confirmed \in Config \cup {Nothing}
  /\ ran \in [1..MaxRevision -> Config \cup {Nothing}]

Init ==
  /\ stored \in {Nothing, Unreadable}
  /\ power = "off" /\ active = gateway_config_defaults
  /\ config_error = FALSE /\ restart_pending = FALSE
  /\ handler = Nothing
  /\ page = [c \in Clients |-> "blank"]
  /\ form = [c \in Clients |-> gateway_config_defaults]
  /\ request = [c \in Clients |-> Nothing]
  /\ confirmed = Nothing
  /\ ran = [r \in 1..MaxRevision |-> Nothing]
  /\ replaced = FALSE

-----------------------------------------------------------------------------
\* The device

\* gateway_web_load over the defaults: storage, memory or the blob may fail it.
Loaded(failed) ==
  IF failed \/ stored \in {Nothing, Unreadable} THEN gateway_config_defaults ELSE stored

Boot ==
  /\ power = "off"
  /\ power' = "on"
  /\ \E failed \in {TRUE} \cup {stored = Unreadable} :
       active' = Loaded(failed) /\ config_error' = failed
  /\ ran' = [ran EXCEPT ![active'.revision] = IF @ = Nothing THEN active' ELSE @]
  /\ UNCHANGED <<stored, restart_pending, handler, clients, confirmed, replaced>>

\* The configuration that a request amounts to: a save without csv keeps the
\* map that runs.
Candidate(r) ==
  [revision |-> r.base.revision, settings |-> r.settings,
   map |-> IF r.map = Keep THEN active.map ELSE r.map]

\* What gateway_config_parse requires beyond the form of each field.
Valid(config) == config.settings \in CustomSettings => config.map # NoMap

\* Faulty: a second save may follow before the restart.
MaySaveAgain(r) ==
  /\ Valid(Candidate(r))
  /\ r.base.revision = active.revision /\ active.revision # MaxRevision

\* Faulty: the last revision is followed by another.
MaySaveExhausted(r) ==
  ~restart_pending /\ Valid(Candidate(r)) /\ r.base.revision = active.revision

\* The checks of save_handler.
MaySave(r) ==
  /\ ~restart_pending
  /\ Valid(Candidate(r))
  /\ r.base.revision = active.revision /\ active.revision # MaxRevision

\* Faulty: the revision that was sent is stored.
NextSame(config) == config

Successor(config) == [config EXCEPT !.revision = @ + 1]

\* The request arrives and is rejected, or memory runs out.
Reject(c) ==
  /\ power = "on" /\ handler = Nothing /\ request[c] # Nothing
  /\ request' = [request EXCEPT ![c] = Nothing]
  /\ page' = [page EXCEPT ![c] = IF @ = "saving" THEN "editing" ELSE @]
  /\ UNCHANGED <<stored, device, handler, form, history>>

\* The request is accepted and written; a write that reports an error may have
\* taken effect.
Write(c) ==
  /\ power = "on" /\ handler = Nothing /\ request[c] # Nothing
  /\ MaySave(request[c])
  /\ LET new == Successor(Candidate(request[c]))
     IN \E ok \in BOOLEAN :
          /\ stored' \in IF ok THEN {new} ELSE {stored, new}
          /\ handler' = [client |-> c, candidate |-> new, ok |-> ok]
  /\ replaced' = (replaced \/ (config_error /\ stored \in Config /\ stored' # stored))
  /\ request' = [request EXCEPT ![c] = Nothing]
  /\ UNCHANGED <<device, page, form, confirmed, ran>>

\* Faulty: the device answers and does not restart.
AnswerAndStay ==
  /\ handler # Nothing
  /\ confirmed' = IF handler.ok THEN handler.candidate ELSE confirmed
  /\ page' = [page EXCEPT ![handler.client] =
                IF @ # "saving" THEN @ ELSE IF handler.ok THEN "waiting" ELSE "editing"]
  /\ handler' = Nothing
  /\ UNCHANGED <<stored, device, form, request, ran, replaced>>

\* The answer, with which the restart is scheduled.
Answer ==
  /\ handler # Nothing
  /\ restart_pending' = handler.ok
  /\ confirmed' = IF handler.ok THEN handler.candidate ELSE confirmed
  /\ page' = [page EXCEPT ![handler.client] =
                IF @ # "saving" THEN @ ELSE IF handler.ok THEN "waiting" ELSE "editing"]
  /\ handler' = Nothing
  /\ UNCHANGED <<stored, power, active, config_error, form, request, ran, replaced>>

Halt ==
  /\ power' = "off" /\ active' = gateway_config_defaults
  /\ config_error' = FALSE /\ restart_pending' = FALSE
  /\ handler' = Nothing
  /\ UNCHANGED <<stored, clients, history>>

\* restart_callback, while no other save is being answered.
Restart == restart_pending /\ Halt

\* Power loss, or a restart for another reason.
Crash == power = "on" /\ Halt

-----------------------------------------------------------------------------
\* The pages

Show(c, what) ==
  /\ power = "on" /\ handler = Nothing
  /\ page' = [page EXCEPT ![c] = what]
  /\ form' = [form EXCEPT ![c] = active]
  /\ UNCHANGED <<stored, device, handler, request, history>>

\* The page is opened or reloaded, whatever it was waiting for.
Load(c) == Show(c, "editing")

\* The form is submitted, with or without a new map.
Submit(c) ==
  /\ page[c] = "editing" /\ request[c] = Nothing
  /\ handler # Nothing => handler.client # c
  /\ \E settings \in Settings, map \in Maps \cup {NoMap, Keep} :
       request' = [request EXCEPT ![c] = [base |-> form[c], settings |-> settings,
                                          map |-> map]]
  /\ page' = [page EXCEPT ![c] = "saving"]
  /\ UNCHANGED <<stored, device, handler, form, history>>

\* The request or the answer to it was lost; a lost answer leaves the request
\* or the save as it is.
Lost(c) ==
  /\ page[c] = "saving"
  /\ page' = [page EXCEPT ![c] = "editing"]
  /\ request' \in {request, [request EXCEPT ![c] = Nothing]}
  /\ UNCHANGED <<stored, device, handler, form, history>>

\* Faulty: the first answer after the save is taken for the revised one.
RevisedAtOnce(c) == TRUE

\* What waitForRestart takes for the revised configuration.
Revised(c) == active.revision # form[c].revision

Confirm(c) == page[c] = "waiting" /\ Revised(c) /\ Show(c, "done")

\* The page has waited a minute, or its user goes on editing.
Resume(c) ==
  /\ page[c] \in {"waiting", "done"}
  /\ page' = [page EXCEPT ![c] = "editing"]
  /\ UNCHANGED <<stored, device, handler, form, request, history>>

-----------------------------------------------------------------------------
Device == Boot \/ Answer \/ Restart \/ Crash \/ \E c \in Clients : Reject(c) \/ Write(c)
Pages == \E c \in Clients : Load(c) \/ Submit(c) \/ Lost(c) \/ Confirm(c) \/ Resume(c)

Next == Device \/ Pages

Spec == Init /\ [][Next]_vars

\* The device boots when it can, ends every handler it has begun, and its
\* restart timer fires.
Fairness == WF_vars(Boot) /\ WF_vars(Answer) /\ WF_vars(Restart)

FairSpec == Spec /\ Fairness

-----------------------------------------------------------------------------
\* The inductive invariant that the properties after it rest on.

Loading == power = "on" /\ ~config_error

\* What runs, and how the save that is answered or waits for the restart relates
\* to it.
DeviceOK ==
  /\ power = "off" => ~restart_pending /\ handler = Nothing
  /\ power = "on" /\ config_error => active = gateway_config_defaults
  /\ Loading => \/ stored = active
                \/ stored \in Config /\ stored.revision = active.revision + 1
                \/ stored = Nothing /\ active = gateway_config_defaults
  /\ handler # Nothing =>
       /\ ~restart_pending
       /\ handler.ok => stored = handler.candidate
  /\ restart_pending => stored = confirmed

\* Confirmed saves are not newer than the flash, nor than what runs until the
\* restart.
ConfirmedOK ==
  /\ stored \in Config => stored.revision > 1
  /\ confirmed # Nothing => stored \in Config
  /\ confirmed # Nothing /\ ~replaced => confirmed.revision <= stored.revision
  /\ confirmed # Nothing /\ ~replaced /\ Loading /\ ~restart_pending =>
       confirmed.revision <= active.revision

\* As long as nothing unread was replaced, what has run under a revision is the
\* only configuration that it ever names, and no page shows another.
Newer(r) ==
  \/ Loading /\ r > active.revision
  \/ r > IF stored \in Config THEN stored.revision ELSE 1

RevisionsOK ==
  /\ ran[1] \in {Nothing, gateway_config_defaults}
  /\ ~replaced =>
       /\ \A r \in 1..MaxRevision : Newer(r) => ran[r] = Nothing
       /\ stored \in Config => ran[stored.revision] \in {Nothing, stored}
       /\ power = "on" => ran[active.revision] = active
       /\ \A c \in Clients :
            /\ page[c] # "blank" => ran[form[c].revision] = form[c]
            /\ request[c] # Nothing => ran[request[c].base.revision] = request[c].base

\* The parts hold together in every state (gateway_web.c, between two steps of
\* save_handler).
Inv == TypeOK /\ DeviceOK /\ ConfirmedOK /\ RevisionsOK

\* A device that has loaded its configuration is at most one save behind the
\* flash, and behind a save that it has confirmed only while it restarts
\* (gateway_web.c:228-248: every check is made against the running copy).
FlashIsAtMostOneAhead ==
  power = "on" /\ ~config_error =>
    /\ \/ stored = active
       \/ stored \in Config /\ stored.revision = active.revision + 1
       \/ stored = Nothing /\ active = gateway_config_defaults
    /\ restart_pending => stored = confirmed
    /\ stored \in Config /\ stored = confirmed /\ stored # active => restart_pending \/ replaced

\* A configuration whose save was confirmed is replaced only by a page that has
\* shown it, so that no page undoes another's change unknowingly
\* (gateway_web.c:217 and 228), or after a boot that could not load it.
ConfirmedIsReplacedKnowingly ==
  [][\A c \in Clients :
       Write(c) /\ confirmed # Nothing /\ stored = confirmed /\ stored' # stored =>
         request[c].base = stored \/ replaced']_vars

\* While no configuration is replaced that could not be loaded, two different
\* maps never run under the same revision.
RevisionNamesOneMapIfLoaded ==
  power = "on" /\ ~replaced => ran[active.revision] = active

\* WEB_CONFIGURATION.md:120-121: "Saving other settings without uploading a new
\* file preserves an existing custom map."
SavedMapIsPreserved ==
  [][\A c \in Clients :
       Write(c) /\ request[c].map = Keep /\ confirmed # Nothing /\ stored = confirmed =>
         stored'.map = stored.map]_vars

\* A page reports success only when a later configuration than the one it
\* showed runs, or the load of it failed.
PageReportsRevised ==
  [][\A c \in Clients :
       page[c] = "waiting" /\ page'[c] = "done" /\ ~replaced =>
         active.revision > form[c].revision \/ config_error]_vars

\* A save that was written becomes active in a later boot, with nothing left to
\* answer or to restart for, even if the device loses power before it has
\* answered; unless that boot cannot load it (gateway_web.c:248-260).
WrittenIsActivated ==
  handler # Nothing /\ handler.ok
    ~> /\ power = "on" /\ handler = Nothing /\ ~restart_pending
       /\ config_error \/ active = stored
=============================================================================
