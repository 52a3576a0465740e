------------------------- MODULE ConfigStore_proofs -------------------------
(***************************************************************************)
(* Proofs about ConfigStore, for any pages, settings, maps and number of   *)
(* revisions: how far the flash may be ahead of what runs, what a revision *)
(* names, whose save replaces whose, and what a page reports.              *)
(*                                                                         *)
(* The second part is about GatewayStorage, where that flash is, for any   *)
(* partition table and any number of boots.                                *)
(***************************************************************************)
EXTENDS ConfigStore, GatewayStorage, TLAPS

Handlers == [client : Clients, candidate : Config, ok : BOOLEAN]

\* Nothing and Unreadable are no records of the other kinds.
LEMMA Tags ==
  /\ Nothing \notin Config /\ Unreadable \notin Config /\ Nothing # Unreadable
  /\ Nothing \notin Request /\ Nothing \notin Handlers
BY DEF Nothing, Unreadable, Config, Request, Handlers

\* What a configuration and its successor are.
LEMMA Configs ==
  /\ gateway_config_defaults \in Config /\ gateway_config_defaults.revision = 1
  /\ \A c \in Config : c.revision \in 1..MaxRevision /\ c.revision \in Nat
  /\ \A c \in Config : c.revision # MaxRevision =>
       Successor(c) \in Config /\ Successor(c).revision = c.revision + 1
<1>1. gateway_config_defaults \in Config /\ gateway_config_defaults.revision = 1
  BY SettingsAssumption, MaxRevisionAssumption DEF gateway_config_defaults, Config
<1>2. \A c \in Config : c.revision \in 1..MaxRevision /\ c.revision \in Nat
  BY MaxRevisionAssumption DEF Config
<1>3. ASSUME NEW c \in Config, c.revision # MaxRevision
      PROVE  Successor(c) \in Config /\ Successor(c).revision = c.revision + 1
  <2>1. c.revision + 1 \in 1..MaxRevision
    BY <1>2, <1>3, MaxRevisionAssumption
  <2> QED BY <2>1 DEF Successor, Config
<1> QED BY <1>1, <1>2, <1>3

\* A request that may be saved amounts to a configuration of the revision that
\* runs (gateway_config_parse and save_handler).
LEMMA Candidates ==
  ASSUME active \in Config, NEW r \in Request, MaySave(r)
  PROVE  /\ Successor(Candidate(r)) \in Config
         /\ Successor(Candidate(r)).revision = active.revision + 1
         /\ r.base \in Config /\ r.base.revision = active.revision /\ ~restart_pending
<1>1. r.base \in Config /\ r.settings \in Settings /\ r.map \in Maps \cup {NoMap, Keep}
  BY DEF Request
<1>2. active.map \in Maps \cup {NoMap}
  BY DEF Config
<1>3. r.base.revision = active.revision /\ active.revision # MaxRevision /\ ~restart_pending
  BY DEF MaySave
<1>4. Candidate(r) \in Config /\ Candidate(r).revision = r.base.revision
  BY <1>1, <1>2 DEF Candidate, Config
<1> QED BY <1>1, <1>3, <1>4, Configs

-----------------------------------------------------------------------------
LEMMA InitInv == Init => Inv
<1> SUFFICES ASSUME Init
             PROVE  Inv
  OBVIOUS
<1>1. stored \notin Config /\ active \in Config
  BY Tags, Configs DEF Init
<1>2. TypeOK
  BY <1>1, Configs DEF Init, TypeOK
<1>3. DeviceOK /\ ConfirmedOK
  BY <1>1 DEF Init, DeviceOK, ConfirmedOK, Loading
<1>4. RevisionsOK
  BY <1>1, MaxRevisionAssumption DEF Init, RevisionsOK
<1> QED BY <1>2, <1>3, <1>4 DEF Inv

\* What a boot runs is what it found, or the defaults.
LEMMA BootInv == Inv /\ Boot => Inv'
<1> SUFFICES ASSUME Inv, Boot
             PROVE  Inv'
  OBVIOUS
<1>1. PICK failed \in {TRUE} \cup {stored = Unreadable} :
        active' = Loaded(failed) /\ config_error' = failed
  BY DEF Boot
<1>2. /\ power = "off" /\ power' = "on" /\ failed \in BOOLEAN
      /\ UNCHANGED <<stored, restart_pending, handler, page, form, request, confirmed, replaced>>
      /\ ~restart_pending /\ handler = Nothing
  BY <1>1 DEF Boot, clients, Inv, DeviceOK
<1>3. \/ active' = gateway_config_defaults /\ (failed \/ stored = Nothing)
      \/ ~failed /\ stored \in Config /\ active' = stored
  BY <1>1 DEF Loaded, Inv, TypeOK
<1>4. active' \in Config /\ active'.revision \in 1..MaxRevision /\ active'.revision \in Nat
  BY <1>3, Configs
<1>5. /\ ran' \in [1..MaxRevision -> Config \cup {Nothing}]
      /\ \A r \in 1..MaxRevision :
           ran'[r] = IF r = active'.revision /\ ran[r] = Nothing THEN active' ELSE ran[r]
  BY <1>4 DEF Boot, Inv, TypeOK
<1>6. TypeOK'
  BY <1>1, <1>2, <1>4, <1>5 DEF Inv, TypeOK
<1>7. DeviceOK'
  BY <1>1, <1>2, <1>3, Tags DEF DeviceOK, Loading
<1>8. ConfirmedOK'
  BY <1>1, <1>2, <1>3, Configs, Tags DEF Inv, ConfirmedOK, Loading
<1>9. RevisionsOK'
  <2>1. ran'[1] \in {Nothing, gateway_config_defaults}
    <3>1. 1 \in 1..MaxRevision
      BY MaxRevisionAssumption
    <3>2. active'.revision = 1 => active' = gateway_config_defaults
      BY <1>3 DEF Inv, ConfirmedOK
    <3> QED BY <1>5, <3>1, <3>2 DEF Inv, RevisionsOK
  <2> SUFFICES ASSUME ~replaced
               PROVE  /\ \A r \in 1..MaxRevision : Newer(r)' => ran'[r] = Nothing
                      /\ stored \in Config => ran'[stored.revision] \in {Nothing, stored}
                      /\ ran'[active'.revision] = active'
                      /\ \A c \in Clients :
                           /\ page[c] # "blank" => ran'[form[c].revision] = form[c]
                           /\ request[c] # Nothing =>
                                ran'[request[c].base.revision] = request[c].base
    BY <1>2, <2>1 DEF RevisionsOK
  <2>2. ASSUME NEW r \in 1..MaxRevision, Newer(r)'
        PROVE  ran'[r] = Nothing
    <3>1. r > (IF stored \in Config THEN stored.revision ELSE 1) /\ r # active'.revision
      BY <1>1, <1>2, <1>3, <2>2, Configs, Tags DEF Newer, Loading, Inv, ConfirmedOK
    <3> QED BY <1>5, <3>1 DEF Newer, Inv, RevisionsOK
  <2>3. stored \in Config => ran'[stored.revision] \in {Nothing, stored}
    BY <1>3, <1>5, Configs DEF Inv, RevisionsOK, ConfirmedOK
  <2>4. ran'[active'.revision] = active'
    BY <1>3, <1>4, <1>5, Configs DEF Inv, RevisionsOK
  <2>5. ASSUME NEW f \in Config, ran[f.revision] = f
        PROVE  ran'[f.revision] = f
    BY <1>5, <2>5, Configs, Tags
  <2>6. \A c \in Clients :
          /\ form[c] \in Config
          /\ request[c] # Nothing => request[c].base \in Config
    BY DEF Inv, TypeOK, Request
  <2> QED BY <2>2, <2>3, <2>4, <2>5, <2>6 DEF Inv, RevisionsOK
<1> QED BY <1>6, <1>7, <1>8, <1>9 DEF Inv

\* A save stores the successor of what runs, or what was stored before remains.
LEMMA WriteInv ==
  ASSUME Inv, NEW c \in Clients, Write(c)
  PROVE  Inv'
<1> DEFINE new == Successor(Candidate(request[c]))
<1>1. PICK ok \in BOOLEAN :
        /\ stored' \in IF ok THEN {new} ELSE {stored, new}
        /\ handler' = [client |-> c, candidate |-> new, ok |-> ok]
  BY DEF Write
<1>2. /\ power = "on" /\ handler = Nothing /\ MaySave(request[c]) /\ request[c] \in Request
      /\ replaced' = (replaced \/ (config_error /\ stored \in Config /\ stored' # stored))
      /\ request' = [request EXCEPT ![c] = Nothing]
      /\ UNCHANGED <<power, active, config_error, restart_pending, page, form, confirmed, ran>>
  BY DEF Write, device, Inv, TypeOK
<1>3. /\ new \in Config /\ new.revision = active.revision + 1 /\ ~restart_pending
  BY <1>2, Candidates DEF Inv, TypeOK
<1> HIDE DEF new
<1>4. /\ handler' \in Handlers /\ handler' # Nothing
      /\ handler'.candidate = new /\ (handler'.ok => stored' = new)
  <2>1. handler' \in Handlers
    BY <1>1, <1>3 DEF Handlers
  <2> QED BY <1>1, <2>1, Tags
<1>5. stored' \in {stored, new}
  BY <1>1
<1>6. TypeOK'
  <2>1. request' \in [Clients -> Request \cup {Nothing}]
    BY <1>2 DEF Inv, TypeOK
  <2>2. replaced' \in BOOLEAN
    BY <1>2, Zenon
  <2> QED BY <1>2, <1>3, <1>4, <1>5, <2>1, <2>2 DEF Inv, TypeOK, Handlers
<1>7. DeviceOK'
  BY <1>2, <1>3, <1>4, <1>5 DEF Inv, DeviceOK, Loading
<1>8. active \in Config /\ active.revision \in Nat /\ active.revision >= 1
  BY Configs DEF Inv, TypeOK
<1>9. ~replaced' => ~replaced /\ (stored' = stored \/ Loading \/ stored \notin Config)
  BY <1>2, <1>8 DEF Loading, Inv, TypeOK
<1>10. ConfirmedOK'
  <2>1. (stored \in Config \/ stored' = new) => stored' \in Config
    BY <1>3, <1>5
  <2>2. stored' \in Config => stored'.revision > 1
    BY <1>3, <1>5, <1>8 DEF Inv, ConfirmedOK
  <2>3. confirmed \in Config \cup {Nothing} /\ Loading' = Loading
    BY <1>2 DEF Inv, TypeOK, Loading
  <2>4. ASSUME confirmed # Nothing, ~replaced'
        PROVE  confirmed.revision <= stored'.revision
    BY <1>3, <1>5, <1>8, <1>9, <2>3, <2>4, Configs DEF Inv, ConfirmedOK
  <2> QED BY <1>2, <1>9, <2>1, <2>2, <2>3, <2>4 DEF Inv, ConfirmedOK
<1>11. RevisionsOK'
  <2>1. \A r \in 1..MaxRevision : ~replaced' /\ Newer(r)' => Newer(r)
    <3> SUFFICES ASSUME NEW r \in 1..MaxRevision, ~replaced', Newer(r)'
                 PROVE  Newer(r)
      OBVIOUS
    <3>1. Loading' = Loading /\ active' = active
      BY <1>2 DEF Loading
    <3>2. CASE stored' = stored
      BY <3>1, <3>2 DEF Newer
    <3>3. CASE stored' = new /\ stored' # stored
      <4>1. \/ Loading /\ r > active.revision
            \/ r > active.revision + 1
        BY <1>3, <3>1, <3>3 DEF Newer
      <4>2. CASE Loading
        BY <1>8, <4>1, <4>2 DEF Newer
      <4>3. CASE ~Loading
        BY <1>8, <1>9, <3>3, <4>1, <4>3 DEF Newer
      <4> QED BY <4>2, <4>3
    <3> QED BY <1>5, <3>2, <3>3
  <2>2. ~replaced' /\ stored' \in Config => ran[stored'.revision] \in {Nothing, stored'}
    <3>1. CASE stored' = stored
      BY <1>9, <3>1 DEF Inv, RevisionsOK
    <3>2. CASE stored' = new /\ stored' # stored
      <4>1. new.revision \in 1..MaxRevision
        BY <1>3, Configs
      <4>2. ASSUME ~replaced'
            PROVE  Newer(new.revision)
        <5>1. Loading \/ stored \notin Config
          BY <1>9, <3>2, <4>2
        <5> QED BY <1>3, <1>8, <5>1 DEF Newer
      <4> QED BY <1>9, <3>2, <4>1, <4>2 DEF Inv, RevisionsOK
    <3> QED BY <1>5, <3>1, <3>2
  <2>3. \A d \in Clients : request'[d] # Nothing => request'[d] = request[d]
    BY <1>2 DEF Inv, TypeOK
  <2> QED BY <1>2, <1>9, <2>1, <2>2, <2>3 DEF Inv, RevisionsOK
<1> QED BY <1>6, <1>7, <1>10, <1>11 DEF Inv

\* A request that is not saved changes nothing but its page.
LEMMA RejectInv ==
  ASSUME Inv, NEW c \in Clients, Reject(c)
  PROVE  Inv'
<1>1. /\ request' = [request EXCEPT ![c] = Nothing]
      /\ page' = [page EXCEPT ![c] = IF @ = "saving" THEN "editing" ELSE @]
      /\ UNCHANGED <<stored, power, active, config_error, restart_pending, handler, form,
                     confirmed, ran, replaced>>
  BY DEF Reject, device, history
<1>2. TypeOK'
  BY <1>1 DEF Inv, TypeOK
<1>3. DeviceOK' /\ ConfirmedOK'
  BY <1>1 DEF Inv, DeviceOK, ConfirmedOK, Loading
<1>4. \A d \in Clients : /\ page'[d] # "blank" => page[d] # "blank"
                         /\ request'[d] # Nothing => request'[d] = request[d]
  BY <1>1 DEF Inv, TypeOK
<1>5. RevisionsOK'
  BY <1>1, <1>4 DEF Inv, RevisionsOK, Newer, Loading
<1> QED BY <1>2, <1>3, <1>5 DEF Inv

\* The answer confirms what is stored, or nothing.
LEMMA AnswerInv == Inv /\ Answer => Inv'
<1> SUFFICES ASSUME Inv, Answer
             PROVE  Inv'
  OBVIOUS
<1>1. /\ handler \in Handlers /\ handler.client \in Clients /\ handler.ok \in BOOLEAN
      /\ handler # Nothing
  BY DEF Answer, Inv, TypeOK, Handlers
<1>2. /\ restart_pending' = handler.ok /\ handler' = Nothing
      /\ confirmed' = IF handler.ok THEN stored ELSE confirmed
      /\ (handler.ok => stored = handler.candidate /\ stored \in Config)
      /\ page' = [page EXCEPT ![handler.client] =
                    IF @ # "saving" THEN @ ELSE IF handler.ok THEN "waiting" ELSE "editing"]
      /\ UNCHANGED <<stored, power, active, config_error, form, request, ran, replaced>>
      /\ ~restart_pending /\ power = "on"
  <2>1. handler.candidate \in Config
    BY <1>1 DEF Handlers
  <2>2. handler.ok => stored = handler.candidate
    BY <1>1 DEF Inv, DeviceOK
  <2>3. ~restart_pending /\ power = "on"
    BY <1>1 DEF Inv, DeviceOK, TypeOK
  <2> QED BY <2>1, <2>2, <2>3 DEF Answer
<1>3. TypeOK'
  BY <1>1, <1>2 DEF Inv, TypeOK
<1>4. DeviceOK'
  BY <1>1, <1>2 DEF Inv, DeviceOK, Loading
<1>5. ConfirmedOK'
  <2>1. CASE handler.ok
    BY <1>2, <2>1, Configs DEF Inv, ConfirmedOK, Loading
  <2>2. CASE ~handler.ok
    BY <1>2, <2>2 DEF Inv, ConfirmedOK, Loading
  <2> QED BY <2>1, <2>2
<1>6. \A d \in Clients : page'[d] # "blank" => page[d] # "blank"
  BY <1>1, <1>2 DEF Inv, TypeOK
<1>7. RevisionsOK'
  BY <1>2, <1>6 DEF Inv, RevisionsOK, Newer, Loading
<1> QED BY <1>3, <1>4, <1>5, <1>7 DEF Inv

\* A restart or a loss of power keeps the flash and the pages.
LEMMA HaltInv == Inv /\ Halt => Inv'
<1> SUFFICES ASSUME Inv, Halt
             PROVE  Inv'
  OBVIOUS
<1>1. /\ power' = "off" /\ active' = gateway_config_defaults
      /\ ~config_error' /\ config_error' \in BOOLEAN
      /\ ~restart_pending' /\ restart_pending' \in BOOLEAN /\ handler' = Nothing
      /\ UNCHANGED <<stored, page, form, request, confirmed, ran, replaced>>
  BY DEF Halt, clients, history
<1>2. TypeOK'
  BY <1>1, Configs DEF Inv, TypeOK
<1>3. DeviceOK' /\ ConfirmedOK'
  BY <1>1 DEF Inv, DeviceOK, ConfirmedOK, Loading
<1>4. RevisionsOK'
  BY <1>1 DEF Inv, RevisionsOK, Newer, Loading
<1> QED BY <1>2, <1>3, <1>4 DEF Inv

-----------------------------------------------------------------------------
\* A page shows what runs.
LEMMA ShowInv ==
  ASSUME Inv, NEW c \in Clients, NEW what \in {"editing", "done"}, Show(c, what)
  PROVE  Inv'
<1>1. /\ power = "on" /\ page' = [page EXCEPT ![c] = what]
      /\ form' = [form EXCEPT ![c] = active]
      /\ UNCHANGED <<stored, power, active, config_error, restart_pending, handler, request,
                     confirmed, ran, replaced>>
  BY DEF Show, device, history
<1>2. TypeOK'
  BY <1>1 DEF Inv, TypeOK
<1>3. DeviceOK' /\ ConfirmedOK'
  BY <1>1 DEF Inv, DeviceOK, ConfirmedOK, Loading
<1>4. \A d \in Clients : \/ form'[d] = active
                         \/ form'[d] = form[d] /\ page'[d] = page[d]
  BY <1>1 DEF Inv, TypeOK
<1>5. RevisionsOK'
  BY <1>1, <1>4 DEF Inv, RevisionsOK, Newer, Loading
<1> QED BY <1>2, <1>3, <1>5 DEF Inv

\* A save is made from what its page shows.
LEMMA SubmitInv ==
  ASSUME Inv, NEW c \in Clients, Submit(c)
  PROVE  Inv'
<1>1. PICK settings \in Settings, map \in Maps \cup {NoMap, Keep} :
        request' = [request EXCEPT ![c] = [base |-> form[c], settings |-> settings,
                                           map |-> map]]
  BY DEF Submit
<1>2. /\ page[c] = "editing" /\ page' = [page EXCEPT ![c] = "saving"]
      /\ UNCHANGED <<stored, power, active, config_error, restart_pending, handler, form,
                     confirmed, ran, replaced>>
  BY DEF Submit, device, history
<1>3. /\ request' \in [Clients -> Request \cup {Nothing}]
      /\ \A d \in Clients : \/ d = c /\ request'[d].base = form[d]
                            \/ request'[d] = request[d]
  <2>1. [base |-> form[c], settings |-> settings, map |-> map] \in Request
    BY DEF Inv, TypeOK, Request
  <2> QED BY <1>1, <2>1 DEF Inv, TypeOK
<1>4. TypeOK'
  BY <1>2, <1>3 DEF Inv, TypeOK
<1>5. DeviceOK' /\ ConfirmedOK'
  BY <1>2 DEF Inv, DeviceOK, ConfirmedOK, Loading
<1>6. \A d \in Clients : page'[d] # "blank" => page[d] # "blank"
  BY <1>2 DEF Inv, TypeOK
<1>7. RevisionsOK'
  BY <1>2, <1>3, <1>6 DEF Inv, RevisionsOK, Newer, Loading
<1> QED BY <1>4, <1>5, <1>7 DEF Inv

\* A page goes on editing, and its request may be lost.
LEMMA EditInv ==
  ASSUME Inv, NEW c \in Clients, Lost(c) \/ Resume(c)
  PROVE  Inv'
<1>1. /\ page[c] # "blank" /\ page' = [page EXCEPT ![c] = "editing"]
      /\ request' \in {request, [request EXCEPT ![c] = Nothing]}
      /\ UNCHANGED <<stored, power, active, config_error, restart_pending, handler, form,
                     confirmed, ran, replaced>>
  BY DEF Lost, Resume, device, history
<1>2. TypeOK'
  BY <1>1 DEF Inv, TypeOK
<1>3. DeviceOK' /\ ConfirmedOK'
  BY <1>1 DEF Inv, DeviceOK, ConfirmedOK, Loading
<1>4. \A d \in Clients : /\ page'[d] # "blank" => page[d] # "blank"
                         /\ request'[d] # Nothing => request'[d] = request[d]
  BY <1>1 DEF Inv, TypeOK
<1>5. RevisionsOK'
  BY <1>1, <1>4 DEF Inv, RevisionsOK, Newer, Loading
<1> QED BY <1>2, <1>3, <1>5 DEF Inv

LEMMA NextInv == Inv /\ [Next]_vars => Inv'
<1> SUFFICES ASSUME Inv, [Next]_vars
             PROVE  Inv'
  OBVIOUS
<1>1. CASE UNCHANGED vars
  BY <1>1 DEF vars, device, clients, history, Inv, TypeOK, DeviceOK, ConfirmedOK, RevisionsOK,
    Newer, Loading
<1>2. CASE Device
  BY <1>2, BootInv, AnswerInv, HaltInv, RejectInv, WriteInv DEF Device, Restart, Crash
<1>3. CASE Pages
  BY <1>3, ShowInv, SubmitInv, EditInv DEF Pages, Load, Confirm
<1> QED BY <1>1, <1>2, <1>3 DEF Next

-----------------------------------------------------------------------------
\* The inductive invariant of flash, running copy and pages (gateway_web.c).
THEOREM InvIsInvariant == Spec => []Inv
BY InitInv, NextInv, PTL DEF Spec

\* While no unread configuration is replaced, a revision names one map
\* (gateway_web.c:228-241).
THEOREM RevisionAlwaysNamesOneMap == Spec => []RevisionNamesOneMapIfLoaded
<1>1. Inv => RevisionNamesOneMapIfLoaded
  BY DEF Inv, RevisionsOK, RevisionNamesOneMapIfLoaded
<1> QED BY <1>1, InvIsInvariant, PTL

\* The flash is at most one save ahead of what runs (gateway_web.c:228-248).
THEOREM FlashIsAlwaysAtMostOneAhead == Spec => []FlashIsAtMostOneAhead
<1>1. Inv => FlashIsAtMostOneAhead
  <2> SUFFICES ASSUME Inv, Loading
               PROVE  /\ \/ stored = active
                         \/ stored \in Config /\ stored.revision = active.revision + 1
                         \/ stored = Nothing /\ active = gateway_config_defaults
                      /\ restart_pending => stored = confirmed
                      /\ stored \in Config /\ stored = confirmed /\ stored # active =>
                           restart_pending \/ replaced
    BY DEF FlashIsAtMostOneAhead, Loading
  <2>1. ASSUME stored \in Config, stored = confirmed, stored # active, ~restart_pending,
               ~replaced
        PROVE  FALSE
    <3>1. stored.revision = active.revision + 1
      BY <2>1, Tags DEF Inv, DeviceOK
    <3>2. stored.revision <= active.revision
      BY <2>1, Tags DEF Inv, ConfirmedOK
    <3>3. active.revision \in Nat
      BY Configs DEF Inv, TypeOK
    <3> QED BY <3>1, <3>2, <3>3
  <2> QED BY <2>1 DEF Inv, DeviceOK
<1> QED BY <1>1, InvIsInvariant, PTL

\* No page undoes a save that it has not shown, unless that could not be loaded
\* (gateway_web.c:217 and :228).
THEOREM ConfirmedIsAlwaysReplacedKnowingly == Spec => ConfirmedIsReplacedKnowingly
<1>1. ASSUME Inv, NEW c \in Clients, Write(c), confirmed # Nothing, stored = confirmed,
             stored' # stored, ~replaced'
      PROVE  request[c].base = stored
  <2>1. /\ power = "on" /\ request[c] \in Request /\ request[c] # Nothing
        /\ MaySave(request[c])
        /\ replaced' = (replaced \/ (config_error /\ stored \in Config /\ stored' # stored))
    BY <1>1 DEF Write, Inv, TypeOK
  <2>2. stored \in Config
    BY <1>1 DEF Inv, ConfirmedOK
  <2>3. ~replaced /\ Loading
    BY <1>1, <2>1, <2>2 DEF Loading
  <2>4. ~restart_pending /\ request[c].base.revision = active.revision
    BY <2>1 DEF MaySave
  <2>5. active.revision \in Nat
    BY <1>1, Configs DEF Inv, TypeOK
  <2>6. stored = active
    BY <1>1, <2>2, <2>3, <2>4, <2>5, Tags DEF Inv, DeviceOK, ConfirmedOK
  <2> QED BY <1>1, <2>1, <2>3, <2>4, <2>6 DEF Inv, RevisionsOK
<1>2. Inv /\ [Next]_vars =>
        [\A c \in Clients :
           Write(c) /\ confirmed # Nothing /\ stored = confirmed /\ stored' # stored =>
             request[c].base = stored \/ replaced']_vars
  BY <1>1
<1> QED BY <1>2, InvIsInvariant, PTL DEF Spec, ConfirmedIsReplacedKnowingly

\* A page reports success only for a later configuration, or after a failed load
\* (waitForRestart, web/index.html:277).
THEOREM PageAlwaysReportsRevised == Spec => PageReportsRevised
<1>1. ASSUME Inv, [Next]_vars, NEW c \in Clients, page[c] = "waiting", page'[c] = "done",
             ~replaced, ~config_error
      PROVE  active.revision > form[c].revision
  <2>1. page \in [Clients -> {"blank", "editing", "saving", "waiting", "done"}]
    BY <1>1 DEF Inv, TypeOK
  <2>2. Confirm(c)
    <3>1. CASE Device
      <4>1. ASSUME NEW d \in Clients, Reject(d) \/ Write(d)
            PROVE  page'[c] \in {page[c], "editing"}
        BY <2>1, <4>1 DEF Reject, Write
      <4>2. Boot \/ Restart \/ Crash => page' = page
        BY DEF Boot, Restart, Crash, Halt, clients
      <4>3. Answer => page'[c] \in {page[c], "waiting", "editing"}
        BY <2>1 DEF Answer
      <4> QED BY <1>1, <3>1, <4>1, <4>2, <4>3 DEF Device
    <3>2. CASE Pages
      <4>1. PICK d \in Clients : Load(d) \/ Submit(d) \/ Lost(d) \/ Confirm(d) \/ Resume(d)
        BY <3>2 DEF Pages
      <4>2. \E what \in {"editing", "saving", "done"} : page' = [page EXCEPT ![d] = what]
        BY <4>1 DEF Load, Submit, Lost, Confirm, Resume, Show
      <4>3. d = c
        BY <1>1, <2>1, <4>2
      <4>4. Load(c) \/ Submit(c) \/ Lost(c) \/ Resume(c) => page'[c] # "done"
        BY <2>1 DEF Load, Submit, Lost, Resume, Show
      <4> QED BY <1>1, <4>1, <4>3, <4>4
    <3> QED BY <1>1, <3>1, <3>2 DEF Next, vars, clients
  <2>3. power = "on" /\ active.revision # form[c].revision
    BY <2>2 DEF Confirm, Revised, Show
  <2>4. ran[form[c].revision] = form[c] /\ form[c] \in Config
    BY <1>1 DEF Inv, RevisionsOK, TypeOK
  <2>5. ~(form[c].revision > active.revision)
    BY <1>1, <2>3, <2>4, Tags, Configs DEF Inv, RevisionsOK, Newer, Loading
  <2>6. form[c].revision \in Nat /\ active.revision \in Nat
    BY <1>1, <2>4, Configs DEF Inv, TypeOK
  <2> QED BY <2>3, <2>5, <2>6
<1>2. Inv /\ [Next]_vars =>
        [\A c \in Clients :
           page[c] = "waiting" /\ page'[c] = "done" /\ ~replaced =>
             active.revision > form[c].revision \/ config_error]_vars
  BY <1>1
<1> QED BY <1>2, InvIsInvariant, PTL DEF Spec, PageReportsRevised
-----------------------------------------------------------------------------
\* The region.  The table never changes, so that each action only has to preserve
\* what ties the mark to the content of the region.

\* The table and the flash are read at every boot and always found the same
\* (gateway_storage.c never writes a partition table).
LEMMA BoardKept ==
  ASSUME UNCHANGED board
  PROVE  Declared' = Declared /\ inventory' = inventory /\ IsFree' = IsFree
<1>1. table' = table /\ flash_size' = flash_size
  BY DEF board
<1>2. Declared' = Declared
  BY <1>1 DEF Declared
<1>3. inventory' = inventory
  BY <1>1, <1>2 DEF inventory, End, Start
<1>4. ota_layout' = ota_layout
  BY <1>1 DEF ota_layout, exact
<1>5. IsFree' = IsFree
  BY <1>1, <1>4 DEF IsFree
<1> QED BY <1>2, <1>3, <1>5

\* No step of gateway_storage_prepare changes the board.
LEMMA EveryStepKeepsTheBoard ==
  ASSUME [StorageNext]_storageVars
  PROVE  UNCHANGED board
BY DEF StorageNext, storageVars, board, PowerOn, CheckTable, ReadFails,
  check_marker, Scan, SetMarker, MarkFails, Commit, Register, InitNvs, InitFails,
  PowerLoss, Refuse, OperationFails, Go

LEMMA StorageTypeStep ==
  ASSUME StorageTypeOK, [StorageNext]_storageVars
  PROVE  StorageTypeOK'
<1>1. table' \in Tables /\ flash_size' \in FlashSizes
  BY EveryStepKeepsTheBoard DEF StorageTypeOK, board
<1>2. pc' \in {"off", "prepare", "marker", "scan", "claim", "commit", "register",
             "init", "ready", "failed"}
  BY DEF StorageTypeOK, StorageNext, storageVars, PowerOn, CheckTable, ReadFails,
    check_marker, Scan, SetMarker, MarkFails, Commit, Register, InitNvs, InitFails,
    PowerLoss, Refuse, OperationFails, Go
<1>3. /\ marker' \in {"none", "ours", "other"}
      /\ region' \in {"blank", "partial", "ours", "foreign"}
  BY DEF StorageTypeOK, StorageNext, storageVars, PowerOn, CheckTable, ReadFails,
    check_marker, Scan, SetMarker, MarkFails, Commit, Register, InitNvs, InitFails,
    PowerLoss, Refuse, OperationFails, Go
<1>4. registered' \in BOOLEAN /\ op_failed' \in BOOLEAN
  BY DEF StorageTypeOK, StorageNext, storageVars, PowerOn, CheckTable, ReadFails,
    check_marker, Scan, SetMarker, MarkFails, Commit, Register, InitNvs, InitFails,
    PowerLoss, Refuse, OperationFails, Go
<1> QED BY <1>1, <1>2, <1>3, <1>4 DEF StorageTypeOK

\* One step of the boot, action by action.
LEMMA StorageInvStep ==
  ASSUME StorageInv, [StorageNext]_storageVars
  PROVE  StorageInv'
<1>1. StorageTypeOK' BY StorageTypeStep DEF StorageInv
<1>2. Declared' = Declared /\ inventory' = inventory /\ IsFree' = IsFree
  BY BoardKept, EveryStepKeepsTheBoard
<1> USE DEF StorageInv, MarkOK, BootOK
<1>3. MarkOK' /\ BootOK'
  <2>1. CASE PowerOn BY <2>1, <1>2 DEF PowerOn
  <2>2. CASE CheckTable BY <2>2, <1>2 DEF CheckTable, Refuse, Go
  <2>3. CASE ReadFails BY <2>3, <1>2 DEF ReadFails, OperationFails
  <2>4. CASE check_marker
    <3>1. CASE marker = "none" /\ Go("scan")
      BY <2>4, <3>1, <1>2 DEF check_marker, Go
    <3>2. CASE marker = "ours" /\ Go("register")
      BY <2>4, <3>2, <1>2 DEF check_marker, Go
    <3>3. CASE marker = "other" /\ Refuse
      BY <2>4, <3>3, <1>2 DEF check_marker, Refuse
    <3> QED BY <2>4, <3>1, <3>2, <3>3 DEF check_marker
  <2>5. CASE Scan BY <2>5, <1>2 DEF Scan, Refuse, Go
  <2>6. CASE SetMarker BY <2>6, <1>2 DEF SetMarker, Go
  <2>7. CASE MarkFails BY <2>7, <1>2 DEF MarkFails, OperationFails
  <2>8. CASE Commit BY <2>8, <1>2 DEF Commit
  <2>9. CASE Register BY <2>9, <1>2 DEF Register
  <2>10. CASE InitNvs BY <2>10, <1>2 DEF InitNvs
  <2>11. CASE InitFails BY <2>11, <1>2 DEF InitFails, OperationFails
  <2>12. CASE PowerLoss BY <2>12, <1>2 DEF PowerLoss
  <2>13. CASE UNCHANGED storageVars BY <2>13, <1>2 DEF storageVars
  <2> QED BY <2>1, <2>2, <2>3, <2>4, <2>5, <2>6, <2>7, <2>8, <2>9, <2>10, <2>11,
       <2>12, <2>13 DEF StorageNext
<1> QED BY <1>1, <1>3

-----------------------------------------------------------------------------
\* The inductive invariant: the mark and what the gateway has written agree, and
\* every step of a boot knows what the steps before it have found
\* (gateway_storage_prepare).
THEOREM StorageInvIsInvariant == StorageSpec => []StorageInv
<1>1. StorageInit => StorageInv
  BY DEF StorageInit, StorageInv, StorageTypeOK, MarkOK, BootOK
<1>2. StorageInv /\ [StorageNext]_storageVars => StorageInv'
  BY StorageInvStep
<1> QED BY <1>1, <1>2, PTL DEF StorageSpec

\* What the gateway has begun to write it takes again at the next boot
\* (gateway_storage.c:139, commit before the region is initialised).
THEOREM OwnIsTakenAgain == StorageSpec => []OwnIsNeverRefused
<1>1. StorageInv => OwnIsNeverRefused
  BY DEF StorageInv, BootOK, OwnIsNeverRefused
<1> QED BY <1>1, StorageInvIsInvariant, PTL

\* Data behind the partitions that is not the gateway's is never overwritten
\* (gateway_storage.h:17).
THEOREM ForeignIsKept == StorageSpec => ForeignIsNeverTouched
<1>1. StorageInv /\ [StorageNext]_storageVars
        => [Declared = {} /\ region = "foreign" => region' = "foreign"]_storageVars
  BY DEF StorageInv, MarkOK, BootOK, StorageNext, storageVars, PowerOn, CheckTable,
    ReadFails, check_marker, Scan, SetMarker, MarkFails, Commit, Register, InitNvs,
    InitFails, PowerLoss, Refuse, OperationFails, Go
<1> QED BY <1>1, StorageInvIsInvariant, PTL DEF StorageSpec, ForeignIsNeverTouched

-----------------------------------------------------------------------------
\* A place inside the flash whose sectors no other partition has.
Apart(place, p) == End(p) <= place.start \/ Start(p) >= place.start + place.size

\* Two places that do not overlap lie one behind the other.
LEMMA NotOverlapping ==
  ASSUME NEW a \in Places, NEW p \in Partitions, ~overlap(a, p.place)
  PROVE  Apart(a, p)
BY DEF overlap, Apart, Places, Partitions, Start, End

\* The region the gateway writes, declared or claimed, is its own
\* (gateway_storage.c:53-58, inventory; :171-175, gateway_storage_prepare).
THEOREM StorageIsAlwaysItsOwn == StorageSpec => []StorageIsItsOwn
<1>1. StorageInv => StorageIsItsOwn
  <2> SUFFICES ASSUME StorageInv, pc \in {"init", "ready"},
                      NEW place \in IF Declared = {} THEN {Storage}
                                    ELSE {p.place : p \in Declared}
               PROVE  /\ place.start + place.size <= flash_size
                      /\ \A p \in table \ Declared : Apart(place, p)
    BY DEF StorageIsItsOwn, Apart
  <2>1. table \subseteq Partitions
    BY TablesAssumption DEF StorageInv, StorageTypeOK
  <2>2. inventory /\ (Declared = {} => IsFree)
    BY DEF StorageInv, BootOK
  <2>3. CASE Declared = {}
    <3>1. place = Storage /\ Storage \in Places
      BY <2>3, TablesAssumption DEF Storage, Places
    <3>2. \A p \in table : ~overlap(Storage, p.place)
      BY <2>2, <2>3 DEF IsFree
    <3>3. Storage.start + Storage.size <= flash_size
      BY <2>2, <2>3 DEF IsFree, Storage
    <3> QED BY <2>1, <3>1, <3>2, <3>3, NotOverlapping
  <2>4. CASE Declared # {}
    <3>1. PICK p \in Declared : place = p.place
      BY <2>4
    <3>2. p \in table /\ p \in Partitions /\ place \in Places
      BY <2>1, <3>1 DEF Declared, Partitions
    <3>3. place.start + place.size <= flash_size
      BY <2>2, <3>1, <3>2 DEF inventory, End
    <3>4. \A q \in table \ Declared : ~overlap(place, q.place)
      BY <2>2, <3>1, <3>2 DEF inventory
    <3> QED BY <2>1, <3>2, <3>3, <3>4, NotOverlapping
  <2> QED BY <2>3, <2>4
<1> QED BY <1>1, StorageInvIsInvariant, PTL
=============================================================================
