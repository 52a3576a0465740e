------------------------------ MODULE BacnetCov ------------------------------
(***************************************************************************)
(* How confirmed subscribers are told of changes (gateway_bacnet.c).       *)
(* The protocol stack marks the subscriptions of every object that changed *)
(* and sends each a notification.  It gives up a notification that is not  *)
(* acknowledged after three repetitions; the gateway then remembers the    *)
(* object, and a second later reports it to the stack as changed.          *)
(*                                                                         *)
(* One task does all this, so every action is one call of it.  The stack   *)
(* is the one that gateway_bacnet.c drives: its subscriptions are visited  *)
(* in the order of their numbers, each has one notification under way at   *)
(* most, and only so many transactions may be open.  How long a            *)
(* transaction lasts is left open.  A value counts the changes of an       *)
(* object that are large enough to be reported.                            *)
(***************************************************************************)
EXTENDS Integers, FiniteSets

CONSTANTS
  Objects,          \* the catalogue and the gateway's own objects
  NSubscribers,     \* MAX_COV_SUBSCRIPTIONS
  Monitors,         \* the object of each subscription
  Answering,        \* the subscribers that answer if they are asked for long
  MaxTransactions,  \* MAX_TSM_TRANSACTIONS
  Capacity,         \* RECOVERY_CAPACITY
  RecoveryDelay,    \* 1000 ms, in calls of the tick
  MaxValue          \* bound of the model on the changes of an object

Subscribers == 1..NSubscribers
Values == 0..MaxValue

ASSUME SubscribersAssumption ==
  /\ NSubscribers \in Nat
  /\ Monitors \in [Subscribers -> Objects]
  /\ Answering \subseteq Subscribers
ASSUME LimitsAssumption ==
  /\ {MaxTransactions, RecoveryDelay} \subseteq Nat \ {0}
  /\ {Capacity, MaxValue} \subseteq Nat
ASSUME CapacityAssumption == IsFiniteSet(Objects) /\ Cardinality(Objects) <= Capacity

VARIABLES
  link_up,
  value, changed,       \* of each object, and those to be reported
  recovery,             \* the table: objects, and the time until each is due
  subscribed,           \* the stack: who is to be told,
  requested,            \* who is to be told next,
  flight,               \* the notification under way to each
  known                 \* what each was last told

\* History: subscribers whose object was taken off the table although they had
\* not been marked.
VARIABLE overtaken

stack == <<subscribed, requested, flight>>
vars == <<link_up, value, changed, recovery, stack, known, overtaken>>

Nothing == -1
Entries == [object : Objects, due : 0..RecoveryDelay]

TypeOK ==
  /\ link_up \in BOOLEAN
  /\ value \in [Objects -> Values]
  /\ changed \subseteq Objects
  /\ recovery \subseteq Entries
  /\ subscribed \subseteq Subscribers
  /\ requested \subseteq subscribed /\ overtaken \subseteq subscribed
  /\ flight \in [Subscribers -> Values \cup {Nothing}]
  /\ known \in [Subscribers -> Values \cup {Nothing}]

\* gateway_bacnet_init
Init ==
  /\ link_up = TRUE
  /\ value = [o \in Objects |-> 0] /\ changed = Objects
  /\ recovery = {}
  /\ subscribed = {} /\ requested = {}
  /\ flight = [s \in Subscribers |-> Nothing]
  /\ known = [s \in Subscribers |-> Nothing]
  /\ overtaken = {}

InFlight == {s \in Subscribers : flight[s] # Nothing}

-----------------------------------------------------------------------------
\* The recovery table.

Recorded(table) == {e.object : e \in table}

\* Time passes for every entry.
Aged(table) == {[e EXCEPT !.due = IF @ > 0 THEN @ - 1 ELSE 0] : e \in table}

\* The tables that result from recording the objects, as far as there is room.
Recording(new, table) ==
  LET room == Capacity - Cardinality(table)
      fitting == {some \in SUBSET new :
                    \/ some = new /\ Cardinality(new) <= room
                    \/ Cardinality(some) = room /\ room < Cardinality(new)}
  IN  {table \cup [object : some, due : {RecoveryDelay}] : some \in fitting}

\* Faulty: it is not looked for an entry that the object already has.
CovTimeoutTwice(table, expired) == Recording({Monitors[s] : s \in expired}, table)

\* cov_timeout for each transaction that expired: an object that is recorded
\* stays as it is.
cov_timeout(table, expired) ==
  Recording({Monitors[s] : s \in expired} \ Recorded(table), table)

\* Faulty: only an entry that has just been made counts.
PendingAtOnce(o, table) == [object |-> o, due |-> RecoveryDelay] \in table

retry_pending(o, table) == [object |-> o, due |-> 0] \in table

retry_clear(cleared, table) == {e \in table : e.object \notin cleared}

\* ai_changed, bi_changed, msi_changed, csv_changed.
Changed(o, table) == o \in changed \/ retry_pending(o, table)

-----------------------------------------------------------------------------
\* handler_cov_fsm, called until one pass over all subscriptions is done: mark
\* the subscriptions of what changed, clear the changes of every object of which
\* a notification is requested, free the transactions that ended, and send.
\* Sending may fail, and is then repeated by the transaction.
Pass(table, expired, unsent) ==
  LET marked  == requested \cup {s \in subscribed : Changed(Monitors[s], table)}
      cleared == {Monitors[s] : s \in marked}
      open    == InFlight \ expired
      ready   == marked \ open
      sent    == {s \in ready :
                    Cardinality({q \in ready : q < s}) < MaxTransactions - Cardinality(open)}
  IN  /\ changed' = changed \ cleared
      /\ recovery' = retry_clear(cleared, table)
      /\ requested' = marked \ (sent \ unsent)
      /\ flight' = [s \in Subscribers |->
                      IF s \in sent THEN value[Monitors[s]]
                      ELSE IF s \in expired THEN Nothing ELSE flight[s]]
      /\ overtaken' = (overtaken \ sent) \cup
           {s \in subscribed \ marked : Monitors[s] \in cleared \cap Recorded(table)}

\* Faulty: what is given up while there is no link is not recorded.
NoPassForgets(table, expired) ==
  /\ flight' = [s \in Subscribers |-> IF s \in expired THEN Nothing ELSE flight[s]]
  /\ UNCHANGED <<changed, recovery, requested, overtaken>>

\* Without a link nothing is sent, but transactions end and are recorded.
NoPass(table, expired) ==
  /\ recovery' = table
  /\ flight' = [s \in Subscribers |-> IF s \in expired THEN Nothing ELSE flight[s]]
  /\ UNCHANGED <<changed, requested, overtaken>>

\* gateway_bacnet_tick: the timers, then the notifications.
gateway_bacnet_tick(expired, unsent) ==
  /\ \E table \in cov_timeout(Aged(recovery), expired) :
       IF link_up THEN Pass(table, expired, unsent) ELSE NoPass(table, expired)
  /\ UNCHANGED <<link_up, value, subscribed, known>>

Tick ==
  \E expired \in SUBSET InFlight, unsent \in SUBSET Subscribers :
    gateway_bacnet_tick(expired, unsent)

\* gateway_bacnet_update: what has changed enough is to be reported.
gateway_bacnet_update ==
  \E some \in SUBSET {o \in Objects : value[o] < MaxValue} :
    /\ some # {}
    /\ value' = [o \in Objects |-> IF o \in some THEN value[o] + 1 ELSE value[o]]
    /\ changed' = changed \cup some
    /\ UNCHANGED <<link_up, recovery, stack, known, overtaken>>

\* gateway_bacnet_network_update, as far as notifications depend on it.
gateway_bacnet_network_update ==
  /\ link_up' = ~link_up
  /\ UNCHANGED <<value, changed, recovery, stack, known, overtaken>>

-----------------------------------------------------------------------------
\* gateway_bacnet_poll: what arrives from a subscriber.

\* A new subscriber knows nothing, and one that renews wants to be told again.
Subscribe(s) ==
  /\ link_up
  /\ subscribed' = subscribed \cup {s} /\ requested' = requested \cup {s}
  /\ known' = IF s \in subscribed THEN known ELSE [known EXCEPT ![s] = Nothing]
  /\ UNCHANGED <<link_up, value, changed, recovery, flight, overtaken>>

\* Cancelled, or its lifetime has run out.
Unsubscribe(s) ==
  /\ s \in subscribed
  /\ subscribed' = subscribed \ {s} /\ requested' = requested \ {s}
  /\ flight' = [flight EXCEPT ![s] = Nothing]
  /\ overtaken' = overtaken \ {s}
  /\ UNCHANGED <<link_up, value, changed, recovery, known>>

\* The notification arrives, and the acknowledgement is lost or late.
Deliver(s) ==
  /\ link_up /\ s \in InFlight
  /\ known' = [known EXCEPT ![s] = flight[s]]
  /\ UNCHANGED <<link_up, value, changed, recovery, stack, overtaken>>

\* It arrives and is acknowledged.
Acknowledge(s) ==
  /\ link_up /\ s \in InFlight
  /\ known' = [known EXCEPT ![s] = flight[s]]
  /\ flight' = [flight EXCEPT ![s] = Nothing]
  /\ UNCHANGED <<link_up, value, changed, recovery, subscribed, requested, overtaken>>

Next ==
  \/ Tick \/ gateway_bacnet_update \/ gateway_bacnet_network_update
  \/ \E s \in Subscribers :
       Subscribe(s) \/ Unsubscribe(s) \/ Deliver(s) \/ Acknowledge(s)

Spec == Init /\ [][Next]_vars

\* bacnet_task calls the tick over and over and the clock runs; a transaction
\* does not stay open for ever; and a subscriber that answers is reached by some
\* of the transmissions made to it.
TimePasses == \E unsent \in SUBSET Subscribers : gateway_bacnet_tick({}, unsent)

Expires(s) ==
  /\ s \in InFlight
  /\ \E expired \in SUBSET InFlight, unsent \in SUBSET Subscribers :
       s \in expired /\ gateway_bacnet_tick(expired, unsent)

FairSpec ==
  /\ Spec
  /\ WF_vars(TimePasses)
  /\ \A s \in Subscribers : WF_vars(Expires(s))
  /\ \A s \in Answering : SF_vars(Acknowledge(s))

-----------------------------------------------------------------------------
UpToDate(s) == known[s] = value[Monitors[s]]

\* Its object has changed or is to be retried, or it is marked.
Pending(s) == Monitors[s] \in changed \cup Recorded(recovery) \/ s \in requested

\* Whoever does not know the current value is going to be told: something is
\* pending for it, or it is being told.  The exception is a subscriber whose
\* object was taken off the table because another one was told of it
\* (retry_clear, called for every object that is notified).
NothingIsForgotten ==
  \A s \in subscribed \ overtaken : UpToDate(s) \/ Pending(s) \/ s \in InFlight

\* The table has an entry for an object at most, so there is always room for one
\* more that is given up (RECOVERY_CAPACITY, gateway_bacnet.c:256).
OneEntryPerObject == \A d, e \in recovery : d.object = e.object => d = e

\* Next without failures to send and without anyone asking again, since a
\* subscriber with a low number that asks in every round, or to which sending
\* always fails, gets the only transaction every time.
Calm ==
  \/ \E expired \in SUBSET InFlight :
       gateway_bacnet_tick(expired, {})
  \/ gateway_bacnet_update \/ gateway_bacnet_network_update
  \/ \E s \in Subscribers : Unsubscribe(s) \/ Deliver(s) \/ Acknowledge(s)

\* A subscriber that answers is told of the last change in the end, however many
\* notifications to it and to others were lost (tests/test_gateway_bacnet.c:371
\* "confirmed timeout schedules fresh current value").
SubscriberIsTold ==
  <>[][Calm]_vars =>
    \A s \in Answering :
      s \in subscribed /\ link_up
        ~> UpToDate(s) \/ s \notin subscribed \/ ~link_up \/ s \in overtaken

\* Whoever is being told an old value, or is told nothing and knows an old one, is
\* going to be told.
ToldOK ==
  \A s \in subscribed \ overtaken :
    \/ Pending(s)
    \/ IF s \in InFlight THEN flight[s] = value[Monitors[s]] ELSE UpToDate(s)

\* Types, table and subscriptions fit together in every state.
Inv == TypeOK /\ OneEntryPerObject /\ InFlight \subseteq subscribed /\ ToldOK
=============================================================================
