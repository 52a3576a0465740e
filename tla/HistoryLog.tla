----------------------------- MODULE HistoryLog -----------------------------
(***************************************************************************)
(* What the Modbus error history promises, without a ring, a checksum or a *)
(* worker task (src/main/error_history.h:20-23).  A log is a number of     *)
(* errors ever recorded and the boot that recorded each of the last        *)
(* Capacity of them.  live is the log the dashboard reads, stable the log  *)
(* a restart would find, and staged a copy on its way from one to the      *)
(* other.  linked says that this boot may replace stable; a boot that      *)
(* could not read the stored log is not linked and leaves it alone.        *)
(***************************************************************************)
EXTENDS Naturals

CONSTANTS
  Capacity,       \* errors a log remembers
  Boots           \* numbers a boot can have

VARIABLES live, staged, stable, linked

logVars == <<live, staged, stable, linked>>

NoLog == [total |-> 0, unreadable |-> TRUE]

Window(total) == {s \in 1..total : s + Capacity > total}

EmptyLog == [total |-> 0, bootOf |-> [s \in {} |-> 0]]

\* The log after one more error, recorded by boot b.
Extend(log, b) ==
  [total  |-> log.total + 1,
   bootOf |-> [s \in Window(log.total + 1) |->
                 IF s = log.total + 1 THEN b ELSE log.bootOf[s]]]

\* Log a is what log b was some errors ago.
IsEarlier(a, b) ==
  /\ a.total <= b.total
  /\ \A s \in Window(a.total) \cap Window(b.total) : a.bootOf[s] = b.bootOf[s]

LogInit ==
  /\ live = EmptyLog
  /\ staged = NoLog
  /\ stable \in {EmptyLog, NoLog}
  /\ linked = FALSE

\* A boot never records an error under a number below its predecessors'.
LogAppend ==
  /\ \E b \in Boots : /\ \A s \in Window(live.total) : live.bootOf[s] <= b
                      /\ live' = Extend(live, b)
  /\ UNCHANGED <<staged, stable, linked>>

LogStage ==
  /\ linked
  /\ staged' = live
  /\ UNCHANGED <<live, stable, linked>>

LogStore ==
  /\ linked
  /\ staged # NoLog
  /\ stable' = staged
  /\ UNCHANGED <<live, staged, linked>>

LogDiscard ==
  /\ staged' = NoLog
  /\ UNCHANGED <<live, stable, linked>>

\* Power loss and boot: only a boot that found the stored log may store again.
LogRestart ==
  /\ staged' = NoLog
  /\ linked' \in BOOLEAN
  /\ live' \in {EmptyLog, stable} \ {NoLog}
  /\ linked' => live' = stable
  /\ UNCHANGED stable

LogNext == LogAppend \/ LogStage \/ LogStore \/ LogDiscard \/ LogRestart

LogSpec == LogInit /\ [][LogNext]_logVars
=============================================================================
