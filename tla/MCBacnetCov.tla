---------------------------- MODULE MCBacnetCov ----------------------------
(***************************************************************************)
(* Three subscribers of one object, of which the first two never answer;   *)
(* two transactions may be open.                                           *)
(***************************************************************************)
EXTENDS BacnetCov

CONSTANT object

MCMonitors == [s \in Subscribers |-> object]
MCAnswering == {3}
=============================================================================
