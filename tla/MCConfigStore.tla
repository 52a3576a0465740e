--------------------------- MODULE MCConfigStore ---------------------------
(***************************************************************************)
(* The steps that replace a configuration which this boot could not load   *)
(* are left out, and with them all that follows from one.  None of them is *)
(* one that fairness asks for.                                             *)
(***************************************************************************)
EXTENDS ConfigStore

NeverReplaced == Init /\ [][Next /\ ~replaced']_vars /\ Fairness
=============================================================================
