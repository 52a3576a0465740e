---------------------------- MODULE MCCustomPoll ----------------------------
(***************************************************************************)
(* Small: three points, one of them slow; one tick is the gap.             *)
(* Mixed: the constants of the code in ticks of 250 ms, nine points that   *)
(* are read every second and one that is read every 2750 ms, from a        *)
(* controller that needs 500 ms for an answer.                             *)
(***************************************************************************)
EXTENDS CustomPoll, TLC

SmallPeriod == 0 :> 1 @@ 1 :> 2 @@ 2 :> 4
SmallLatencies == {2, 3}

MixedPeriod == [p \in Points |-> IF p = NPoints - 1 THEN 11 ELSE 4]
MixedLatencies == {2}
=============================================================================
