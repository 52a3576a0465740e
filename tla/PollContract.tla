---------------------------- MODULE PollContract ----------------------------
(***************************************************************************)
(* What the rest of the gateway may assume of a polling engine, whether it *)
(* reads the ATS blocks (gateway_poll.h) or a custom map (custom_map.h):   *)
(* every item has a latest read that succeeded or none since the engine    *)
(* last lost confidence in the controller, and an engine that checks the   *)
(* identity of the controller reads no item before the check has passed.   *)
(***************************************************************************)
CONSTANTS
  Items,    \* blocks or custom points
  Gated     \* whether the engine checks the controller's identity

VARIABLES
  verified,   \* the identity has been confirmed, or need not be
  current     \* items whose latest read succeeded

contractVars == <<verified, current>>

ContractInit == verified = ~Gated /\ current = {}

\* Confidence is lost: link, transport or identity.
Distrust == verified' = ~Gated /\ current' = {}

\* The identity is due to be checked again; what was read keeps its age.
Question == Gated /\ verified' = FALSE /\ UNCHANGED current

Confirm == Gated /\ verified' = TRUE /\ UNCHANGED current

ItemRead(i) == verified /\ current' = current \cup {i} /\ UNCHANGED verified

ItemFaulted(i) == verified /\ current' = current \ {i} /\ UNCHANGED verified

\* One call of the engine.
ContractStep ==
  \/ Distrust \/ Question \/ Confirm
  \/ \E i \in Items : ItemRead(i) \/ ItemFaulted(i)

ContractSpec == ContractInit /\ [][ContractStep]_contractVars
=============================================================================
