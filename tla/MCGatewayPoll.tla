--------------------------- MODULE MCGatewayPoll ---------------------------
(***************************************************************************)
(* Two blocks, a fast and a slow one; one tick is the gap between          *)
(* requests.  The commissioned controller may be replaced by one with the  *)
(* newer register map, by one of another type or by another unit.          *)
(***************************************************************************)
EXTENDS GatewayPoll, TLC

MCPeriod == 0 :> 2 @@ 1 :> 4
MCStale == 0 :> 2 @@ 1 :> 5
MCControllers == {Genuine, Stages \ {2}, Stages \ {3}}
=============================================================================
