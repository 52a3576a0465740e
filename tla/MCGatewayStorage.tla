-------------------------- MODULE MCGatewayStorage --------------------------
(***************************************************************************)
(* The two tables of the repository in miniature (partitions.csv and the   *)
(* older board of docs/OTA.md), each as it is, with one partition missing, *)
(* and with one more of any kind anywhere.                                 *)
(***************************************************************************)
EXTENDS GatewayStorage, TLC

Place(start, size) == [start |-> start, size |-> size]

MCFactoryPlaces ==
  "nvs" :> Place(1, 1) @@ "phy" :> Place(2, 1) @@ "factory" :> Place(3, 2)

MCOtaPlaces ==
  "nvs" :> Place(1, 1) @@ "otadata" :> Place(2, 1) @@ "ota_0" :> Place(3, 2)
    @@ "ota_1" :> Place(5, 2)

TableOf(places) ==
  {[kind |-> k, place |-> places[k], usable |-> TRUE] : k \in DOMAIN places}

Usual == {TableOf(MCFactoryPlaces), TableOf(MCOtaPlaces)}

MorePartitions ==
  [kind : {"nvs", "other", Gateway}, place : {Place(a, n) : a \in 0..8, n \in 0..2},
   usable : BOOLEAN]

MCTables ==
  Usual \cup {t \cup {p} : t \in Usual, p \in MorePartitions}
        \cup UNION {{t \ {p} : p \in t} : t \in Usual}
=============================================================================
