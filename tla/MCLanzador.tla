----------------------------- MODULE MCLanzador -----------------------------
(* Launchers l1..l4 in the records 1..4; PosOculto puts the last one in the  *)
(* extra record, which consulta_peticiones does not look at, and PosSin      *)
(* leaves it without a record.                                               *)
EXTENDS Lanzador, TLC

CONSTANTS l1, l2, l3, l4

Pos1 == l1 :> 1
Pos2 == l1 :> 1 @@ l2 :> 2
Pos3 == l1 :> 1 @@ l2 :> 2 @@ l3 :> 3
Pos4 == l1 :> 1 @@ l2 :> 2 @@ l3 :> 3 @@ l4 :> 4
PosSin == l1 :> 1 @@ l2 :> 2 @@ l3 :> 3 @@ l4 :> 0
=============================================================================
