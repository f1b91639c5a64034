------------------------------- MODULE MCMLFQ -------------------------------
EXTENDS MLFQ

(* Levels 0 (lowest) to 2, numbered from 0. *)
QuantumByLevel == 0 :> 2 @@ 1 :> 1 @@ 2 :> 2
AllotmentByLevel == 0 :> 1 @@ 1 :> 2 @@ 2 :> 1
=============================================================================
