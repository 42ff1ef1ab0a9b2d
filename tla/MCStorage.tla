------------------------------ MODULE MCStorage ------------------------------
(* The second of two builds on its own box, nobody deploying.               *)
EXTENDS Storage, TLC

TwoBuilds == {1, 2}

MigrationsOf == 1 :> 1 @@ 2 :> 2

Spec == StorageInit(2) /\ [][StorageNext]_storageVars
=============================================================================
