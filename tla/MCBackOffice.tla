---------------------------- MODULE MCBackOffice ----------------------------
(* The two references of the code; the first order is one that never goes. *)
EXTENDS BackOffice

BarrelAndChest == <<"barrel", "chest">>
=============================================================================
