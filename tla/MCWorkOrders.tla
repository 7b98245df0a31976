---------------------------- MODULE MCWorkOrders ----------------------------
(***************************************************************************)
(* Instances of WorkOrders for TLC: a facilities manager and an engineer.   *)
(***************************************************************************)
EXTENDS WorkOrders, TLC

CONSTANTS w1, p1, r1, r2, fm, eng

RoleOfUser == [u \in Users |->
  IF u = fm THEN "facilitiesmanager" ELSE "maintenanceengineer"]

\* No operation tells requests apart.
RequestSymmetry == Permutations(Requests)
=============================================================================
