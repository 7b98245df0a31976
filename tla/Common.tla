------------------------------- MODULE Common -------------------------------
(***************************************************************************)
(* What the smaller models share: the people who act and the NULL of a      *)
(* nullable column.                                                         *)
(***************************************************************************)
CONSTANTS Users, None

ASSUME NullAssumption == None \notin Users
=============================================================================
