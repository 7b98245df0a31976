----------------------------- MODULE MCFMExport -----------------------------
(***************************************************************************)
(* Instances of FMExport for TLC: three deltas, two of them on one key,     *)
(* and a fourth that the profile may filter out.                            *)
(***************************************************************************)
EXTENDS FMExport

CONSTANTS d1, d2, d3, d4, e1, e2, name, maker, area

\* d1 and d2 edit one field, the others a field each.
FieldOf == [d \in Deltas |-> CASE d = d3 -> maker [] d = d4 -> area [] OTHER -> name]
=============================================================================
