----------------------------- MODULE MCApproval -----------------------------
(***************************************************************************)
(* Instances of Approval for TLC.                                           *)
(***************************************************************************)
EXTENDS Approval, TLC

CONSTANTS p1, p2, a1, a2, a3, j1, r1, w1, s1, s2, e1, e2

OneSession  == [p \in Proposals |-> s1]
TwoSessions == [p \in Proposals |-> IF p = p1 THEN s1 ELSE s2]
\* p1 edits a type, e1, and so its occurrence, e2; p2 edits the occurrence.
TypeAndOccurrence == [p \in Proposals |-> IF p = p1 THEN {e1, e2} ELSE {e2}]
SymmetricApprovers == Permutations(Approvers)
=============================================================================
