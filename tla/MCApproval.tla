----------------------------- MODULE MCApproval -----------------------------
(* Approval with one proposed write, two users and three racing decisions; *)
(* the configurations give every constant its value.                       *)
EXTENDS Approval
=============================================================================
