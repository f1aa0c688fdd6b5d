----------------------------- MODULE ChangesMC -----------------------------
(* One change request for TLC: its requester, who may approve others', and an approver. *)
EXTENDS Changes, TLC

CONSTANTS alice, bob, d1, d2, c1, c2

Symmetry == Permutations(Call)
=============================================================================
