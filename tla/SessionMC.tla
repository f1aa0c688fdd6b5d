----------------------------- MODULE SessionMC -----------------------------
(* One browser for TLC: two tabs, two users. *)
EXTENDS Session, TLC

CONSTANTS t1, t2, root, plain

Symmetry == Permutations(Tab) \cup Permutations(User)
=============================================================================
