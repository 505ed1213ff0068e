------------------------------ MODULE MCVetting ------------------------------
(* Vetting for TLC: admins and requests are all alike.                      *)
EXTENDS Vetting, TLC

Alike == Permutations(Admins) \union Permutations(Calls)
=============================================================================
