----------------------------- MODULE MCSessions -----------------------------
(* Sessions on small instances.  Users and requests are interchangeable;    *)
(* tokens are numbered and are not.                                         *)
EXTENDS Sessions, TLC

Symmetry == Permutations(Users) \cup Permutations(Requests)
=============================================================================
