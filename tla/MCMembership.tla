---------------------------- MODULE MCMembership ----------------------------
(* Membership on small instances; users and requests are interchangeable.   *)
EXTENDS Membership, TLC

Symmetry == Permutations(Users) \cup Permutations(Requests)
=============================================================================
