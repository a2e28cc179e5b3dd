-------------------------------- MODULE Order --------------------------------
(***************************************************************************)
(* Finite sets in the order of a relation.  A member of an ordered set has *)
(* its place by the number of members before it, so no list has to be      *)
(* searched or built, and facts about the result need no induction.        *)
(* Relations are sets of pairs.                                            *)
(***************************************************************************)
EXTENDS Integers, FiniteSets

Before(S, R, x) == {y \in S : <<y, x>> \in R}

\* The members of S, each once, in the order R.
Arranged(S, R) ==
    [n \in 1..Cardinality(S) |-> CHOOSE x \in S : Cardinality(Before(S, R, x)) = n - 1]

\* The least of a set of integers, and its members from the least on.
Minimum(S) == CHOOSE x \in S : \A y \in S : x <= y
Ascending(S) == Arranged(S, {p \in S \X S : p[1] < p[2]})

\* The members of S from the highest score down, those of one score from the least up.
ByScore(S, score) ==
    Arranged(S, {p \in S \X S : \/ score[p[1]] > score[p[2]]
                                \/ score[p[1]] = score[p[2]] /\ p[1] < p[2]})

\* The elements of a list at some of its places, in their order.
AtPlaces(list, places) ==
    LET order == Ascending(places) IN [n \in 1..Cardinality(places) |-> list[order[n]]]
=============================================================================
