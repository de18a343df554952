-------------------------------- MODULE Listing --------------------------------
(***************************************************************************)
(* Lists as the loops and the sorts of the services build them, described  *)
(* without the loop: by the places of a list at which a loop appends, and  *)
(* by what a sort puts before each element.                                *)
(***************************************************************************)
EXTENDS Integers, FiniteSets, Sequences

\* The k-th of a set of places
Nth(places, k) == CHOOSE i \in places : Cardinality({j \in places : j <= i}) = k

\* What a loop has appended: the elements at these places, in their order.
Picked(list, places) == [k \in 1..Cardinality(places) |-> list[Nth(places, k)]]

\* list[:n]
Upto(n, list) == SubSeq(list, 1, IF Len(list) < n THEN Len(list) ELSE n)

\* sorted: ahead[x] is the set of those members of S that come before x.
Sorted(S, ahead) ==
  [k \in 1..Cardinality(S) |-> CHOOSE x \in S : Cardinality(ahead[x]) = k - 1]

===============================================================================
