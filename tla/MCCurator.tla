----------------------------- MODULE MCCurator -----------------------------
(***************************************************************************)
(* Events in the order of their ids' numbers, sources by their letters.    *)
(* Each strategy with a k below and at what it may select, the guarantees  *)
(* with percentages of all, half and none of the sources, a k of zero and  *)
(* one that Select refuses.                                                *)
(***************************************************************************)
EXTENDS Curator, TLC

MCSource == [a1 |-> "a", a3 |-> "a", b1 |-> "b", c2 |-> "c"]
MCTime == [a1 |-> 1, a3 |-> 3, b1 |-> 1, c2 |-> 2]
MCEvent == DOMAIN MCSource

\* Up to ten sources and for whole percentages float64 rounds down just these.
MCRoundsDown == {<<5, 80>>, <<10, 80>>, <<10, 90>>}
MCFlags ==
    [strategy : {1, 2, 3}, k : {1, 2}, diversity : {80}]
      \cup [strategy : {4}, k : {0, 1, 2}, diversity : {0, 50, 100}]
      \cup [strategy : {5}, k : {2}, diversity : {50}]
      \cup {[strategy |-> 4, k |-> -1, diversity |-> 80]}

\* One event of each of five sources, and the default percentage.
FiveTime == [a |-> 1, b |-> 2, c |-> 3, d |-> 4, e |-> 5]
FiveEvent == DOMAIN FiveTime
FiveSource == [x \in FiveEvent |-> x]
FiveFlags == {[strategy |-> 4, k |-> 4, diversity |-> 80]}
=============================================================================
