--------------------------- MODULE MCValuationCache ---------------------------
(* Instances of ValuationCache for TLC.                                      *)
EXTENDS ValuationCache, TLC

\* One starter, or more starters than players: a read that mixes the two
\* leagues can succeed where the new league fails.
Small == [teams |-> 1, rules |-> "old", slots |-> 1]
Large == [teams |-> 2, rules |-> "new", slots |-> 2]
MCConfigs == {Small, Large}

\* A league without a draft, and a server with nothing set up.
MCStarts ==
  {[league |-> Small, draft |-> None, active |-> CHOOSE s \in Sets : TRUE],
   [league |-> None, draft |-> None, active |-> None]}

MCPositions == {1, 2}

\* Fewer players than starters.
MCInsufficient(l, set, elig) == Cardinality({e[1] : e \in elig}) < l.teams * l.slots

Symmetry == Permutations(Requests) \cup Permutations(Importers) \cup Permutations(Players)
=============================================================================
