--------------------------- MODULE MCEditService ----------------------------
EXTENDS EditService, TLC

CONSTANTS m1, m2, set, unset, even, odd

OneFormEach == {{s} : s \in Sections}

\* Others set a configuration for rollbacks, and a size that the page rounds.
ValuesOf ==
  [s \in Sections \cup Rest |->
    CASE s = "ServiceMounts" -> {m1, m2} [] s = "RollbackConfig" -> {set, unset}
      [] s = "LimitMemoryBytes" -> {even, odd}]
AllValues == UNION {ValuesOf[s] : s \in Sections \cup Rest}
Rounded == [s \in Sections |-> [v \in Values |-> IF v = odd THEN even ELSE v]]
Symmetric == Permutations(Slots) \cup Permutations({m1, m2})
=============================================================================
