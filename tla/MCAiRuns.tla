------------------------------ MODULE MCAiRuns ------------------------------
EXTENDS AiRuns, TLC

CONSTANTS home, cloud

Local1 == {home}
Remote1 == {cloud}
Forms == {[endpoint |-> cloud, enabled |-> TRUE], [endpoint |-> home, enabled |-> TRUE],
          [endpoint |-> cloud, enabled |-> FALSE]}

All == {Transaction}

Symmetry == Permutations(Job) \cup Permutations(Transaction) \cup Permutations(Secret)
=============================================================================
