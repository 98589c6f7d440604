---------------------------- MODULE MCCommissions ----------------------------
EXTENDS CommissionsInvariant, TLC

Symmetry == Permutations(Work) \cup Permutations(Relay) \cup Permutations(Pulse)
=============================================================================
