---------------------------- MODULE MCDelegation ----------------------------
EXTENDS DelegationInvariant, TLC

Symmetry == Permutations(Task) \cup Permutations(Request)
=============================================================================
