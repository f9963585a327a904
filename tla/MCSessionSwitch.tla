-------------------------- MODULE MCSessionSwitch --------------------------
EXTENDS SessionSwitch, TLC

CONSTANTS s1, s2, s3, s4, m1, m2, m3

Symmetry == Permutations(Sessions) \union Permutations(Messages)
=============================================================================
