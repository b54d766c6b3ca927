------------------------------ MODULE MCVault ------------------------------
EXTENDS Vault, TLC

CONSTANTS c1, c2, c3, c4

MCCallSymmetry == Permutations(Calls)
=============================================================================
