------------------------------ MODULE MCArena ------------------------------
EXTENDS Arena, TLC

Symmetry == Permutations(Clients)
=============================================================================
