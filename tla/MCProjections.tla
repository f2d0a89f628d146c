----------------------------- MODULE MCProjections -----------------------------
EXTENDS Projections, TLC

CONSTANTS locA, locB

Symmetric == Permutations(Locs)
===============================================================================
