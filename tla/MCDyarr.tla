------------------------------ MODULE MCDyarr -------------------------------
\* Two arrays over three blocks: enough for one array to be moved while the other is live.
EXTENDS Dyarr, TLC
CONSTANTS A, B, b1, b2, b3, x

Symmetry == Permutations(Blocks)
=============================================================================
