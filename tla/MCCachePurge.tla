----------------------------- MODULE MCCachePurge -----------------------------
EXTENDS CachePurge, TLC

\* Purgers are alike, and so are writers and keys.
Symmetry == Permutations(Key) \cup Permutations(Purger) \cup Permutations(Writer)
=============================================================================
