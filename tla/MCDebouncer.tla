----------------------------- MODULE MCDebouncer -----------------------------
EXTENDS Debouncer, TLC

Symmetry == Permutations(Producers)
==============================================================================
