--------------------------- MODULE MCModelBroker ---------------------------
EXTENDS ModelBroker, TLC
CONSTANTS c1, c2, c3
CallSymmetry == Permutations(Calls)
=============================================================================
