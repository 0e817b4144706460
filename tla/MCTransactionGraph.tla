------------------------- MODULE MCTransactionGraph -------------------------
EXTENDS TransactionGraph

Accounts == Permutations(Nodes)
=============================================================================
