------------------------- MODULE MCConsumerResolver -------------------------
EXTENDS ConsumerResolver, TLC

\* RPC handlers are interchangeable.
Symmetry == Permutations(RPCs)
====
