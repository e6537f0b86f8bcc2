--------------------------- MODULE MCImplicitQueue --------------------------
EXTENDS ImplicitQueue, TLC

\* One producer that outgrows its block index, and two that share the pool.
MCLoads == {<<5>>, <<2, 1>>}
MCTwoProducers == {<<2, 1>>}
\* One whose block index is full after its first slot was used again.
MCLongLoad == {<<7>>}
Symmetry == Permutations(Consumers)
=============================================================================
