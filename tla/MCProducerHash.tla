--------------------------- MODULE MCProducerHash ---------------------------
EXTENDS ProducerHash, TLC

CONSTANTS t1, t2, t3

\* Two threads collide in the first slot, the third is entered before them.
MCHash == t1 :> 0 @@ t2 :> 0 @@ t3 :> 7
=============================================================================
