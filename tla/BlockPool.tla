------------------------------ MODULE BlockPool -----------------------------
(***************************************************************************)
(* What the users of a pool of blocks rely on: a block that is taken was   *)
(* free, and it is nobody else's until it is given back.  A try may find   *)
(* nothing at any time.                                                    *)
(***************************************************************************)
CONSTANTS Thread, Block, NoBlock

VARIABLES
    free,       \* the free blocks
    taken       \* the block a thread is taking out of the pool

poolVars == <<free, taken>>

Init == free \subseteq Block /\ taken = [t \in Thread |-> NoBlock]

Take(t, b) ==
    /\ taken[t] = NoBlock /\ b \in free
    /\ free' = free \ {b}
    /\ taken' = [taken EXCEPT ![t] = b]

\* The taker goes away with its block.
Leave(t) ==
    /\ taken[t] # NoBlock
    /\ taken' = [taken EXCEPT ![t] = NoBlock]
    /\ UNCHANGED free

Give(b) ==
    /\ b \in Block \ free /\ \A t \in Thread : taken[t] # b
    /\ free' = free \cup {b}
    /\ UNCHANGED taken

Next ==
    \/ \E t \in Thread, b \in Block : Take(t, b)
    \/ \E t \in Thread : Leave(t)
    \/ \E b \in Block : Give(b)

Spec == Init /\ [][Next]_poolVars
=============================================================================
