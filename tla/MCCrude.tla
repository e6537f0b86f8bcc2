------------------------------ MODULE MCCrude ------------------------------
(***************************************************************************)
(* Crude with ten microseconds in a second and a word of 4096 values.      *)
(***************************************************************************)
EXTENDS Crude

D(s, us) == [sec |-> s, usec |-> us]

\* Delays of 0.3 and 0.6 seconds, the second one across a full second.
ShortDelays == {D(0, 3), D(1, -4)}

\* 0.9 seconds, across a full second or not, and 1.8 seconds, so that the
\* differences of the microseconds span nearly two seconds; and a sender whose
\* clock is ahead of the receiver's.
WideDelays == {D(0, 9), D(1, -1), D(1, 8), D(2, -9), D(-1, 0), D(-2, 5)}
=============================================================================
