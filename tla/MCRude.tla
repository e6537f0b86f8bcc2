------------------------------- MODULE MCRude -------------------------------
(***************************************************************************)
(* Rude with two flows, three blocks and short times.                      *)
(***************************************************************************)
EXTENDS Rude

CONSTANTS f1, f2, b1, b2, b3

MCFlowIds == {f1, f2}
MCBlocks == {b1, b2, b3}

\* A constant rate and a rate of zero.
Cbr == [ftype |-> "CBR", waits |-> <<2>>, sizes |-> <<2>>]
Silent == [ftype |-> "CBR", waits |-> <<>>, sizes |-> <<1>>]

MCCbrTraffic == {Cbr, Silent}

\* Lines of trace files, with two binary digits of a second.
Line0(size, s, fraction) == [psize |-> size, sec |-> s, fraction |-> fraction]

\* Packets after 1 and 2 ticks (the line after them has no end); a packet that is
\* too large; no lines.
MCTraceFiles ==
    {[lines |-> <<Line0(1, 0, <<0, 1>>), Line0(2, 0, <<1>>), Line0(9, 0, <<0>>)>>,
      terminated |-> FALSE],
     [lines |-> <<Line0(1, 0, <<1>>), Line0(9, 0, <<1>>)>>, terminated |-> TRUE],
     [lines |-> <<>>, terminated |-> TRUE]}

\* A second before midnight; midnight, and no time of day.
MClocaltime == [hour |-> 23, min |-> 59, sec |-> 59]
MCStarts == {[hour |-> 0, min |-> 0, sec |-> 0], [hour |-> 24, min |-> 0, sec |-> 0]}
=============================================================================
