----------------------------- MODULE MCSniffer -----------------------------
EXTENDS Sniffer

\* Far more than the counters reach.
MCW == 2 ^ 16
=============================================================================
