------------------------------ MODULE CrudeLog ------------------------------
(***************************************************************************)
(* crude without -s (src/rude/crude/main.c): packets are recorded to a     *)
(* file (-l), to be decoded later (-d), or printed as they come.           *)
(*                                                                         *)
(* A record is written with two calls, first what the packet carries, then *)
(* what the receiver knows about it; a signal may come between the two.    *)
(* The decoder reads records of the full size into one buffer, and the     *)
(* last read may be shorter.  The module Crude runs these steps from main. *)
(***************************************************************************)
EXTENDS Integers, Sequences

CONSTANTS
    Packets,      \* what tells packets apart
    NoData,       \* contents of a fresh buffer
    limit,        \* packets to capture, 0 for no limit
    MaxPackets    \* bound on the packets

VARIABLES
    pc,
    mode,         \* "file" for rec_to_file, "print" for rec_n_print
    pkt_count,
    file,         \* the halves of records in the file
    read,         \* halves that the decoder has read
    buffer,       \* its buffer, a record of two halves
    output,       \* the records printed
    received      \* history: the packets received

vars == <<pc, mode, pkt_count, file, read, buffer, output, received>>

Half(kind, p) == [kind |-> kind, of |-> p]

Init ==
    /\ pc = "idle"
    /\ mode = "print"
    /\ pkt_count = 0
    /\ file = <<>> /\ read = 0
    /\ buffer = [udp_data |-> NoData, crude_struct |-> NoData]
    /\ output = <<>>
    /\ received = <<>>
-----------------------------------------------------------------------------
(* rec_to_file and rec_n_print *)

\* main has made the socket and calls one of the two.
Begin(m) ==
    /\ pc = "idle"
    /\ pc' = "recv" /\ mode' = m
    /\ UNCHANGED <<pkt_count, file, read, buffer, output, received>>

LimitReached(n) == limit # 0 /\ n >= limit

\* A packet is received and counted.  A recvfrom that fails changes nothing.
Receive(p) ==
    /\ pc = "recv" /\ Len(received) < MaxPackets
    /\ received' = Append(received, p)
    /\ pkt_count' = pkt_count + 1
    /\ pc' = IF mode = "file" THEN "udp_data" ELSE "print"
    /\ UNCHANGED <<mode, file, read, buffer, output>>

Current == received[Len(received)]

WriteFirst ==
    /\ pc = "udp_data"
    /\ file' = Append(file, Half("udp_data", Current))
    /\ pc' = "crude_struct"
    /\ UNCHANGED <<mode, pkt_count, read, buffer, output, received>>

WriteSecond ==
    /\ pc = "crude_struct"
    /\ file' = Append(file, Half("crude_struct", Current))
    /\ pc' = IF LimitReached(pkt_count) THEN "recorded" ELSE "recv"
    /\ UNCHANGED <<mode, pkt_count, read, buffer, output, received>>

rec_n_print ==
    /\ pc = "print"
    /\ output' = Append(output, [udp_data |-> Current, crude_struct |-> Current])
    /\ pc' = IF LimitReached(pkt_count) THEN "done" ELSE "recv"
    /\ UNCHANGED <<mode, pkt_count, file, read, buffer, received>>

\* SIGINT: the files are closed and the program exits, wherever it is, while it
\* decodes a file too.
crude_handler ==
    /\ pc \in {"recv", "udp_data", "crude_struct", "print", "decode"}
    /\ pc' = IF pc = "decode" THEN "stopped" ELSE IF mode = "file" THEN "recorded" ELSE "done"
    /\ UNCHANGED <<mode, pkt_count, file, read, buffer, output, received>>
-----------------------------------------------------------------------------
(* decode_file, run later on the file *)

\* Another invocation: the file is opened, which is empty when nothing was
\* recorded, and the count starts again.
Open ==
    /\ pc \in {"idle", "recorded"}
    /\ pc' = "decode"
    /\ pkt_count' = 0
    /\ UNCHANGED <<mode, file, read, buffer, output, received>>

\* Mutant: only half a record is read at a time.
ReadSize_Half(rest) == 1

\* Halves that the next read returns.
ReadSize(rest) == IF rest >= 2 THEN 2 ELSE rest

\* What the buffer holds after n halves of the file were read over it; the
\* part that was not read keeps its contents.
Filled(n) ==
    [udp_data |-> file[read + 1].of,
     crude_struct |-> IF n = 2 THEN file[read + 2].of ELSE buffer.crude_struct]

DecodeRecord ==
    LET n == ReadSize(Len(file) - read)
    IN  /\ pc = "decode" /\ read < Len(file)
        /\ buffer' = Filled(n)
        /\ output' = Append(output, Filled(n))
        /\ read' = read + n
        /\ pkt_count' = pkt_count + 1
        /\ UNCHANGED <<pc, mode, file, received>>

EndOfFile ==
    /\ pc = "decode" /\ read = Len(file)
    /\ pc' = "done"
    /\ UNCHANGED <<mode, pkt_count, file, read, buffer, output, received>>
-----------------------------------------------------------------------------
Record == (\E p \in Packets : Receive(p)) \/ WriteFirst \/ WriteSecond \/ rec_n_print

Decode == DecodeRecord \/ EndOfFile
-----------------------------------------------------------------------------
(* Properties *)

Whole(p) == [udp_data |-> p, crude_struct |-> p]

\* All packets but possibly the last are printed, in the order they came and with
\* both parts of the same packet; the last one is spoilt only by a signal between
\* the two writes.
RoundTrip ==
    pc = "done" =>
       /\ Len(output) \in {Len(received), Len(received) - 1}
       /\ \A i \in 1 .. Len(received) - 1 : output[i] = Whole(received[i])
       /\ Len(file) % 2 = 0 => \A i \in 1 .. Len(output) : output[i] = Whole(received[i])
=============================================================================
