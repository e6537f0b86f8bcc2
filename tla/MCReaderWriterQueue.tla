------------------------- MODULE MCReaderWriterQueue ------------------------
(***************************************************************************)
(* The fast pipe as one block that grows (two slots, then four), and as    *)
(* several blocks of two slots.                                            *)
(***************************************************************************)
EXTENDS ReaderWriterQueue

MCPipes == {<<1, 4>>, <<4, 2>>}
=============================================================================
