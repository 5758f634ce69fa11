--------------------------- MODULE MCFifoBuffer ---------------------------
(* Small instances of FifoBuffer.                                          *)
EXTENDS FifoBuffer, SequencesExt

CONSTANTS MaxLength, MaxBlock

MCSizes == 0 .. MaxLength

MCBlocks == BoundedSeq(Bytes, MaxBlock)

=============================================================================
