------------------------------ MODULE MCBuffer ------------------------------
(* Small instances of Buffer.                                              *)
EXTENDS Buffer, SequencesExt

CONSTANT MaxWord

MCWords == BoundedSeq(Elems, MaxWord)

=============================================================================
