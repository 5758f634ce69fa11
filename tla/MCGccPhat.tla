----------------------------- MODULE MCGccPhat -----------------------------
(* Small instances of GccPhat.                                             *)
EXTENDS GccPhat

MCMargins == {-9, -1, 0, 1, 2, 7}

=============================================================================
