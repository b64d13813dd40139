----------------------------- MODULE MCBatchSeq -----------------------------
(* BatchSeq with its constants given in the .cfg files.                     *)
EXTENDS BatchSeq
=============================================================================
