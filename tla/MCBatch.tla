------------------------------- MODULE MCBatch ------------------------------
(* Batch with its constants given in the .cfg files.                        *)
EXTENDS Batch
=============================================================================
