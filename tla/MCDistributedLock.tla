-------------------------- MODULE MCDistributedLock -------------------------
(* The instance of DistributedLock: its constants are model values and numbers,
   given in the .cfg file. *)
EXTENDS DistributedLock
=============================================================================
