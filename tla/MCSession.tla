------------------------------ MODULE MCSession -----------------------------
(* The instances of Session: all constants are given in the .cfg files. *)
EXTENDS Session
=============================================================================
