------------------------------ MODULE MCWritePath ------------------------------
(* Small instances of WritePath for TLC. *)
EXTENDS WritePath, TLC
===============================================================================
