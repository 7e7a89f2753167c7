------------------------------ MODULE MCWritePath ------------------------------
(* A small instance of WritePath for TLC. *)
EXTENDS WritePath
================================================================================
