------------------------------- MODULE MCUpvalues ------------------------------
(* Constants of the Upvalues runs. *)
EXTENDS Upvalues
MCValues == {0, 1}
================================================================================
