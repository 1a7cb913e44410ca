------------------------------ MODULE MCDialog ------------------------------
(* Dialog on small sets for TLC.                                             *)
EXTENDS Dialog
CONSTANTS t1, t2, t3
=============================================================================
