------------------------------ MODULE MCLogStream ------------------------------
(* An instance of LogStream for TLC.                                          *)
EXTENDS LogStream, TLC

CONSTANTS w1, w2, s1
===============================================================================
