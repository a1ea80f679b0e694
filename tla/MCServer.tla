------------------------------ MODULE MCServer ------------------------------
(* The connections of the instances of Server. *)
EXTENDS Server

CONSTANTS c1, p1, x1
=============================================================================
