------------------------------ MODULE MCReport ------------------------------
(* A small instance of Report for TLC. *)
EXTENDS Report

CONSTANTS p1, p2, n1, n2
=============================================================================
