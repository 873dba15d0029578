---------------------------- MODULE MCAssignment ----------------------------
(* Every dataset of up to six rows of one to three bytes, cut into chunks  *)
(* of three, and every list of up to three trainers: rows that fill a      *)
(* chunk exactly, fewer chunks than trainers and two full turns.           *)
EXTENDS Assignment

CONSTANTS n1, n2, n3

MCNodes == {n1, n2, n3}
=============================================================================
