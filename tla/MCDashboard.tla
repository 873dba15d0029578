---------------------------- MODULE MCDashboard ----------------------------
(* One user with two tasks (one finished or running, one being paid), or   *)
(* two users who pay at the same time.                                     *)
EXTENDS Dashboard

CONSTANTS u1, u2

OneUser == {u1}
TwoUsers == {u1, u2}
=============================================================================
