------------------------------- MODULE MCMesh -------------------------------
(* The client and one or two trainers: one trainer's messages interleave   *)
(* with the other's, and two trainers can dial each other.                 *)
EXTENDS Mesh, TLC

CONSTANTS c, t1, t2, fed, round

MCTrainer == {t1}
MCTrainers == {t1, t2}
Symmetry == Permutations(MCTrainers)
=============================================================================
