----------------------------- MODULE RoundRobin -----------------------------
(***************************************************************************)
(* What the loop of assign_chunks_to_nodes (src/p2p/machine_learning.py)   *)
(* computes, as a closed form: Assignment shows that it does, the round    *)
(* uses it.                                                                *)
(***************************************************************************)
EXTENDS Integers, Sequences

(* The share of the k-th of m nodes once n chunks are dealt: k, k + m, ... *)
Share(k, m, n) == [j \in 1..((n + m - k) \div m) |-> k + (j - 1) * m]
=============================================================================
