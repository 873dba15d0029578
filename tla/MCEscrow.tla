------------------------------ MODULE MCEscrow ------------------------------
(* The deployer and one more account, each depositor and trainer.  The     *)
(* deposit of 3 leaves a remainder over two chunks; 0 is what createTask   *)
(* must reject.                                                            *)
EXTENDS Escrow

CONSTANTS owner, trainer, none

MCPair == {owner, trainer}
MCPairValues == {0, 3}
MCChunkCounts == {0, 1, 2}
=============================================================================
