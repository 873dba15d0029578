---------------------------- MODULE TaskPromise ----------------------------
(***************************************************************************)
(* What the reward contract promises about a training task, without money, *)
(* accounts or storage: a task is opened once with a number of claimable   *)
(* chunk rewards, it is settled by claiming every one of them, it can be   *)
(* cancelled only while none has been claimed, and it never reopens.       *)
(* Where the deposit of a cancelled task goes is not part of it.           *)
(***************************************************************************)
EXTENDS Naturals

CONSTANTS TaskIds, ChunkCounts

VARIABLES phase, owed

vars == <<phase, owed>>

Init == /\ phase = [t \in TaskIds |-> "none"]
        /\ owed = [t \in TaskIds |-> 0]

Open(t, n) ==
  /\ phase[t] = "none"
  /\ \A s \in TaskIds : s < t => phase[s] # "none"
  /\ n > 0
  /\ phase' = [phase EXCEPT ![t] = "untouched"]
  /\ owed' = [owed EXCEPT ![t] = n]

Claim(t) ==
  /\ phase[t] \in {"untouched", "started"}
  /\ owed' = [owed EXCEPT ![t] = @ - 1]
  /\ phase' = [phase EXCEPT ![t] = IF owed[t] = 1 THEN "settled" ELSE "started"]

Cancel(t) ==
  /\ phase[t] = "untouched"
  /\ phase' = [phase EXCEPT ![t] = "cancelled"]
  /\ owed' = [owed EXCEPT ![t] = 0]

Next == \E t \in TaskIds :
          (\E n \in ChunkCounts : Open(t, n)) \/ Claim(t) \/ Cancel(t)

Spec == Init /\ [][Next]_vars

(* A task owes rewards exactly while it can be claimed. *)
OwesWhileOpen ==
  \A t \in TaskIds : owed[t] > 0 <=> phase[t] \in {"untouched", "started"}
=============================================================================
