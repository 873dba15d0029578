---------------------------- MODULE EscrowProofs ----------------------------
(***************************************************************************)
(* Theorems about the reward contract, for every set of accounts, every    *)
(* word size and every number of tasks.                                    *)
(***************************************************************************)
EXTENDS Escrow, SumLemmas, TLAPS

(* Integer division splits a deposit in equal rewards and a remainder. *)
LEMMA DivisionSplits ==
  ASSUME NEW d \in Nat, NEW n \in Nat, n > 0
  PROVE  /\ d \div n \in Nat
         /\ d % n \in Nat
         /\ d = (d \div n) * n + (d % n)
  OBVIOUS

(* Claiming one of r rewards of p each leaves r - 1 of them. *)
LEMMA OneClaimed ==
  ASSUME NEW p \in Nat, NEW r \in Nat
  PROVE  /\ p * r \in Nat
         /\ p * (r + 1) = p * r + p
  OBVIOUS

LEMMA RewardsSplit ==
  ASSUME NEW p \in Nat, NEW s \in Nat, NEW r \in Nat
  PROVE  p * s + p * r = p * (s + r)
  OBVIOUS

(* No call corrupts the storage: Init and every call keep the types. *)
THEOREM TypeCorrect == Spec => []TypeOK
<1> USE EscrowAssumption
<1>1. Init => TypeOK
  BY DEF Init, TypeOK, Task, NoTask, TaskIds
<1>2. TypeOK /\ [Next]_vars => TypeOK'
  <2> SUFFICES ASSUME TypeOK, [Next]_vars PROVE TypeOK'
    OBVIOUS
  <2>1. ASSUME NEW caller \in Accounts, NEW account \in Accounts,
               AddToWhitelist(caller, account) \/ RemoveFromWhitelist(caller, account)
        PROVE TypeOK'
    BY <2>1 DEF AddToWhitelist, RemoveFromWhitelist, TypeOK, events
  <2>2. CASE IncrementCount
    BY <2>2 DEF IncrementCount, TypeOK, events
  <2>3. ASSUME NEW caller \in Accounts, NEW value \in Values, NEW n \in ChunkCounts,
               CreateTask(caller, value, n)
        PROVE TypeOK'
    <3>1. value \in Nat /\ n \in Nat /\ n > 0
      BY <2>3 DEF CreateTask
    <3>2. value \div n \in Nat
      BY <3>1, DivisionSplits
    <3>3. [depositor |-> caller, numChunks |-> n, remainingChunks |-> n,
           perChunkReward |-> value \div n, exists |-> TRUE] \in Task
      BY <3>1, <3>2 DEF Task
    <3>4. taskCount + 1 \in TaskIds /\ taskCount' \in 0..MaxTasks
      BY <2>3 DEF CreateTask, RewardPerChunk, TypeOK, TaskIds
    <3>5. tasks' \in [TaskIds -> Task]
      BY <2>3, <3>3, <3>4 DEF CreateTask, RewardPerChunk, TypeOK
    <3>6. announced' \in [TaskIds -> [depositor: Accounts \cup {ZeroAddress},
                                   chunks: Nat, deposit: Nat]]
      BY <2>3, <3>1, <3>4 DEF CreateTask, RewardPerChunk, TypeOK
    <3>7. balance' \in Nat
      BY <2>3, <3>1 DEF CreateTask, RewardPerChunk, TypeOK
    <3> QED
      BY <2>3, <3>4, <3>5, <3>6, <3>7 DEF CreateTask, RewardPerChunk, TypeOK
  <2>4. ASSUME NEW caller \in Accounts, NEW t \in TaskIds, NEW accepts \in BOOLEAN,
               SubmitWeights(caller, t, accepts)
        PROVE TypeOK'
    <3> DEFINE p == tasks[t].perChunkReward
    <3>1. tasks[t] \in Task /\ p \in Nat /\ tasks[t].remainingChunks \in Nat
      BY DEF TypeOK, Task
    <3>2. tasks' \in [TaskIds -> Task]
      <4>1. tasks[t].remainingChunks - 1 \in Nat
        BY <2>4, <3>1 DEF SubmitWeights
      <4>2. [tasks[t] EXCEPT !.remainingChunks = @ - 1,
                             !.exists = tasks[t].remainingChunks - 1 # 0] \in Task
        BY <3>1, <4>1 DEF Task
      <4> QED
        BY <2>4, <4>2 DEF SubmitWeights, Claimed, TypeOK
    <3>3. /\ submissions' \in [TaskIds -> Nat]
          /\ rewarded' \in [TaskIds -> Nat]
          /\ earned' \in [Accounts -> Nat]
      BY <2>4, <3>1 DEF SubmitWeights, Claimed, TypeOK
    <3>4. /\ balance' \in Nat
          /\ paidOut' \in [Accounts -> Nat]
          /\ pendingWithdrawals' \in [Accounts -> 0..MaxUint]
      <4>1. CASE /\ p <= balance
                 /\ balance' = balance - p
                 /\ paidOut' = [paidOut EXCEPT ![caller] = @ + p]
                 /\ UNCHANGED pendingWithdrawals
        BY <4>1, <3>1 DEF TypeOK
      <4>2. CASE /\ pendingWithdrawals[caller] + p <= MaxUint
                 /\ pendingWithdrawals' = [pendingWithdrawals EXCEPT ![caller] = @ + p]
                 /\ UNCHANGED <<balance, paidOut>>
        BY <4>2, <3>1 DEF TypeOK
      <4> QED
        BY <2>4, <4>1, <4>2 DEF SubmitWeights, Claimed, PayOrCredit, Fits
    <3> QED
      BY <2>4, <3>2, <3>3, <3>4 DEF SubmitWeights, Claimed, TypeOK
  <2>5. ASSUME NEW caller \in Accounts, WithdrawPending(caller)
        PROVE TypeOK'
    BY <2>5 DEF WithdrawPending, TypeOK
  <2>6. ASSUME NEW caller \in Accounts, NEW t \in TaskIds, CancelTask(caller, t)
        PROVE TypeOK'
    <3>1. tasks[t].perChunkReward * tasks[t].remainingChunks \in Nat
      BY OneClaimed DEF TypeOK, Task
    <3>2. NoTask \in Task
      BY DEF NoTask, Task
    <3>3. tasks' \in [TaskIds -> Task] /\ tasks'[t].depositor \in Accounts \cup {ZeroAddress}
      BY <2>6, <3>2 DEF CancelTask, TypeOK, Task
    <3>4. refundedTo' \in [TaskIds -> SUBSET (Accounts \cup {ZeroAddress})]
      BY <2>6, <3>3 DEF CancelTask, TypeOK
    <3> HIDE DEF NoTask
    <3> QED
      BY <2>6, <3>1, <3>3, <3>4 DEF CancelTask, TypeOK
  <2>7. ASSUME NEW value \in Values, Receive(value)
        PROVE TypeOK'
    BY <2>7 DEF Receive, TypeOK
  <2>8. ASSUME NEW account \in Accounts, NEW amount \in Values,
               SetPendingWithdrawal(account, amount)
        PROVE TypeOK'
    BY <2>8 DEF SetPendingWithdrawal, TypeOK, events
  <2>9. CASE UNCHANGED vars
    BY <2>9 DEF vars, storage, events, TypeOK
  <2> QED
    BY <2>1, <2>2, <2>3, <2>4, <2>5, <2>6, <2>7, <2>8, <2>9 DEF Next
<1> QED
  BY <1>1, <1>2, PTL DEF Spec

-----------------------------------------------------------------------------
(* The four stages of a storage slot, each with everything the events say  *)
(* about it: the inductive invariant behind the theorems below.            *)
PerChunk(t) == announced[t].deposit \div announced[t].chunks

Unused(t) ==
  /\ tasks[t] = NoTask /\ announced[t].chunks = 0 /\ announced[t].deposit = 0
  /\ submissions[t] = 0 /\ rewarded[t] = 0 /\ sentAway[t] = 0 /\ refundedTo[t] = {}

InProgress(t) ==
  /\ tasks[t].exists /\ tasks[t].depositor # ZeroAddress
  /\ tasks[t].numChunks = announced[t].chunks
  /\ tasks[t].perChunkReward = PerChunk(t)
  /\ tasks[t].remainingChunks > 0
  /\ submissions[t] + tasks[t].remainingChunks = announced[t].chunks
  /\ rewarded[t] = PerChunk(t) * submissions[t]
  /\ sentAway[t] = 0 /\ refundedTo[t] = {}

Settled(t) ==
  /\ ~tasks[t].exists /\ tasks[t].depositor # ZeroAddress
  /\ tasks[t].remainingChunks = 0
  /\ submissions[t] = announced[t].chunks
  /\ rewarded[t] = PerChunk(t) * announced[t].chunks
  /\ sentAway[t] = 0 /\ refundedTo[t] = {}

Cancelled(t) ==
  /\ tasks[t] = NoTask /\ submissions[t] = 0 /\ rewarded[t] = 0
  /\ sentAway[t] = PerChunk(t) * announced[t].chunks

TaskLedger ==
  \A t \in TaskIds :
    IF t > taskCount THEN Unused(t)
    ELSE /\ announced[t].chunks > 0
         /\ InProgress(t) \/ Settled(t) \/ Cancelled(t)

(* The stage of a slot that a call does not touch is not disturbed. *)
LEMMA UntouchedSlot ==
  ASSUME NEW t \in TaskIds,
         TaskLedger, t > taskCount <=> t > taskCount',
         tasks'[t] = tasks[t], announced'[t] = announced[t],
         submissions'[t] = submissions[t], rewarded'[t] = rewarded[t],
         sentAway'[t] = sentAway[t], refundedTo'[t] = refundedTo[t]
  PROVE  IF t > taskCount' THEN Unused(t)'
         ELSE /\ announced'[t].chunks > 0
              /\ InProgress(t)' \/ Settled(t)' \/ Cancelled(t)'
  BY DEF TaskLedger, Unused, InProgress, Settled, Cancelled, PerChunk

(* createTask fills the slot behind the last one. *)
LEMMA CreateTaskKeepsLedger ==
  ASSUME TypeOK, TaskLedger,
         NEW caller \in Accounts, NEW value \in Values, NEW n \in ChunkCounts,
         CreateTask(caller, value, n)
  PROVE  TaskLedger'
<1> USE EscrowAssumption
<1>1. PICK new \in TaskIds : new = taskCount + 1 /\ taskCount' = new /\ taskCount \in Nat
  BY DEF CreateTask, RewardPerChunk, TypeOK, TaskIds
<1>2. n \in Nat /\ n > 0 /\ value \in Nat
  BY DEF CreateTask
<1>3. value \div n \in Nat
  BY <1>2, DivisionSplits
<1>4. /\ tasks'[new] = [depositor |-> caller, numChunks |-> n, remainingChunks |-> n,
                        perChunkReward |-> value \div n, exists |-> TRUE]
      /\ announced'[new] = [depositor |-> caller, chunks |-> n, deposit |-> value]
  BY <1>1 DEF CreateTask, RewardPerChunk, TypeOK
<1>5. submissions'[new] = 0 /\ rewarded'[new] = 0 /\ sentAway'[new] = 0 /\ refundedTo'[new] = {}
  BY <1>1 DEF CreateTask, RewardPerChunk, TypeOK, TaskLedger, Unused
<1>6. announced'[new].chunks > 0 /\ InProgress(new)'
  BY <1>2, <1>3, <1>4, <1>5 DEF InProgress, PerChunk
<1>7. ASSUME NEW t \in TaskIds, t # new
      PROVE  IF t > taskCount' THEN Unused(t)'
             ELSE /\ announced'[t].chunks > 0
                  /\ InProgress(t)' \/ Settled(t)' \/ Cancelled(t)'
  <2>1. t > taskCount <=> t > taskCount'
    <3>1. t \in Int /\ t # taskCount + 1
      BY <1>1, <1>7 DEF TaskIds
    <3> QED
      BY <1>1, <3>1
  <2>2. /\ tasks'[t] = tasks[t] /\ announced'[t] = announced[t]
        /\ submissions'[t] = submissions[t] /\ rewarded'[t] = rewarded[t]
        /\ sentAway'[t] = sentAway[t] /\ refundedTo'[t] = refundedTo[t]
    BY <1>1, <1>7 DEF CreateTask, RewardPerChunk, TypeOK
  <2> QED
    BY <2>1, <2>2, UntouchedSlot
<1> QED
  BY <1>1, <1>6, <1>7 DEF TaskLedger, TaskIds

(* submitWeights moves one reward from the promised to the rewarded side, *)
(* and closes the slot with the last one.                                 *)
LEMMA SubmitWeightsKeepsLedger ==
  ASSUME TypeOK, TaskLedger,
         NEW caller \in Accounts, NEW s \in TaskIds, NEW accepts \in BOOLEAN,
         SubmitWeights(caller, s, accepts)
  PROVE  TaskLedger'
<1> DEFINE r == tasks[s].remainingChunks
<1> DEFINE p == tasks[s].perChunkReward
<1>1. /\ tasks[s] \in Task /\ r \in Nat /\ r > 0 /\ p \in Nat
      /\ submissions[s] \in Nat /\ rewarded[s] \in Nat /\ sentAway[s] \in Nat
      /\ announced[s].chunks \in Nat
  BY DEF SubmitWeights, Claimed, TypeOK, Task
<1>2. ~(s > taskCount) /\ announced[s].chunks > 0 /\ InProgress(s)
  BY DEF SubmitWeights, Claimed, TaskLedger, Unused, NoTask, Settled, Cancelled
<1>3. /\ tasks'[s] = [tasks[s] EXCEPT !.remainingChunks = r - 1,
                                      !.exists = r - 1 # 0]
      /\ submissions'[s] = submissions[s] + 1
      /\ rewarded'[s] = rewarded[s] + p
      /\ UNCHANGED <<taskCount, announced, sentAway, refundedTo>>
  BY DEF SubmitWeights, Claimed, TypeOK
<1>4. rewarded'[s] = PerChunk(s)' * submissions'[s]
  <2>1. p = PerChunk(s) /\ PerChunk(s)' = p /\ rewarded[s] = p * submissions[s]
    BY <1>2, <1>3 DEF InProgress, PerChunk
  <2> QED
    BY <1>1, <1>3, <2>1, OneClaimed
<1>5. InProgress(s)' \/ Settled(s)'
  <2>1. CASE r = 1
    <3>1. submissions'[s] = announced'[s].chunks
      BY <1>1, <1>2, <1>3, <2>1 DEF InProgress
    <3>2. /\ ~tasks'[s].exists /\ tasks'[s].depositor # ZeroAddress
          /\ tasks'[s].remainingChunks = 0
      <4>1. r - 1 = 0
        BY <2>1
      <4>2. tasks'[s] = [tasks[s] EXCEPT !.remainingChunks = 0, !.exists = FALSE]
        BY <1>3, <4>1
      <4> HIDE DEF r
      <4> QED
        BY <1>1, <1>2, <4>2 DEF InProgress, Task
    <3>3. sentAway'[s] = 0 /\ refundedTo'[s] = {}
      BY <1>2, <1>3 DEF InProgress
    <3> QED
      BY <1>4, <3>1, <3>2, <3>3 DEF Settled
  <2>2. CASE r # 1
    <3>1. /\ tasks'[s].exists /\ tasks'[s].depositor # ZeroAddress
          /\ tasks'[s].numChunks = announced'[s].chunks
          /\ tasks'[s].perChunkReward = PerChunk(s)'
          /\ tasks'[s].remainingChunks = r - 1
      BY <1>1, <1>2, <1>3, <2>2 DEF InProgress, Task, PerChunk
    <3>2. submissions'[s] + (r - 1) = announced'[s].chunks
      BY <1>1, <1>2, <1>3 DEF InProgress
    <3>3. sentAway'[s] = 0 /\ refundedTo'[s] = {}
      BY <1>2, <1>3 DEF InProgress
    <3> QED
      BY <1>1, <1>4, <2>2, <3>1, <3>2, <3>3 DEF InProgress
  <2> QED
    BY <2>1, <2>2
<1>6. ASSUME NEW t \in TaskIds, t # s
      PROVE  IF t > taskCount' THEN Unused(t)'
             ELSE /\ announced'[t].chunks > 0
                  /\ InProgress(t)' \/ Settled(t)' \/ Cancelled(t)'
  <2>1. /\ tasks'[t] = tasks[t] /\ announced'[t] = announced[t]
        /\ submissions'[t] = submissions[t] /\ rewarded'[t] = rewarded[t]
        /\ sentAway'[t] = sentAway[t] /\ refundedTo'[t] = refundedTo[t] /\ taskCount' = taskCount
    BY <1>6 DEF SubmitWeights, Claimed, TypeOK
  <2> QED
    BY <2>1, UntouchedSlot
<1> QED
  BY <1>2, <1>3, <1>5, <1>6 DEF TaskLedger

(* cancelTask sends away every reward of a slot nobody claimed from. *)
LEMMA CancelTaskKeepsLedger ==
  ASSUME TypeOK, TaskLedger,
         NEW caller \in Accounts, NEW s \in TaskIds, CancelTask(caller, s)
  PROVE  TaskLedger'
<1>1. ~(s > taskCount) /\ announced[s].chunks > 0 /\ InProgress(s)
  BY DEF CancelTask, Cancellable, TaskLedger, Unused, NoTask, Settled, Cancelled
<1>2. /\ tasks[s].remainingChunks = announced[s].chunks
      /\ tasks[s].perChunkReward = PerChunk(s) /\ sentAway[s] = 0
  BY <1>1 DEF CancelTask, Cancellable, InProgress
<1>3. submissions[s] = 0 /\ rewarded[s] = 0
  <2>1. submissions[s] \in Nat /\ announced[s].chunks \in Nat
    BY DEF TypeOK
  <2>2. submissions[s] = 0
    BY <1>1, <1>2, <2>1 DEF InProgress
  <2>3. PerChunk(s) \in Nat
    BY <1>2 DEF TypeOK, Task
  <2> QED
    BY <1>1, <2>2, <2>3 DEF InProgress
<1>4. /\ tasks'[s] = NoTask
      /\ UNCHANGED <<taskCount, announced, submissions, rewarded>>
  BY DEF CancelTask, Cancellable, TypeOK
<1>5. sentAway'[s] = PerChunk(s)' * announced'[s].chunks
  <2>1. sentAway'[s] = sentAway[s] + tasks[s].perChunkReward * tasks[s].remainingChunks
    BY DEF CancelTask, Cancellable, TypeOK
  <2>2. tasks[s].perChunkReward \in Nat /\ tasks[s].remainingChunks \in Nat
    BY DEF TypeOK, Task
  <2>3. tasks[s].perChunkReward * tasks[s].remainingChunks \in Nat
    BY <2>2, OneClaimed
  <2>4. sentAway'[s] = tasks[s].perChunkReward * tasks[s].remainingChunks
    BY <1>2, <2>1, <2>3
  <2> QED
    BY <1>2, <1>4, <2>4 DEF PerChunk
<1>6. announced'[s].chunks > 0 /\ Cancelled(s)' /\ ~(s > taskCount')
  BY <1>1, <1>3, <1>4, <1>5 DEF Cancelled
<1>7. ASSUME NEW t \in TaskIds, t # s
      PROVE  IF t > taskCount' THEN Unused(t)'
             ELSE /\ announced'[t].chunks > 0
                  /\ InProgress(t)' \/ Settled(t)' \/ Cancelled(t)'
  <2>1. /\ tasks'[t] = tasks[t] /\ announced'[t] = announced[t]
        /\ submissions'[t] = submissions[t] /\ rewarded'[t] = rewarded[t]
        /\ sentAway'[t] = sentAway[t] /\ refundedTo'[t] = refundedTo[t] /\ taskCount' = taskCount
    BY <1>7 DEF CancelTask, Cancellable, TypeOK
  <2> QED
    BY <2>1, UntouchedSlot
<1> QED
  BY <1>6, <1>7 DEF TaskLedger

(* Every slot is at one of its four stages, with events that match. *)
LEMMA LedgerInductive == TypeOK /\ TaskLedger /\ [Next]_vars => TaskLedger'
<1> SUFFICES ASSUME TypeOK, TaskLedger, [Next]_vars PROVE TaskLedger'
  OBVIOUS
<1>1. ASSUME UNCHANGED <<taskCount, tasks, announced, submissions, rewarded, sentAway, refundedTo>>
      PROVE  TaskLedger'
  BY <1>1, UntouchedSlot DEF TaskLedger
<1>2. CASE \E caller, account \in Accounts :
             AddToWhitelist(caller, account) \/ RemoveFromWhitelist(caller, account)
  BY <1>1, <1>2 DEF AddToWhitelist, RemoveFromWhitelist, events
<1>3. CASE IncrementCount
  BY <1>1, <1>3 DEF IncrementCount, events
<1>4. CASE \E caller \in Accounts, value \in Values, n \in ChunkCounts :
             CreateTask(caller, value, n)
  BY <1>4, CreateTaskKeepsLedger
<1>5. CASE \E caller \in Accounts, t \in TaskIds, accepts \in BOOLEAN :
             SubmitWeights(caller, t, accepts)
  BY <1>5, SubmitWeightsKeepsLedger
<1>6. CASE \E caller \in Accounts : WithdrawPending(caller)
  BY <1>1, <1>6 DEF WithdrawPending
<1>7. CASE \E caller \in Accounts, t \in TaskIds : CancelTask(caller, t)
  BY <1>7, CancelTaskKeepsLedger
<1>8. CASE \E value \in Values : Receive(value)
  BY <1>1, <1>8 DEF Receive
<1>9. CASE \E account \in Accounts, amount \in Values :
             SetPendingWithdrawal(account, amount)
  BY <1>1, <1>9 DEF SetPendingWithdrawal, events
<1>10. CASE UNCHANGED vars
  BY <1>1, <1>10 DEF vars, storage, events
<1> QED
  BY <1>2, <1>3, <1>4, <1>5, <1>6, <1>7, <1>8, <1>9, <1>10 DEF Next

(* The ledger holds for every number of accounts, tasks and chunks. *)
LEMMA LedgerHolds == Spec => []TaskLedger
<1>1. Init => TaskLedger
  BY EscrowAssumption DEF Init, TaskLedger, Unused, TaskIds
<1> QED
  BY <1>1, LedgerInductive, TypeCorrect, PTL DEF Spec

(* No task is ever paid from another task's deposit, nor is its            *)
(* cancellation, wherever the money of that goes.                          *)
THEOREM EveryTaskBalanced == Spec => []TaskBalanced
<1>1. TypeOK /\ TaskLedger => TaskBalanced
  <2> SUFFICES ASSUME TypeOK, TaskLedger, NEW t \in TaskIds
               PROVE  rewarded[t] + sentAway[t] + Escrowed(t) + Dust(t)
                        = announced[t].deposit
    BY DEF TaskBalanced
  <2>1. /\ announced[t].deposit \in Nat /\ announced[t].chunks \in Nat
        /\ submissions[t] \in Nat /\ t \in Int /\ taskCount \in Int
        /\ tasks[t].remainingChunks \in Nat
    BY EscrowAssumption DEF TypeOK, Task, TaskIds
  <2>2. CASE t > taskCount
    <3>1. Escrowed(t) = 0
      BY <2>2 DEF TaskLedger, Unused, NoTask, Escrowed
    <3>2. Dust(t) = 0
      BY <2>1, <2>2 DEF Dust
    <3> QED
      BY <2>2, <3>1, <3>2 DEF TaskLedger, Unused
  <2>3. CASE ~(t > taskCount)
    <3> DEFINE d == announced[t].deposit
    <3> DEFINE n == announced[t].chunks
    <3>1. n > 0 /\ (InProgress(t) \/ Settled(t) \/ Cancelled(t))
      BY <2>3 DEF TaskLedger
    <3>2. /\ PerChunk(t) \in Nat /\ Dust(t) \in Nat
          /\ d = PerChunk(t) * n + Dust(t)
      BY <2>1, <2>3, <3>1, DivisionSplits DEF PerChunk, Dust
    <3>3. PerChunk(t) * n \in Nat /\ PerChunk(t) * 0 = 0
      BY <2>1, <3>2, OneClaimed
    <3>4. CASE InProgress(t)
      <4>1. rewarded[t] + Escrowed(t) = PerChunk(t) * n
        BY <2>1, <3>2, <3>4, RewardsSplit DEF InProgress, Escrowed
      <4>2. rewarded[t] \in Nat /\ Escrowed(t) \in Nat /\ sentAway[t] = 0
        BY <2>1, <3>2, <3>4, OneClaimed DEF InProgress, Escrowed
      <4> QED
        BY <3>2, <3>3, <4>1, <4>2
    <3>5. CASE Settled(t)
      <4>1. Escrowed(t) = 0
        BY <3>5, OneClaimed DEF Settled, Escrowed, TypeOK, Task
      <4> QED
        BY <3>2, <3>3, <3>5, <4>1 DEF Settled
    <3>6. CASE Cancelled(t)
      <4>1. Escrowed(t) = 0
        BY <3>6 DEF Cancelled, NoTask, Escrowed
      <4> QED
        BY <3>2, <3>3, <3>6, <4>1 DEF Cancelled
    <3> QED
      BY <3>1, <3>4, <3>5, <3>6
  <2> QED
    BY <2>2, <2>3
<1> QED
  BY <1>1, TypeCorrect, LedgerHolds, PTL

(* A task is open exactly while it owes rewards, and rewarded or         *)
(* cancelled, never both.                                                  *)
THEOREM AlwaysOpenWhileOwing == Spec => []OpenWhileOwing
<1>1. TypeOK /\ TaskLedger => OpenWhileOwing
  <2> SUFFICES ASSUME TypeOK, TaskLedger, NEW t \in TaskIds
               PROVE  /\ tasks[t].exists <=> tasks[t].remainingChunks > 0
                      /\ tasks[t].exists =>
                           /\ t <= taskCount
                           /\ tasks[t].numChunks = announced[t].chunks
                           /\ submissions[t] + tasks[t].remainingChunks = announced[t].chunks
                      /\ ~tasks[t].exists /\ t <= taskCount =>
                           submissions[t] \in {0, announced[t].chunks}
                      /\ refundedTo[t] # {} => submissions[t] = 0 /\ ~tasks[t].exists
    BY DEF OpenWhileOwing
  <2>1. t \in Int /\ taskCount \in Int
    BY DEF TypeOK, TaskIds
  <2>2. CASE t > taskCount
    BY <2>1, <2>2 DEF TaskLedger, Unused, NoTask
  <2>3. CASE ~(t > taskCount) /\ InProgress(t)
    BY <2>1, <2>3 DEF InProgress
  <2>4. CASE Settled(t)
    BY <2>4 DEF Settled
  <2>5. CASE Cancelled(t)
    BY <2>5 DEF Cancelled, NoTask
  <2> QED
    BY <2>2, <2>3, <2>4, <2>5 DEF TaskLedger
<1> QED
  BY <1>1, TypeCorrect, LedgerHolds, PTL

(* What a trainer earned has been transferred to it or is still credited *)
(* to it, until setPendingWithdrawal replaces its credit.                *)
THEOREM RewardsNeverLost == Spec => []RewardsPaidOrCredited
<1>1. Init => RewardsPaidOrCredited
  BY DEF Init, RewardsPaidOrCredited
<1>2. TypeOK /\ RewardsPaidOrCredited /\ [Next]_vars => RewardsPaidOrCredited'
  <2> SUFFICES ASSUME TypeOK, RewardsPaidOrCredited, [Next]_vars
               PROVE  RewardsPaidOrCredited'
    OBVIOUS
  <2>1. ASSUME UNCHANGED <<earned, paidOut, pendingWithdrawals, overridden>>
        PROVE  RewardsPaidOrCredited'
    BY <2>1 DEF RewardsPaidOrCredited
  <2>2. ASSUME NEW caller \in Accounts, NEW t \in TaskIds, NEW accepts \in BOOLEAN,
               SubmitWeights(caller, t, accepts)
        PROVE  RewardsPaidOrCredited'
    <3>1. tasks[t].perChunkReward \in Nat
      BY DEF TypeOK, Task
    <3> DEFINE p == tasks[t].perChunkReward
    <3>2. /\ earned' = [earned EXCEPT ![caller] = @ + p]
          /\ UNCHANGED overridden
      BY <2>2 DEF SubmitWeights
    <3>3. CASE /\ paidOut' = [paidOut EXCEPT ![caller] = @ + p]
               /\ UNCHANGED pendingWithdrawals
      BY <3>1, <3>2, <3>3 DEF RewardsPaidOrCredited, TypeOK
    <3>4. CASE /\ pendingWithdrawals' = [pendingWithdrawals EXCEPT ![caller] = @ + p]
               /\ UNCHANGED paidOut
      BY <3>1, <3>2, <3>4 DEF RewardsPaidOrCredited, TypeOK
    <3> QED
      BY <2>2, <3>3, <3>4 DEF SubmitWeights, Claimed, PayOrCredit, Fits
  <2>3. ASSUME NEW caller \in Accounts, WithdrawPending(caller)
        PROVE  RewardsPaidOrCredited'
    BY <2>3 DEF WithdrawPending, RewardsPaidOrCredited, TypeOK
  <2>4. CASE \E caller, account \in Accounts :
               AddToWhitelist(caller, account) \/ RemoveFromWhitelist(caller, account)
    BY <2>1, <2>4 DEF AddToWhitelist, RemoveFromWhitelist, events
  <2>5. CASE IncrementCount
    BY <2>1, <2>5 DEF IncrementCount, events
  <2>6. CASE \E caller \in Accounts, value \in Values, n \in ChunkCounts :
               CreateTask(caller, value, n)
    BY <2>1, <2>6 DEF CreateTask
  <2>7. CASE \E caller \in Accounts, t \in TaskIds : CancelTask(caller, t)
    BY <2>1, <2>7 DEF CancelTask
  <2>8. CASE \E value \in Values : Receive(value)
    BY <2>1, <2>8 DEF Receive
  <2>9. CASE \E account \in Accounts, amount \in Values :
               SetPendingWithdrawal(account, amount)
    BY <2>9 DEF SetPendingWithdrawal, events, RewardsPaidOrCredited, TypeOK
  <2>10. CASE UNCHANGED vars
    BY <2>1, <2>10 DEF vars, storage, events
  <2> QED
    BY <2>2, <2>3, <2>4, <2>5, <2>6, <2>7, <2>8, <2>9, <2>10 DEF Next
<1> QED
  BY <1>1, <1>2, TypeCorrect, PTL DEF Spec

-----------------------------------------------------------------------------
(* The money of the contract, added up over tasks and accounts. *)
OpenRewards == [t \in TaskIds |-> Escrowed(t)]
RoundingDust == [t \in TaskIds |-> Dust(t)]

SumsInNat ==
  /\ SumFunction(OpenRewards) \in Nat
  /\ SumFunction(RoundingDust) \in Nat
  /\ SumFunction(pendingWithdrawals) \in Nat

LEMMA TaskIdsFinite == IsFiniteSet(TaskIds)
<1>1. 1 \in Int /\ MaxTasks \in Int
  BY EscrowAssumption
<1> QED
  BY <1>1, FS_Interval DEF TaskIds

LEMMA SumsTyped ==
  ASSUME TypeOK, TaskLedger
  PROVE  /\ OpenRewards \in [TaskIds -> Nat]
         /\ RoundingDust \in [TaskIds -> Nat]
         /\ pendingWithdrawals \in [Accounts -> Nat]
         /\ SumsInNat
<1>1. ASSUME NEW t \in TaskIds PROVE Escrowed(t) \in Nat /\ Dust(t) \in Nat
  <2>1. Escrowed(t) \in Nat
    BY OneClaimed DEF Escrowed, TypeOK, Task
  <2>2. CASE t <= taskCount
    <3>1. ~(t > taskCount)
      BY <2>2 DEF TypeOK, TaskIds
    <3>2. announced[t].chunks > 0
      BY <3>1 DEF TaskLedger
    <3>3. announced[t].chunks \in Nat /\ announced[t].deposit \in Nat
      BY DEF TypeOK
    <3> QED
      BY <2>1, <2>2, <3>2, <3>3, DivisionSplits DEF Dust
  <2> QED
    BY <2>1, <2>2 DEF Dust
<1>2. OpenRewards \in [TaskIds -> Nat] /\ RoundingDust \in [TaskIds -> Nat]
  BY <1>1 DEF OpenRewards, RoundingDust
<1>3. pendingWithdrawals \in [Accounts -> Nat]
  BY DEF TypeOK
<1> QED
  BY <1>2, <1>3, TaskIdsFinite, EscrowAssumption, SumType DEF SumsInNat

(* What a call does to one task, it does to the sum. *)
LEMMA OneTaskMoves ==
  ASSUME TypeOK, TaskLedger, TypeOK', TaskLedger', NEW s \in TaskIds,
         \A t \in TaskIds \ {s} : tasks'[t] = tasks[t]
  PROVE  SumFunction(OpenRewards)' + Escrowed(s)
           = SumFunction(OpenRewards) + Escrowed(s)'
<1>1. OpenRewards \in [TaskIds -> Nat] /\ OpenRewards' \in [TaskIds -> Nat]
  <2>1. OpenRewards' \in [TaskIds -> Nat]
    <3>1. (TypeOK /\ TaskLedger => OpenRewards \in [TaskIds -> Nat])'
      BY SumsTyped, PTL
    <3> QED
      BY <3>1
  <2> QED
    BY <2>1, SumsTyped
<1>2. \A t \in TaskIds \ {s} : OpenRewards'[t] = OpenRewards[t]
  BY DEF OpenRewards, Escrowed
<1>3. OpenRewards[s] = Escrowed(s) /\ OpenRewards'[s] = Escrowed(s)'
  BY DEF OpenRewards
<1>4. SumFunction(OpenRewards') + OpenRewards[s]
        = SumFunction(OpenRewards) + OpenRewards'[s]
  BY <1>1, <1>2, TaskIdsFinite, SumWithChange
<1> QED
  BY <1>3, <1>4

(* A call that leaves a part of the storage alone leaves its sum alone. *)
LEMMA SameOpenRewards ==
  ASSUME UNCHANGED tasks PROVE SumFunction(OpenRewards)' = SumFunction(OpenRewards)
<1>1. OpenRewards' = OpenRewards
  BY DEF OpenRewards, Escrowed
<1> QED
  BY <1>1

LEMMA SameDust ==
  ASSUME UNCHANGED <<taskCount, announced>>
  PROVE  SumFunction(RoundingDust)' = SumFunction(RoundingDust)
<1>1. RoundingDust' = RoundingDust
  BY DEF RoundingDust, Dust
<1> QED
  BY <1>1

(* A credit changes for one account. *)
LEMMA OneCreditMoves ==
  ASSUME TypeOK, TypeOK', NEW a \in Accounts,
         \A b \in Accounts \ {a} : pendingWithdrawals'[b] = pendingWithdrawals[b]
  PROVE  SumFunction(pendingWithdrawals)' + pendingWithdrawals[a]
           = SumFunction(pendingWithdrawals) + pendingWithdrawals'[a]
<1>1. pendingWithdrawals \in [Accounts -> Nat] /\ pendingWithdrawals' \in [Accounts -> Nat]
  BY DEF TypeOK
<1>2. SumFunction(pendingWithdrawals') + pendingWithdrawals[a]
        = SumFunction(pendingWithdrawals) + pendingWithdrawals'[a]
  BY <1>1, EscrowAssumption, SumWithChange
<1> QED
  BY <1>2

(* createTask: the deposit becomes open rewards and dust. *)
LEMMA CreateTaskAccounted ==
  ASSUME TypeOK, TaskLedger, TypeOK', TaskLedger', BalanceAccounted,
         NEW caller \in Accounts, NEW value \in Values, NEW n \in ChunkCounts,
         CreateTask(caller, value, n)
  PROVE  BalanceAccounted'
<1> USE EscrowAssumption
<1>1. PICK new \in TaskIds : new = taskCount + 1 /\ taskCount' = new /\ taskCount \in Nat
  BY DEF CreateTask, RewardPerChunk, TypeOK, TaskIds
<1>2. n \in Nat /\ n > 0 /\ value \in Nat
  BY DEF CreateTask
<1>3. /\ \A t \in TaskIds \ {new} : tasks'[t] = tasks[t] /\ announced'[t] = announced[t]
      /\ tasks'[new].perChunkReward = value \div n /\ tasks'[new].remainingChunks = n
      /\ announced'[new] = [depositor |-> caller, chunks |-> n, deposit |-> value]
      /\ balance' = balance + value
      /\ UNCHANGED <<pendingWithdrawals, received, overridden>>
  BY <1>1 DEF CreateTask, RewardPerChunk, TypeOK
<1>4. Escrowed(new) = 0 /\ Dust(new) = 0
  <2>1. new > taskCount /\ ~(new <= taskCount)
    BY <1>1
  <2>2. Unused(new)
    BY <2>1 DEF TaskLedger
  <2> QED
    BY <2>1, <2>2 DEF Unused, NoTask, Escrowed, Dust
<1>5. /\ Escrowed(new)' = (value \div n) * n
      /\ Dust(new)' = value % n
  BY <1>1, <1>3 DEF Escrowed, Dust
<1>6. /\ SumFunction(OpenRewards) \in Nat /\ SumFunction(RoundingDust) \in Nat
      /\ SumFunction(pendingWithdrawals) \in Nat /\ balance \in Nat /\ received \in Nat
  BY SumsTyped DEF TypeOK, SumsInNat
<1>7. /\ RoundingDust' \in [TaskIds -> Nat]
      /\ SumFunction(OpenRewards)' \in Nat /\ SumFunction(RoundingDust)' \in Nat
  <2>1. (TypeOK /\ TaskLedger => RoundingDust \in [TaskIds -> Nat] /\ SumsInNat)'
    BY SumsTyped, PTL
  <2> QED
    BY <2>1 DEF SumsInNat
<1> DEFINE promised == (value \div n) * n
<1> DEFINE kept == value % n
<1>8. promised \in Nat /\ kept \in Nat /\ value = promised + kept
  <2>1. value \div n \in Nat
    BY <1>2, DivisionSplits
  <2>2. promised \in Nat
    BY <1>2, <2>1, OneClaimed
  <2> QED
    BY <1>2, <2>2, DivisionSplits
<1>9. SumFunction(OpenRewards)' = SumFunction(OpenRewards) + promised
  <2>1. SumFunction(OpenRewards)' + Escrowed(new)
          = SumFunction(OpenRewards) + Escrowed(new)'
    BY <1>3, OneTaskMoves
  <2>2. Escrowed(new) = 0 /\ Escrowed(new)' = promised
    BY <1>4, <1>5
  <2> HIDE DEF promised
  <2> QED
    BY <1>6, <1>7, <1>8, <2>1, <2>2
<1>10. SumFunction(RoundingDust)' = SumFunction(RoundingDust) + kept
  <2>1. ASSUME NEW t \in TaskIds \ {new} PROVE Dust(t)' = Dust(t)
    <3>1. t <= taskCount' <=> t <= taskCount
      <4>1. t \in Int /\ t # taskCount + 1
        BY <1>1, <2>1 DEF TaskIds
      <4> QED
        BY <1>1, <4>1
    <3> QED
      BY <1>3, <3>1 DEF Dust
  <2>2. /\ \A t \in TaskIds \ {new} : RoundingDust'[t] = RoundingDust[t]
        /\ RoundingDust[new] = 0 /\ RoundingDust'[new] = kept
    BY <1>4, <1>5, <2>1 DEF RoundingDust
  <2>3. SumFunction(RoundingDust') + RoundingDust[new]
          = SumFunction(RoundingDust) + RoundingDust'[new]
    BY <1>7, <2>2, SumsTyped, TaskIdsFinite, SumWithChange
  <2> HIDE DEF kept
  <2> QED
    BY <1>6, <1>7, <1>8, <2>2, <2>3
<1>11. SumFunction(pendingWithdrawals)' = SumFunction(pendingWithdrawals)
  BY <1>3
<1>12. ASSUME overridden = {}
       PROVE balance' = SumFunction(OpenRewards)' + SumFunction(pendingWithdrawals)'
                          + SumFunction(RoundingDust)' + received'
  <2>1. balance = SumFunction(OpenRewards) + SumFunction(pendingWithdrawals)
                    + SumFunction(RoundingDust) + received
    BY <1>12 DEF BalanceAccounted, OpenRewards, RoundingDust
  <2>2. balance' = balance + value /\ received' = received
    BY <1>3
  <2> HIDE DEF promised, kept
  <2> QED
    BY <1>6, <1>7, <1>8, <1>9, <1>10, <1>11, <2>1, <2>2
<1> QED
  BY <1>3, <1>12 DEF BalanceAccounted, OpenRewards, RoundingDust

(* submitWeights: one reward leaves the open rewards, for the account or for *)
(* its credit.                                                             *)
LEMMA SubmitWeightsAccounted ==
  ASSUME TypeOK, TaskLedger, TypeOK', TaskLedger', BalanceAccounted,
         NEW caller \in Accounts, NEW s \in TaskIds, NEW accepts \in BOOLEAN,
         SubmitWeights(caller, s, accepts)
  PROVE  BalanceAccounted'
<1> DEFINE p == tasks[s].perChunkReward
<1> DEFINE r == tasks[s].remainingChunks
<1>1. p \in Nat /\ r \in Nat /\ r > 0 /\ r - 1 \in Nat
  BY DEF SubmitWeights, TypeOK, Task
<1>2. /\ \A t \in TaskIds \ {s} : tasks'[t] = tasks[t]
      /\ tasks'[s].perChunkReward = p /\ tasks'[s].remainingChunks = r - 1
      /\ UNCHANGED <<taskCount, announced, received, overridden>>
  BY DEF SubmitWeights, Claimed, TypeOK, Task
<1>3. SumsInNat /\ SumsInNat'
  BY SumsTyped, PTL
<1>4. SumFunction(OpenRewards)' + p = SumFunction(OpenRewards)
  <2>1. SumFunction(OpenRewards)' + Escrowed(s)
          = SumFunction(OpenRewards) + Escrowed(s)'
    BY <1>2, OneTaskMoves
  <2>2. Escrowed(s) = p * r /\ Escrowed(s)' = p * (r - 1)
    BY <1>2 DEF Escrowed
  <2>3. p * ((r - 1) + 1) = p * (r - 1) + p /\ p * (r - 1) \in Nat
    BY <1>1, OneClaimed
  <2>4. (r - 1) + 1 = r
    BY <1>1
  <2>5. Escrowed(s) = Escrowed(s)' + p /\ Escrowed(s)' \in Nat
    BY <2>2, <2>3, <2>4
  <2> HIDE DEF p, r
  <2> QED
    BY <1>1, <1>3, <2>1, <2>5 DEF SumsInNat
<1>5. SumFunction(RoundingDust)' = SumFunction(RoundingDust)
  BY <1>2, SameDust
<1>6. ASSUME overridden = {}
      PROVE  balance' = SumFunction(OpenRewards)' + SumFunction(pendingWithdrawals)'
                          + SumFunction(RoundingDust)' + received'
  <2>1. balance = SumFunction(OpenRewards) + SumFunction(pendingWithdrawals)
                    + SumFunction(RoundingDust) + received
    BY <1>6 DEF BalanceAccounted, OpenRewards, RoundingDust
  <2>2. balance \in Nat /\ balance' \in Int /\ received \in Nat /\ received' = received
    BY <1>2 DEF TypeOK
  <2>3. CASE /\ balance' = balance - p
             /\ UNCHANGED pendingWithdrawals
    <3>1. SumFunction(pendingWithdrawals)' = SumFunction(pendingWithdrawals)
      BY <2>3
    <3> HIDE DEF p
    <3> QED
      BY <1>1, <1>3, <1>4, <1>5, <2>1, <2>2, <2>3, <3>1 DEF SumsInNat
  <2>4. CASE /\ pendingWithdrawals' = [pendingWithdrawals EXCEPT ![caller] = @ + p]
             /\ UNCHANGED balance
    <3>1. /\ pendingWithdrawals'[caller] = pendingWithdrawals[caller] + p
          /\ \A b \in Accounts \ {caller} : pendingWithdrawals'[b] = pendingWithdrawals[b]
          /\ pendingWithdrawals[caller] \in Nat
      BY <2>4 DEF TypeOK
    <3>2. SumFunction(pendingWithdrawals)' + pendingWithdrawals[caller]
            = SumFunction(pendingWithdrawals) + pendingWithdrawals'[caller]
      BY <3>1, OneCreditMoves
    <3>3. SumFunction(pendingWithdrawals)' = SumFunction(pendingWithdrawals) + p
      <4> HIDE DEF p
      <4> QED
        BY <1>1, <1>3, <3>1, <3>2 DEF SumsInNat
    <3> HIDE DEF p
    <3> QED
      BY <1>1, <1>3, <1>4, <1>5, <2>1, <2>2, <2>4, <3>3 DEF SumsInNat
  <2> QED
    BY <2>3, <2>4 DEF SubmitWeights, PayOrCredit
<1> QED
  BY <1>2, <1>6 DEF BalanceAccounted, OpenRewards, RoundingDust

(* withdrawPending: a credit is paid and gone. *)
LEMMA WithdrawAccounted ==
  ASSUME TypeOK, TaskLedger, TypeOK', TaskLedger', BalanceAccounted,
         NEW caller \in Accounts, WithdrawPending(caller)
  PROVE  BalanceAccounted'
<1>1. /\ pendingWithdrawals'[caller] = 0
      /\ \A b \in Accounts \ {caller} : pendingWithdrawals'[b] = pendingWithdrawals[b]
      /\ balance' = balance - pendingWithdrawals[caller]
      /\ pendingWithdrawals[caller] \in Nat /\ balance \in Nat /\ received \in Nat
      /\ UNCHANGED <<taskCount, tasks, announced, received, overridden>>
  BY DEF WithdrawPending, TypeOK
<1>2. SumsInNat /\ SumsInNat'
  BY SumsTyped, PTL
<1>3. SumFunction(pendingWithdrawals)' + pendingWithdrawals[caller]
        = SumFunction(pendingWithdrawals)
  <2>1. SumFunction(pendingWithdrawals)' + pendingWithdrawals[caller]
          = SumFunction(pendingWithdrawals) + pendingWithdrawals'[caller]
    BY <1>1, OneCreditMoves
  <2> QED
    BY <1>1, <1>2, <2>1 DEF SumsInNat
<1>4. /\ SumFunction(OpenRewards)' = SumFunction(OpenRewards)
      /\ SumFunction(RoundingDust)' = SumFunction(RoundingDust)
  BY <1>1, SameOpenRewards, SameDust
<1>5. ASSUME overridden = {}
      PROVE  balance' = SumFunction(OpenRewards)' + SumFunction(pendingWithdrawals)'
                          + SumFunction(RoundingDust)' + received'
  <2>1. balance = SumFunction(OpenRewards) + SumFunction(pendingWithdrawals)
                    + SumFunction(RoundingDust) + received
    BY <1>5 DEF BalanceAccounted, OpenRewards, RoundingDust
  <2>2. received' = received
    BY <1>1
  <2> QED
    BY <1>1, <1>2, <1>3, <1>4, <2>1, <2>2 DEF SumsInNat
<1> QED
  BY <1>1, <1>5 DEF BalanceAccounted, OpenRewards, RoundingDust

(* cancelTask: the open rewards of the task leave; its dust stays. *)
LEMMA CancelTaskAccounted ==
  ASSUME TypeOK, TaskLedger, TypeOK', TaskLedger', BalanceAccounted,
         NEW caller \in Accounts, NEW s \in TaskIds, CancelTask(caller, s)
  PROVE  BalanceAccounted'
<1>1. /\ \A t \in TaskIds \ {s} : tasks'[t] = tasks[t]
      /\ tasks'[s] = NoTask
      /\ balance' = balance - Escrowed(s)
      /\ balance \in Nat /\ received \in Nat
      /\ UNCHANGED <<taskCount, announced, pendingWithdrawals, received, overridden>>
  BY DEF CancelTask, Escrowed, TypeOK
<1>2. SumsInNat /\ SumsInNat'
  BY SumsTyped, PTL
<1>3. SumFunction(OpenRewards)' + Escrowed(s) = SumFunction(OpenRewards)
  <2>1. SumFunction(OpenRewards)' + Escrowed(s)
          = SumFunction(OpenRewards) + Escrowed(s)'
    BY <1>1, OneTaskMoves
  <2>2. Escrowed(s)' = 0
    BY <1>1 DEF Escrowed, NoTask
  <2>3. Escrowed(s) \in Nat
    BY OneClaimed DEF Escrowed, TypeOK, Task
  <2> QED
    BY <1>2, <2>1, <2>2, <2>3 DEF SumsInNat
<1>4. /\ SumFunction(RoundingDust)' = SumFunction(RoundingDust)
      /\ SumFunction(pendingWithdrawals)' = SumFunction(pendingWithdrawals)
  BY <1>1, SameDust
<1>5. Escrowed(s) \in Nat
  BY OneClaimed DEF Escrowed, TypeOK, Task
<1>6. ASSUME overridden = {}
      PROVE  balance' = SumFunction(OpenRewards)' + SumFunction(pendingWithdrawals)'
                          + SumFunction(RoundingDust)' + received'
  <2>1. balance = SumFunction(OpenRewards) + SumFunction(pendingWithdrawals)
                    + SumFunction(RoundingDust) + received
    BY <1>6 DEF BalanceAccounted, OpenRewards, RoundingDust
  <2>2. received' = received
    BY <1>1
  <2> QED
    BY <1>1, <1>2, <1>3, <1>4, <1>5, <2>1, <2>2 DEF SumsInNat
<1> QED
  BY <1>1, <1>6 DEF BalanceAccounted, OpenRewards, RoundingDust

(* receive: what arrives is counted as received. *)
LEMMA ReceiveAccounted ==
  ASSUME TypeOK, TaskLedger, TypeOK', TaskLedger', BalanceAccounted,
         NEW value \in Values, Receive(value)
  PROVE  BalanceAccounted'
<1>1. /\ balance' = balance + value /\ received' = received + value
      /\ balance \in Nat /\ received \in Nat /\ value \in Nat
      /\ UNCHANGED <<taskCount, tasks, announced, pendingWithdrawals, overridden>>
  BY EscrowAssumption DEF Receive, TypeOK
<1>2. /\ SumFunction(OpenRewards)' = SumFunction(OpenRewards)
      /\ SumFunction(RoundingDust)' = SumFunction(RoundingDust)
      /\ SumFunction(pendingWithdrawals)' = SumFunction(pendingWithdrawals)
  BY <1>1, SameOpenRewards, SameDust
<1>3. ASSUME overridden = {}
      PROVE  balance' = SumFunction(OpenRewards)' + SumFunction(pendingWithdrawals)'
                          + SumFunction(RoundingDust)' + received'
  <2>1. balance = SumFunction(OpenRewards) + SumFunction(pendingWithdrawals)
                    + SumFunction(RoundingDust) + received
    BY <1>3 DEF BalanceAccounted, OpenRewards, RoundingDust
  <2> QED
    BY <1>1, <1>2, <2>1, SumsTyped DEF SumsInNat
<1> QED
  BY <1>1, <1>3 DEF BalanceAccounted, OpenRewards, RoundingDust

LEMMA BalanceInductive ==
  TypeOK /\ TaskLedger /\ TypeOK' /\ TaskLedger' /\ BalanceAccounted /\ [Next]_vars
    => BalanceAccounted'
<1> SUFFICES ASSUME TypeOK, TaskLedger, TypeOK', TaskLedger', BalanceAccounted,
                    [Next]_vars
             PROVE  BalanceAccounted'
  OBVIOUS
<1>1. ASSUME UNCHANGED <<taskCount, tasks, announced, pendingWithdrawals, balance,
                         received, overridden>>
      PROVE  BalanceAccounted'
  <2>1. /\ SumFunction(OpenRewards)' = SumFunction(OpenRewards)
        /\ SumFunction(RoundingDust)' = SumFunction(RoundingDust)
    BY <1>1, SameOpenRewards, SameDust
  <2> QED
    BY <1>1, <2>1 DEF BalanceAccounted, OpenRewards, RoundingDust
<1>2. CASE \E caller, account \in Accounts :
             AddToWhitelist(caller, account) \/ RemoveFromWhitelist(caller, account)
  BY <1>1, <1>2 DEF AddToWhitelist, RemoveFromWhitelist, events
<1>3. CASE IncrementCount
  BY <1>1, <1>3 DEF IncrementCount, events
<1>4. CASE \E caller \in Accounts, value \in Values, n \in ChunkCounts :
             CreateTask(caller, value, n)
  BY <1>4, CreateTaskAccounted
<1>5. CASE \E caller \in Accounts, t \in TaskIds, accepts \in BOOLEAN :
             SubmitWeights(caller, t, accepts)
  BY <1>5, SubmitWeightsAccounted
<1>6. CASE \E caller \in Accounts : WithdrawPending(caller)
  BY <1>6, WithdrawAccounted
<1>7. CASE \E caller \in Accounts, t \in TaskIds : CancelTask(caller, t)
  BY <1>7, CancelTaskAccounted
<1>8. CASE \E value \in Values : Receive(value)
  BY <1>8, ReceiveAccounted
<1>9. CASE \E account \in Accounts, amount \in Values :
             SetPendingWithdrawal(account, amount)
  BY <1>9 DEF SetPendingWithdrawal, BalanceAccounted
<1>10. CASE UNCHANGED vars
  BY <1>1, <1>10 DEF vars, storage, events
<1> QED
  BY <1>2, <1>3, <1>4, <1>5, <1>6, <1>7, <1>8, <1>9, <1>10 DEF Next

(* Until setPendingWithdrawal is called the balance is exactly what the *)
(* contract owes, the rounding dust and what it was sent unasked, for   *)
(* every number of accounts and tasks.                                  *)
THEOREM EveryCoinAccounted == Spec => []BalanceAccounted
<1>1. Init => BalanceAccounted
  <2> SUFFICES ASSUME Init PROVE BalanceAccounted
    OBVIOUS
  <2>1. ASSUME NEW t \in TaskIds PROVE Escrowed(t) = 0 /\ Dust(t) = 0
    <3>1. ~(t <= 0)
      BY <2>1 DEF TaskIds
    <3> QED
      BY <2>1, <3>1 DEF Init, Escrowed, Dust, NoTask
  <2>2. /\ OpenRewards \in [TaskIds -> Nat] /\ RoundingDust \in [TaskIds -> Nat]
        /\ \A t \in TaskIds : OpenRewards[t] = 0 /\ RoundingDust[t] = 0
    BY <2>1 DEF OpenRewards, RoundingDust
  <2>3. /\ pendingWithdrawals \in [Accounts -> Nat]
        /\ \A a \in Accounts : pendingWithdrawals[a] = 0
    BY DEF Init
  <2>4. /\ SumFunction(OpenRewards) = 0 /\ SumFunction(RoundingDust) = 0
        /\ SumFunction(pendingWithdrawals) = 0
    BY <2>2, <2>3, TaskIdsFinite, EscrowAssumption, SumOfZeros
  <2>5. balance = 0 /\ received = 0
    BY DEF Init
  <2> QED
    BY <2>4, <2>5 DEF BalanceAccounted, OpenRewards, RoundingDust
<1> QED
  BY <1>1, BalanceInductive, TypeCorrect, LedgerHolds, PTL DEF Spec

LEMMA AccountedIsSolvent == TypeOK /\ TaskLedger /\ BalanceAccounted => Solvent
<1> SUFFICES ASSUME TypeOK, TaskLedger, BalanceAccounted, overridden = {}
             PROVE  SumFunction(OpenRewards) + SumFunction(pendingWithdrawals) <= balance
  BY DEF Solvent, OpenRewards
<1>1. balance = SumFunction(OpenRewards) + SumFunction(pendingWithdrawals)
                  + SumFunction(RoundingDust) + received
  BY DEF BalanceAccounted, OpenRewards, RoundingDust
<1>2. received \in Nat /\ balance \in Nat
  BY DEF TypeOK
<1> QED
  BY <1>1, <1>2, SumsTyped DEF SumsInNat

LEMMA SolventIsNeverShort == TypeOK /\ TaskLedger /\ Solvent => NeverShort
<1> SUFFICES ASSUME TypeOK, TaskLedger, Solvent, overridden = {},
                    NEW t \in TaskIds, NEW a \in Accounts
             PROVE  Escrowed(t) + pendingWithdrawals[a] <= balance
  BY DEF NeverShort
<1>1. SumFunction(OpenRewards) + SumFunction(pendingWithdrawals) <= balance
  BY DEF Solvent, OpenRewards
<1>2. /\ OpenRewards[t] <= SumFunction(OpenRewards)
      /\ pendingWithdrawals[a] <= SumFunction(pendingWithdrawals)
  BY SumsTyped, TaskIdsFinite, EscrowAssumption, SumBounds
<1>3. OpenRewards[t] = Escrowed(t) /\ Escrowed(t) \in Nat
  BY SumsTyped DEF OpenRewards
<1>4. pendingWithdrawals[a] \in Nat /\ balance \in Nat
  BY DEF TypeOK
<1> QED
  BY <1>1, <1>2, <1>3, <1>4, SumsTyped DEF SumsInNat

(* Until setPendingWithdrawal is called the contract can honour every open *)
(* chunk reward and every credit at once.                                  *)
THEOREM ContractSolvent == Spec => []Solvent
  BY AccountedIsSolvent, TypeCorrect, LedgerHolds, EveryCoinAccounted, PTL

(* Hence no transfer of one task's rewards and one account's credit can *)
(* fall short: cancelTask and withdrawPending never revert for money.   *)
THEOREM TransfersNeverFallShort == Spec => []NeverShort
  BY SolventIsNeverShort, TypeCorrect, LedgerHolds, ContractSolvent, PTL

(* Hence submitWeights credits a reward only when the account refuses the *)
(* transfer (fed-learn.sol:158), never because the contract is short.     *)
CreditOnlyWhenRefused ==
  [][\A caller \in Accounts, t \in TaskIds :
       overridden = {} /\ SubmitWeights(caller, t, TRUE)
         => paidOut'[caller] = paidOut[caller] + tasks[t].perChunkReward]_vars

THEOREM WillingAccountsArePaid == Spec => CreditOnlyWhenRefused
<1>1. TypeOK /\ NeverShort /\ [Next]_vars =>
        [\A caller \in Accounts, t \in TaskIds :
           overridden = {} /\ SubmitWeights(caller, t, TRUE)
             => paidOut'[caller] = paidOut[caller] + tasks[t].perChunkReward]_vars
  <2> SUFFICES ASSUME TypeOK, NeverShort, NEW caller \in Accounts, NEW t \in TaskIds,
                      overridden = {}, SubmitWeights(caller, t, TRUE)
               PROVE  paidOut'[caller] = paidOut[caller] + tasks[t].perChunkReward
    OBVIOUS
  <2> DEFINE p == tasks[t].perChunkReward
  <2> DEFINE r == tasks[t].remainingChunks
  <2>1. p \in Nat /\ r \in Nat /\ r > 0 /\ r - 1 \in Nat
    BY DEF SubmitWeights, TypeOK, Task
  <2>2. p <= Escrowed(t) /\ Escrowed(t) \in Nat
    <3>1. p * ((r - 1) + 1) = p * (r - 1) + p /\ p * (r - 1) \in Nat
      BY <2>1, OneClaimed
    <3>2. (r - 1) + 1 = r
      BY <2>1
    <3>3. Escrowed(t) = p * (r - 1) + p
      BY <3>1, <3>2 DEF Escrowed
    <3> QED
      BY <2>1, <3>1, <3>3
  <2>3. Escrowed(t) + pendingWithdrawals[caller] <= balance
    BY DEF NeverShort
  <2>4. pendingWithdrawals[caller] \in Nat /\ balance \in Nat
    BY DEF TypeOK
  <2>5. ~(p > balance)
    <3> HIDE DEF p
    <3> QED
      BY <2>1, <2>2, <2>3, <2>4
  <2>6. paidOut' = [paidOut EXCEPT ![caller] = @ + p]
    BY <2>5 DEF SubmitWeights, PayOrCredit
  <2> QED
    BY <2>6 DEF TypeOK
<1> QED
  BY <1>1, TypeCorrect, TransfersNeverFallShort, PTL DEF Spec, CreditOnlyWhenRefused

-----------------------------------------------------------------------------
(* The values the refinement mapping gives to the promise's variables. *)
phaseBar == [t \in TaskIds |-> Phase(t)]
owedBar == [t \in TaskIds |-> tasks[t].remainingChunks]

(* A call that leaves the tasks alone is a stutter of the promise. *)
LEMMA StutterOfPromise ==
  ASSUME UNCHANGED <<taskCount, tasks>>
  PROVE  phaseBar' = phaseBar /\ owedBar' = owedBar
  BY DEF phaseBar, owedBar, Phase

LEMMA CreateTaskOpens ==
  ASSUME TypeOK, TaskLedger,
         NEW caller \in Accounts, NEW value \in Values, NEW n \in ChunkCounts,
         CreateTask(caller, value, n)
  PROVE  Promise!Next
<1> USE EscrowAssumption
<1>1. PICK new \in TaskIds : new = taskCount + 1 /\ taskCount' = new /\ taskCount \in Nat
  BY DEF CreateTask, RewardPerChunk, TypeOK, TaskIds
<1>2. TaskIds \subseteq Nat
  BY DEF TaskIds
<1>3. phaseBar[new] = "none"
  BY <1>1 DEF phaseBar, Phase
<1>4. ASSUME NEW s \in TaskIds, s < new PROVE phaseBar[s] # "none"
  <2>1. ~(s > taskCount)
    BY <1>1, <1>2, <1>4
  <2> QED
    BY <2>1 DEF phaseBar, Phase
<1>5. n > 0 /\ n \in Nat
  BY DEF CreateTask
<1>6. tasks' = [tasks EXCEPT ![new] =
                  [depositor |-> caller, numChunks |-> n, remainingChunks |-> n,
                   perChunkReward |-> value \div n, exists |-> TRUE]]
      /\ tasks \in [TaskIds -> Task]
  BY <1>1 DEF CreateTask, RewardPerChunk, TypeOK
<1>7. phaseBar' = [phaseBar EXCEPT ![new] = "untouched"]
  <2>1. Phase(new)' = "untouched"
    BY <1>1, <1>6 DEF Phase
  <2>2. ASSUME NEW t \in TaskIds, t # new PROVE Phase(t)' = Phase(t)
    <3>1. t > taskCount <=> t > taskCount'
      BY <1>1, <1>2, <2>2
    <3>2. tasks'[t] = tasks[t]
      BY <1>6, <2>2
    <3> QED
      BY <3>1, <3>2 DEF Phase
  <2> QED
    BY <2>1, <2>2 DEF phaseBar
<1>8. owedBar' = [owedBar EXCEPT ![new] = n]
  BY <1>6 DEF owedBar
<1>9. Promise!Open(new, n)
  BY <1>3, <1>4, <1>5, <1>7, <1>8 DEF Promise!Open, phaseBar, owedBar
<1> QED
  BY <1>9 DEF Promise!Next

LEMMA SubmitWeightsClaims ==
  ASSUME TypeOK, TaskLedger,
         NEW caller \in Accounts, NEW s \in TaskIds, NEW accepts \in BOOLEAN,
         SubmitWeights(caller, s, accepts)
  PROVE  Promise!Next
<1> DEFINE r == tasks[s].remainingChunks
<1>1. /\ tasks[s] \in Task /\ r \in Nat /\ r > 0 /\ tasks[s].exists
      /\ tasks[s].numChunks \in Nat
  BY DEF SubmitWeights, Claimed, TypeOK, Task
<1>2. /\ ~(s > taskCount) /\ tasks[s].depositor # ZeroAddress
      /\ r <= tasks[s].numChunks
  <2>1. ~(s > taskCount) /\ InProgress(s)
    BY DEF SubmitWeights, Claimed, TaskLedger, Unused, NoTask, Settled, Cancelled
  <2> QED
    BY <1>1, <2>1 DEF InProgress, TypeOK
<1>3. /\ tasks' = [tasks EXCEPT ![s] = [tasks[s] EXCEPT !.remainingChunks = r - 1,
                                                      !.exists = r - 1 # 0]]
      /\ taskCount' = taskCount /\ tasks \in [TaskIds -> Task]
  BY DEF SubmitWeights, Claimed, TypeOK
<1>4. phaseBar[s] \in {"untouched", "started"} /\ owedBar[s] = r
  BY <1>1, <1>2 DEF phaseBar, owedBar, Phase
<1>5. owedBar' = [owedBar EXCEPT ![s] = r - 1]
  BY <1>1, <1>3 DEF owedBar, Task
<1>6. Phase(s)' = IF r = 1 THEN "settled" ELSE "started"
  <2>1. CASE r = 1
    <3>1. r - 1 = 0
      BY <2>1
    <3>2. tasks'[s] = [tasks[s] EXCEPT !.remainingChunks = 0, !.exists = FALSE]
      BY <1>3, <3>1
    <3>3. ~tasks'[s].exists /\ tasks'[s].depositor # ZeroAddress
      BY <1>1, <1>2, <3>2 DEF Task
    <3> QED
      BY <1>2, <1>3, <2>1, <3>3 DEF Phase
  <2>2. CASE r # 1
    <3>1. /\ tasks'[s].exists /\ tasks'[s].remainingChunks = r - 1
          /\ tasks'[s].numChunks = tasks[s].numChunks
      BY <1>1, <1>3, <2>2 DEF Task
    <3>2. r - 1 # tasks[s].numChunks
      BY <1>1, <1>2
    <3> QED
      BY <1>2, <1>3, <2>2, <3>1, <3>2 DEF Phase
  <2> QED
    BY <2>1, <2>2
<1>7. phaseBar' = [phaseBar EXCEPT ![s] = IF r = 1 THEN "settled" ELSE "started"]
  <2>1. ASSUME NEW t \in TaskIds, t # s PROVE Phase(t)' = Phase(t)
    BY <1>3, <2>1 DEF Phase
  <2> QED
    BY <1>6, <2>1 DEF phaseBar
<1>8. Promise!Claim(s)
  BY <1>1, <1>4, <1>5, <1>7 DEF Promise!Claim, phaseBar, owedBar
<1> QED
  BY <1>8 DEF Promise!Next

LEMMA CancelTaskCancels ==
  ASSUME TypeOK, TaskLedger,
         NEW caller \in Accounts, NEW s \in TaskIds, CancelTask(caller, s)
  PROVE  Promise!Next
<1>1. ~(s > taskCount)
  BY DEF CancelTask, Cancellable, TaskLedger, Unused, NoTask
<1>2. phaseBar[s] = "untouched"
  BY <1>1 DEF CancelTask, Cancellable, phaseBar, Phase
<1>3. /\ tasks' = [tasks EXCEPT ![s] = NoTask]
      /\ taskCount' = taskCount /\ tasks \in [TaskIds -> Task]
  BY DEF CancelTask, Cancellable, TypeOK
<1>4. owedBar' = [owedBar EXCEPT ![s] = 0]
  BY <1>3 DEF owedBar, NoTask
<1>5. phaseBar' = [phaseBar EXCEPT ![s] = "cancelled"]
  <2>1. Phase(s)' = "cancelled"
    BY <1>1, <1>3 DEF Phase, NoTask
  <2>2. ASSUME NEW t \in TaskIds, t # s PROVE Phase(t)' = Phase(t)
    BY <1>3, <2>2 DEF Phase
  <2> QED
    BY <2>1, <2>2 DEF phaseBar
<1>6. Promise!Cancel(s)
  BY <1>2, <1>4, <1>5 DEF Promise!Cancel, phaseBar, owedBar
<1> QED
  BY <1>6 DEF Promise!Next

(* The contract implements the promise for every constant: each call opens *)
(* the next task, claims one reward, cancels an untouched task, or changes *)
(* no task at all.                                                         *)
THEOREM ContractImplementsPromise == Spec => ImplementsPromise
<1>1. Init => Promise!Init
  <2> SUFFICES ASSUME Init PROVE Promise!Init
    OBVIOUS
  <2>1. ASSUME NEW t \in TaskIds PROVE Phase(t) = "none" /\ tasks[t].remainingChunks = 0
    BY EscrowAssumption DEF Init, Phase, NoTask, TaskIds
  <2> QED
    BY <2>1 DEF Promise!Init
<1>2. TypeOK /\ TaskLedger /\ [Next]_vars => [Promise!Next]_Promise!vars
  <2> SUFFICES ASSUME TypeOK, TaskLedger, [Next]_vars
               PROVE  [Promise!Next]_Promise!vars
    OBVIOUS
  <2>1. ASSUME UNCHANGED <<taskCount, tasks>> PROVE UNCHANGED Promise!vars
    BY <2>1, StutterOfPromise DEF Promise!vars, phaseBar, owedBar
  <2>2. CASE \E caller \in Accounts, value \in Values, n \in ChunkCounts :
               CreateTask(caller, value, n)
    BY <2>2, CreateTaskOpens
  <2>3. CASE \E caller \in Accounts, t \in TaskIds, accepts \in BOOLEAN :
               SubmitWeights(caller, t, accepts)
    BY <2>3, SubmitWeightsClaims
  <2>4. CASE \E caller \in Accounts, t \in TaskIds : CancelTask(caller, t)
    BY <2>4, CancelTaskCancels
  <2>5. CASE \E caller, account \in Accounts :
               AddToWhitelist(caller, account) \/ RemoveFromWhitelist(caller, account)
    BY <2>1, <2>5 DEF AddToWhitelist, RemoveFromWhitelist
  <2>6. CASE IncrementCount
    BY <2>1, <2>6 DEF IncrementCount
  <2>7. CASE \E caller \in Accounts : WithdrawPending(caller)
    BY <2>1, <2>7 DEF WithdrawPending
  <2>8. CASE \E value \in Values : Receive(value)
    BY <2>1, <2>8 DEF Receive
  <2>9. CASE \E account \in Accounts, amount \in Values :
               SetPendingWithdrawal(account, amount)
    BY <2>1, <2>9 DEF SetPendingWithdrawal
  <2>10. CASE UNCHANGED vars
    BY <2>1, <2>10 DEF vars, storage
  <2> QED
    BY <2>2, <2>3, <2>4, <2>5, <2>6, <2>7, <2>8, <2>9, <2>10 DEF Next
<1> QED
  BY <1>1, <1>2, TypeCorrect, LedgerHolds, PTL DEF Spec, ImplementsPromise, Promise!Spec
=============================================================================
