------------------------------- MODULE Escrow -------------------------------
(***************************************************************************)
(* The reward contract FederatedTrainingReward                             *)
(* (src/contracts/contracts/fed-learn.sol).  A depositor locks a reward    *)
(* for a task that is cut in numChunks chunks, whitelisted trainers claim  *)
(* one chunk reward per submission of weights, and a transfer that the     *)
(* trainer's account refuses becomes a credit it can withdraw later.       *)
(*                                                                         *)
(* A transaction is atomic: a failed require or a checked overflow leaves  *)
(* the state as it was, so it is a guard here.  The Akave urls and the     *)
(* encrypted hashes are never read back by the contract and are left out.  *)
(* The accounts are wallets, which run no code when they are paid.         *)
(***************************************************************************)
EXTENDS Integers, FiniteSets, Functions

CONSTANTS Accounts,     \* the addresses that send transactions
          Owner,        \* the address that deployed the contract
          ZeroAddress,  \* the depositor field of an empty storage slot
          MaxUint,      \* largest uint256; checked arithmetic reverts above it
          MaxTasks,     \* bound: tasks created
          MaxReceived,  \* bound: plain transfers to the contract, in total
          MaxCount,     \* bound: calls of incrementCount
          Values,       \* amounts a transaction carries or names
          ChunkCounts   \* values of numChunks a dashboard passes

ASSUME EscrowAssumption ==
  /\ IsFiniteSet(Accounts)
  /\ Owner \in Accounts
  /\ ZeroAddress \notin Accounts
  /\ MaxUint \in Nat /\ MaxTasks \in Nat /\ MaxReceived \in Nat /\ MaxCount \in Nat
  /\ Values \subseteq 0..MaxUint
  /\ ChunkCounts \subseteq 0..MaxUint

VARIABLES taskCount, count, whitelist, tasks, pendingWithdrawals, balance,
          (* What the emitted events and the chain's transfer records add up to. *)
          announced,    \* TaskCreated: depositor, chunks and deposit of each task
          submissions,  \* number of WeightsSubmitted events of each task
          rewarded,     \* sum of their rewardAmount
          sentAway,     \* what cancelTask transferred for each task, to whomever
          refundedTo,   \* the addresses it transferred to
          earned,       \* sum of rewardAmount over the events of each trainer
          paidOut,      \* rewards and withdrawals transferred to each account
          received,     \* plain transfers to the contract
          overridden    \* accounts setPendingWithdrawal was called for

storage == <<taskCount, count, whitelist, tasks, pendingWithdrawals, balance>>
events  == <<announced, submissions, rewarded, sentAway, refundedTo, earned, paidOut,
             received>>
vars    == <<storage, events, overridden>>

TaskIds == 1..MaxTasks

Task == [depositor: Accounts \cup {ZeroAddress}, numChunks: Nat,
         remainingChunks: Nat, perChunkReward: Nat, exists: BOOLEAN]

NoTask == [depositor |-> ZeroAddress, numChunks |-> 0,
           remainingChunks |-> 0, perChunkReward |-> 0, exists |-> FALSE]

Init ==
  /\ taskCount = 0 /\ count = 0 /\ balance = 0 /\ received = 0
  /\ whitelist = {} /\ overridden = {}
  /\ tasks = [t \in TaskIds |-> NoTask]
  /\ pendingWithdrawals = [a \in Accounts |-> 0]
  /\ announced = [t \in TaskIds |->
                    [depositor |-> ZeroAddress, chunks |-> 0, deposit |-> 0]]
  /\ submissions = [t \in TaskIds |-> 0]
  /\ rewarded = [t \in TaskIds |-> 0]
  /\ sentAway = [t \in TaskIds |-> 0]
  /\ refundedTo = [t \in TaskIds |-> {}]
  /\ earned = [a \in Accounts |-> 0]
  /\ paidOut = [a \in Accounts |-> 0]

-----------------------------------------------------------------------------
AddToWhitelist(caller, account) ==
  /\ caller = Owner
  /\ whitelist' = whitelist \cup {account}
  /\ UNCHANGED <<taskCount, count, tasks, pendingWithdrawals, balance, events,
                 overridden>>

RemoveFromWhitelist(caller, account) ==
  /\ caller = Owner
  /\ whitelist' = whitelist \ {account}
  /\ UNCHANGED <<taskCount, count, tasks, pendingWithdrawals, balance, events,
                 overridden>>

IncrementCount ==
  /\ count < MaxCount
  /\ count' = count + 1
  /\ UNCHANGED <<taskCount, whitelist, tasks, pendingWithdrawals, balance, events,
                 overridden>>

(* The division rounds down: value % numChunks stays in the contract. *)
RewardRoundedUp(value, numChunks) == (value + numChunks - 1) \div numChunks
RewardPerChunk(value, numChunks) == value \div numChunks

CreateTask(caller, value, numChunks) ==
  /\ numChunks > 0
  /\ value > 0
  /\ taskCount < MaxTasks
  /\ taskCount' = taskCount + 1
  /\ tasks' = [tasks EXCEPT ![taskCount + 1] =
                 [depositor |-> caller, numChunks |-> numChunks,
                  remainingChunks |-> numChunks,
                  perChunkReward |-> RewardPerChunk(value, numChunks), exists |-> TRUE]]
  /\ balance' = balance + value
  /\ announced' = [announced EXCEPT ![taskCount + 1] =
                     [depositor |-> caller, chunks |-> numChunks, deposit |-> value]]
  /\ UNCHANGED <<count, whitelist, pendingWithdrawals, submissions, rewarded,
                 sentAway, refundedTo, earned, paidOut, received, overridden>>

(* Checked arithmetic: a sum that does not fit reverts the transaction. *)
FitsUnchecked(x) == TRUE
Fits(x) == x <= MaxUint

(* A transfer fails when the account refuses it or the contract is short. *)
PayAndDropCredit(to, amount, accepts) ==
  /\ IF accepts /\ amount <= balance
       THEN balance' = balance - amount /\ paidOut' = [paidOut EXCEPT ![to] = @ + amount]
       ELSE UNCHANGED <<balance, paidOut>>
  /\ UNCHANGED pendingWithdrawals

PayOrCredit(to, amount, accepts) ==
  \/ /\ accepts /\ amount <= balance
     /\ balance' = balance - amount
     /\ paidOut' = [paidOut EXCEPT ![to] = @ + amount]
     /\ UNCHANGED pendingWithdrawals
  \/ /\ ~accepts \/ amount > balance
     /\ Fits(pendingWithdrawals[to] + amount)
     /\ pendingWithdrawals' = [pendingWithdrawals EXCEPT ![to] = @ + amount]
     /\ UNCHANGED <<balance, paidOut>>

(* The slot after one more chunk of it is rewarded. *)
ClaimedNeverClosed(t) == [t EXCEPT !.remainingChunks = @ - 1]
Claimed(t) == [t EXCEPT !.remainingChunks = @ - 1, !.exists = t.remainingChunks - 1 # 0]

SubmitWeights(caller, taskId, accepts) ==
  LET t == tasks[taskId] IN
  /\ t.exists
  /\ t.remainingChunks > 0
  /\ caller \in whitelist
  /\ PayOrCredit(caller, t.perChunkReward, accepts)
  /\ tasks' = [tasks EXCEPT ![taskId] = Claimed(t)]
  /\ submissions' = [submissions EXCEPT ![taskId] = @ + 1]
  /\ rewarded' = [rewarded EXCEPT ![taskId] = @ + t.perChunkReward]
  /\ earned' = [earned EXCEPT ![caller] = @ + t.perChunkReward]
  /\ UNCHANGED <<taskCount, count, whitelist, announced, sentAway, refundedTo, received,
                 overridden>>

(* A withdrawal whose transfer fails reverts and keeps the credit. *)
WithdrawPending(caller) ==
  LET amount == pendingWithdrawals[caller] IN
  /\ amount > 0
  /\ amount <= balance
  /\ pendingWithdrawals' = [pendingWithdrawals EXCEPT ![caller] = 0]
  /\ balance' = balance - amount
  /\ paidOut' = [paidOut EXCEPT ![caller] = @ + amount]
  /\ UNCHANGED <<taskCount, count, whitelist, tasks, announced, submissions,
                 rewarded, sentAway, refundedTo, earned, received, overridden>>

CancellableAnyTime(t, caller) == t.exists /\ caller = t.depositor
Cancellable(t, caller) ==
  /\ t.exists
  /\ caller = t.depositor
  /\ t.remainingChunks = t.numChunks

(* t is a storage pointer: the delete of its slot comes before the         *)
(* transfer, which reads the depositor from the slot.  The network may as  *)
(* well refuse the transfer, which reverts the call: no step.              *)
CancelTask(caller, taskId) ==
  LET t == tasks[taskId]
      refund == t.perChunkReward * t.remainingChunks IN
  /\ Cancellable(t, caller)
  /\ refund <= balance
  /\ tasks' = [tasks EXCEPT ![taskId] = NoTask]
  /\ balance' = balance - refund
  /\ sentAway' = [sentAway EXCEPT ![taskId] = @ + refund]
  /\ refundedTo' = [refundedTo EXCEPT ![taskId] = @ \cup {tasks'[taskId].depositor}]
  /\ UNCHANGED <<taskCount, count, whitelist, pendingWithdrawals, announced,
                 submissions, rewarded, earned, paidOut, received, overridden>>

(* receive() and fallback(): money nobody asked for. *)
Receive(value) ==
  /\ received + value <= MaxReceived
  /\ balance' = balance + value
  /\ received' = received + value
  /\ UNCHANGED <<taskCount, count, whitelist, tasks, pendingWithdrawals,
                 announced, submissions, rewarded, sentAway, refundedTo, earned,
                 paidOut, overridden>>

(* Public, and an assignment: it replaces whatever was credited. *)
SetPendingWithdrawal(account, amount) ==
  /\ pendingWithdrawals' = [pendingWithdrawals EXCEPT ![account] = amount]
  /\ overridden' = overridden \cup {account}
  /\ UNCHANGED <<taskCount, count, whitelist, tasks, balance, events>>

-----------------------------------------------------------------------------
Next ==
  \/ \E caller, account \in Accounts :
        AddToWhitelist(caller, account) \/ RemoveFromWhitelist(caller, account)
  \/ IncrementCount
  \/ \E caller \in Accounts, value \in Values, n \in ChunkCounts :
        CreateTask(caller, value, n)
  \/ \E caller \in Accounts, t \in TaskIds, accepts \in BOOLEAN :
        SubmitWeights(caller, t, accepts)
  \/ \E caller \in Accounts : WithdrawPending(caller)
  \/ \E caller \in Accounts, t \in TaskIds : CancelTask(caller, t)
  \/ \E value \in Values : Receive(value)
  \/ \E account \in Accounts, amount \in Values : SetPendingWithdrawal(account, amount)

Spec == Init /\ [][Next]_vars

-----------------------------------------------------------------------------
(* The contract's storage and the event totals keep their types: no      *)
(* subtraction in submitWeights, withdrawPending or cancelTask goes      *)
(* below zero.                                                           *)
TypeOK ==
  /\ taskCount \in 0..MaxTasks
  /\ count \in 0..MaxCount
  /\ whitelist \subseteq Accounts
  /\ tasks \in [TaskIds -> Task]
  /\ pendingWithdrawals \in [Accounts -> 0..MaxUint]
  /\ balance \in Nat
  /\ announced \in [TaskIds -> [depositor: Accounts \cup {ZeroAddress},
                              chunks: Nat, deposit: Nat]]
  /\ submissions \in [TaskIds -> Nat]
  /\ rewarded \in [TaskIds -> Nat]
  /\ sentAway \in [TaskIds -> Nat]
  /\ refundedTo \in [TaskIds -> SUBSET (Accounts \cup {ZeroAddress})]
  /\ earned \in [Accounts -> Nat]
  /\ paidOut \in [Accounts -> Nat]
  /\ received \in 0..MaxReceived
  /\ overridden \subseteq Accounts

Escrowed(t) == tasks[t].perChunkReward * tasks[t].remainingChunks

(* What the rounding of perChunkReward keeps back from a created task. *)
Dust(t) == IF t <= taskCount THEN announced[t].deposit % announced[t].chunks ELSE 0

(* No task is ever paid from another task's money: what was rewarded for   *)
(* it, what its cancellation took out of the contract, what is still       *)
(* promised and the rounding dust add up to its deposit at all times       *)
(* (createTask, submitWeights, cancelTask).  Who got the money of a        *)
(* cancellation is another matter: see RefundReachesDepositor.             *)
TaskBalanced ==
  \A t \in TaskIds :
    rewarded[t] + sentAway[t] + Escrowed(t) + Dust(t) = announced[t].deposit

(* A task is either rewarded or cancelled, never both, and it is open      *)
(* exactly while it still owes chunk rewards: exists, remainingChunks and  *)
(* the submissions made agree (cancelTask's guard, submitWeights' reset).  *)
OpenWhileOwing ==
  \A t \in TaskIds :
    /\ tasks[t].exists <=> tasks[t].remainingChunks > 0
    /\ tasks[t].exists =>
         /\ t <= taskCount
         /\ tasks[t].numChunks = announced[t].chunks
         /\ submissions[t] + tasks[t].remainingChunks = announced[t].chunks
    /\ ~tasks[t].exists /\ t <= taskCount =>
         submissions[t] \in {0, announced[t].chunks}
    /\ refundedTo[t] # {} => submissions[t] = 0 /\ ~tasks[t].exists

(* fed-learn.sol:193: "Cancel a task and refund remaining funds to         *)
(* depositor": whatever cancelTask transfers goes to the account that      *)
(* created the task.                                                       *)
RefundReachesDepositor ==
  \A t \in TaskIds : refundedTo[t] \subseteq {announced[t].depositor}

(* Until somebody calls setPendingWithdrawal (nothing in the repository    *)
(* does) the contract's balance is exactly the open chunk rewards of all   *)
(* tasks, the credits of all accounts, the rounding dust and what arrived  *)
(* by plain transfers, however transfers fail and calls interleave: one    *)
(* pot of money pays all of them, and no call takes from it twice          *)
(* (createTask, submitWeights, withdrawPending, cancelTask, receive).      *)
BalanceAccounted ==
  overridden = {} =>
    balance = SumFunction([t \in TaskIds |-> Escrowed(t)])
                + SumFunction(pendingWithdrawals)
                + SumFunction([t \in TaskIds |-> Dust(t)]) + received

(* Hence it can honour everything it owes, all at once; and as long as     *)
(* that is so, no transfer falls short: a reward is only credited because  *)
(* the account refused it, no withdrawal or cancellation reverts for lack  *)
(* of money.                                                               *)
Solvent ==
  overridden = {} =>
    SumFunction([t \in TaskIds |-> Escrowed(t)]) + SumFunction(pendingWithdrawals)
      <= balance

NeverShort ==
  overridden = {} =>
    \A t \in TaskIds, a \in Accounts : Escrowed(t) + pendingWithdrawals[a] <= balance

(* A trainer's rewards are paid out or still credited to it, nothing is    *)
(* lost or paid twice (fed-learn.sol:135-137: "paid out immediately if the *)
(* transfer succeeds, otherwise credited to pendingWithdrawals"), unless   *)
(* setPendingWithdrawal replaced that trainer's own credit.                *)
RewardsPaidOrCredited ==
  \A a \in Accounts \ overridden : earned[a] = paidOut[a] + pendingWithdrawals[a]

-----------------------------------------------------------------------------
(* The promise this contract implements: see TaskPromise.                  *)
Phase(t) ==
  IF t > taskCount THEN "none"
  ELSE IF tasks[t].exists
    THEN IF tasks[t].remainingChunks = tasks[t].numChunks THEN "untouched" ELSE "started"
  ELSE IF tasks[t].depositor = ZeroAddress THEN "cancelled" ELSE "settled"

Promise == INSTANCE TaskPromise WITH
  phase <- [t \in TaskIds |-> Phase(t)],
  owed  <- [t \in TaskIds |-> tasks[t].remainingChunks]

(* The contract implements the abstract life of a task whatever calls are  *)
(* made, setPendingWithdrawal included: every call is an opening, a claim, *)
(* a cancellation or no change of any task.  Nothing is said of money.     *)
ImplementsPromise == Promise!Spec
=============================================================================
