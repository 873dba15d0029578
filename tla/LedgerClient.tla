---------------------------- MODULE LedgerClient ----------------------------
(***************************************************************************)
(* How a node puts a log or the weights of a chunk on the ledger           *)
(* (src/p2p/hiero_sdk_python: Transaction.execute, _Executable._execute,   *)
(* Network._select_node, TransactionGetReceiptQuery; called by             *)
(* submit_hcs_message and publish_on_chain of src/p2p/coordinator.py).     *)
(*                                                                         *)
(* A call submits its frozen transaction and then asks for its receipt.    *)
(* Each of the two is one execution of the retry loop: at most MaxAttempts *)
(* requests, the next node after a request without an answer, the same     *)
(* node after an answer that asks to try again.  The client's calls follow *)
(* one another; its current node outlives them.                            *)
(*                                                                         *)
(* The ledger (external) is what the client relies on: a transaction is    *)
(* handled at most once per transaction id, however many nodes took it.    *)
(***************************************************************************)
EXTENDS Integers, FiniteSets

CONSTANTS N,              \* nodes of the network
          MaxAttempts,    \* client.max_attempts (10 in the code)
          NumCalls,       \* bound: calls of the client
          Claims          \* calls of publish_on_chain; the others are logs

ASSUME LedgerAssumption ==
  /\ N \in Nat \ {0}
  /\ MaxAttempts \in Nat \ {0}
  /\ NumCalls \in Nat
  /\ Claims \subseteq 1..NumCalls

VARIABLES
  nodeIndex,    \* network._node_index
  call,         \* number of the last call begun
  stage,        \* what the call is executing, or "idle"
  attempt,      \* requests of the execution so far
  tried,        \* nodes the execution sent a request to
  sameNode,     \* whether the execution was asked to try a node again
  reported,     \* what each call told the program
  pool,         \* ledger: transaction ids a node has taken
  result        \* ledger: what became of each transaction id

execution == <<attempt, tried, sameNode>>
ledger    == <<pool, result>>
vars      == <<nodeIndex, call, stage, execution, reported, ledger>>

NodeIndices == 0..(N - 1)
Calls == 1..NumCalls
TransactionIds == Calls \X (0..MaxAttempts)

(* freeze_with gives the transaction its id before the first attempt: the  *)
(* bodies it builds for the nodes, one for each, share it.                 *)
IdPerAttempt(c) == <<c, attempt>>
IdOf(c) == <<c, 0>>

Init ==
  /\ nodeIndex \in NodeIndices
  /\ call = 0 /\ stage = "idle"
  /\ attempt = 0 /\ tried = {} /\ sameNode = FALSE
  /\ reported = [c \in Calls |-> "nothing"]
  /\ pool = {}
  /\ result = [id \in TransactionIds |-> "none"]

-----------------------------------------------------------------------------
(* The ledger handles what its nodes took, in any order.                   *)
Handle(id) ==
  /\ id \in pool /\ result[id] = "none"
  /\ \E r \in {"success", "failure"} : result' = [result EXCEPT ![id] = r]
  /\ UNCHANGED <<nodeIndex, call, stage, execution, reported, pool>>

-----------------------------------------------------------------------------
(* The retry loop.                                                         *)
StartExecution(s) ==
  /\ stage' = s
  /\ attempt' = 0 /\ tried' = {} /\ sameNode' = FALSE

Begin ==
  /\ stage = "idle" /\ call < NumCalls
  /\ call' = call + 1
  /\ StartExecution("submit")
  /\ UNCHANGED <<nodeIndex, reported, ledger>>

Request ==
  /\ stage # "idle" /\ attempt < MaxAttempts
  /\ attempt' = attempt + 1
  /\ tried' = tried \cup {nodeIndex}
  /\ UNCHANGED call

Take == stage = "submit" /\ pool' = pool \cup {IdOf(call)} /\ UNCHANGED result

SelectNodeOnce == nodeIndex
SelectNodeUnwrapped == nodeIndex + 1
SelectNode == (nodeIndex + 1) % N

(* grpc.RpcError: the request or, after the node took it, its answer lost. *)
NoAnswer ==
  /\ Request
  /\ nodeIndex' = SelectNode
  /\ Take \/ UNCHANGED ledger
  /\ UNCHANGED <<stage, sameNode, reported>>

(* BUSY and the like; for a receipt also "not found" and "unknown".        *)
TryAgain ==
  /\ Request
  /\ sameNode' = TRUE
  /\ UNCHANGED <<nodeIndex, stage, reported, ledger>>

Report(what) ==
  /\ reported' = [reported EXCEPT ![call] = what]
  /\ stage' = "idle"

(* Any other answer raises: among them DUPLICATE_TRANSACTION, of a         *)
(* transaction another node took without an answer.                        *)
Refused ==
  /\ Request
  /\ Report("error")
  /\ UNCHANGED <<nodeIndex, sameNode, ledger>>

Accepted ==
  /\ stage = "submit" /\ attempt < MaxAttempts
  /\ Take
  /\ StartExecution("receipt")
  /\ UNCHANGED <<nodeIndex, call, reported>>

HasReceipt(id) == result[id] # "none"

(* publish_on_chain looks at the status of the receipt; submit_hcs_message *)
(* drops the receipt and prints a success, and execute raises for none.    *)
ReceiptArrives ==
  /\ stage = "receipt"
  /\ Request
  /\ HasReceipt(IdOf(call))
  /\ Report(IF call \in Claims /\ result[IdOf(call)] = "failure"
              THEN "error" ELSE "success")
  /\ UNCHANGED <<nodeIndex, sameNode, ledger>>

GiveUp ==
  /\ stage # "idle" /\ attempt = MaxAttempts
  /\ Report("gave up")
  /\ UNCHANGED <<nodeIndex, call, execution, ledger>>

Next ==
  \/ Begin \/ NoAnswer \/ TryAgain \/ Refused \/ Accepted \/ ReceiptArrives \/ GiveUp
  \/ \E id \in TransactionIds : Handle(id)

Spec == Init /\ [][Next]_vars

-----------------------------------------------------------------------------
TypeOK ==
  /\ nodeIndex \in NodeIndices
  /\ call \in 0..NumCalls
  /\ stage \in {"idle", "submit", "receipt"}
  /\ attempt \in 0..MaxAttempts
  /\ tried \subseteq NodeIndices
  /\ sameNode \in BOOLEAN
  /\ reported \in [Calls -> {"nothing", "success", "error", "gave up"}]
  /\ pool \subseteq TransactionIds
  /\ result \in [TransactionIds -> {"none", "success", "failure"}]

(* However many nodes took a transaction whose answers were lost, the      *)
(* ledger handles the log or the claim it carries once (transaction.py:    *)
(* 234-265 freezes one id for all nodes and attempts).                     *)
AppliedOnce ==
  \A i, j \in TransactionIds :
    result[i] # "none" /\ result[j] # "none" /\ i[1] = j[1] => i = j

(* What the program reports as a success is one on the ledger: the message *)
(* "Success! Message submitted to topic" (coordinator.py:231-235) stands   *)
(* for a log that reached the topic, not for one the network refused.      *)
SuccessMeansDone ==
  \A c \in Calls : reported[c] = "success" =>
    \E id \in TransactionIds : id[1] = c /\ result[id] = "success"

(* A call gives up on a network of which no node answers only after it has *)
(* tried every node, from whichever node the call before left off.         *)
GivesUpAfterAllNodes ==
  N <= MaxAttempts /\ stage = "idle" /\ call # 0 =>
    (reported[call] = "gave up" /\ ~sameNode => tried = NodeIndices)
=============================================================================
