------------------------- MODULE LedgerClientProofs -------------------------
(* The retry loop applies a transaction at most once and tries every node, *)
(* for any number of nodes, attempts and calls.                            *)
EXTENDS LedgerClient, TLAPS

-----------------------------------------------------------------------------
(* The state is well formed.                                               *)
LEMMA SelectNodeType ==
  ASSUME NEW x \in NodeIndices PROVE (x + 1) % N \in NodeIndices
  BY LedgerAssumption DEF NodeIndices

LEMMA IdType == ASSUME NEW c \in Calls PROVE IdOf(c) \in TransactionIds
  BY LedgerAssumption DEF IdOf, TransactionIds

(* While a call is being executed it has a number.                         *)
InCall == stage # "idle" => call \in Calls

TypeInv == TypeOK /\ InCall

LEMMA TypeInit == Init => TypeInv
<1> SUFFICES ASSUME Init PROVE TypeInv
  OBVIOUS
<1>1. nodeIndex \in NodeIndices /\ call \in 0..NumCalls /\ attempt \in 0..MaxAttempts
  BY LedgerAssumption DEF Init
<1>2. tried \subseteq NodeIndices /\ pool \subseteq TransactionIds
  BY DEF Init
<1>3. sameNode \in BOOLEAN
  BY DEF Init
<1>4. stage = "idle"
  BY DEF Init
<1>5. /\ reported \in [Calls -> {"nothing", "success", "error", "gave up"}]
      /\ result \in [TransactionIds -> {"none", "success", "failure"}]
  BY DEF Init
<1> QED
  BY <1>1, <1>2, <1>3, <1>4, <1>5 DEF TypeInv, TypeOK, InCall

LEMMA StartType ==
  ASSUME NEW st, StartExecution(st)
  PROVE  /\ stage' = st
         /\ attempt' \in 0..MaxAttempts
         /\ tried' \subseteq NodeIndices
         /\ sameNode' \in BOOLEAN
<1>1. attempt' \in 0..MaxAttempts
  BY LedgerAssumption DEF StartExecution
<1> QED
  BY <1>1 DEF StartExecution

LEMMA TypeNext == TypeInv /\ [Next]_vars => TypeInv'
<1> SUFFICES ASSUME TypeInv, [Next]_vars PROVE TypeInv'
  OBVIOUS
<1> USE LedgerAssumption DEF TypeInv, InCall
<1>1. ASSUME NEW id \in TransactionIds, Handle(id) PROVE TypeInv'
  BY <1>1 DEF Handle, TypeOK, execution
<1>2. CASE Begin
  <2>1. call' \in 0..NumCalls /\ call' \in Calls
    <3>1. call \in 0..NumCalls /\ call < NumCalls /\ call' = call + 1
      BY <1>2 DEF Begin, TypeOK
    <3> QED
      BY <3>1 DEF Calls
  <2> QED
    BY <1>2, <2>1, StartType DEF Begin, TypeOK, ledger
<1>3. ASSUME Request PROVE /\ attempt' \in 0..MaxAttempts
                           /\ tried' \subseteq NodeIndices
                           /\ call' = call /\ call \in Calls
  <2>1. attempt \in 0..MaxAttempts /\ nodeIndex \in NodeIndices /\ tried \subseteq NodeIndices
    BY DEF TypeOK
  <2>2. attempt' \in 0..MaxAttempts
    BY <1>3, <2>1 DEF Request
  <2> QED
    BY <1>3, <2>1, <2>2 DEF Request
<1>4. ASSUME Take PROVE /\ pool' \subseteq TransactionIds
                        /\ result' = result /\ call \in Calls
  BY <1>4, IdType DEF Take, TypeOK
<1>5. CASE NoAnswer
  <2>1. nodeIndex' \in NodeIndices
    BY <1>5, SelectNodeType DEF NoAnswer, SelectNode, TypeOK
  <2>2. pool' \subseteq TransactionIds /\ result' = result
    BY <1>5, <1>4 DEF NoAnswer, ledger, TypeOK
  <2> QED
    BY <1>5, <1>3, <2>1, <2>2 DEF NoAnswer, TypeOK
<1>6. CASE TryAgain
  BY <1>6, <1>3 DEF TryAgain, TypeOK, ledger
<1>7. CASE Refused
  BY <1>7, <1>3 DEF Refused, Report, TypeOK, ledger
<1>8. CASE Accepted
  <2>1. Take /\ StartExecution("receipt") /\ UNCHANGED <<nodeIndex, call, reported>>
    BY <1>8 DEF Accepted
  <2> QED
    BY <2>1, <1>4, StartType DEF TypeOK
<1>9. CASE ReceiptArrives
  BY <1>9, <1>3 DEF ReceiptArrives, Report, TypeOK, ledger
<1>10. CASE GiveUp
  BY <1>10 DEF GiveUp, Report, TypeOK, ledger, execution
<1>11. CASE UNCHANGED vars
  BY <1>11 DEF vars, execution, ledger, TypeOK
<1> QED
  BY <1>1, <1>2, <1>5, <1>6, <1>7, <1>8, <1>9, <1>10, <1>11 DEF Next

LEMMA TypeCorrectInv == Spec => []TypeInv
  BY TypeInit, TypeNext, PTL DEF Spec

(* The client's counters stay within their bounds and the ledger knows the *)
(* ids the client made up.                                                 *)
THEOREM TypeCorrect == Spec => []TypeOK
<1>1. TypeInv => TypeOK
  BY DEF TypeInv
<1> QED
  BY <1>1, TypeCorrectInv, PTL

-----------------------------------------------------------------------------
(* One id per call.  The ledger handles only what a node took, and every   *)
(* node takes the one id that was frozen.                                  *)
TakenAsFrozen ==
  /\ \A id \in pool : id[2] = 0
  /\ \A id \in TransactionIds : result[id] # "none" => id \in pool

LEMMA TakenInit == Init => TakenAsFrozen
  BY DEF Init, TakenAsFrozen

LEMMA TakenNext == TypeInv /\ TakenAsFrozen /\ [Next]_vars => TakenAsFrozen'
<1> SUFFICES ASSUME TypeInv, TakenAsFrozen, [Next]_vars PROVE TakenAsFrozen'
  OBVIOUS
<1>1. ASSUME UNCHANGED ledger PROVE TakenAsFrozen'
  BY <1>1 DEF ledger, TakenAsFrozen
<1>2. ASSUME Take PROVE TakenAsFrozen'
  BY <1>2 DEF Take, IdOf, TakenAsFrozen
<1>3. ASSUME NEW id \in TransactionIds, Handle(id) PROVE TakenAsFrozen'
  BY <1>3 DEF Handle, TakenAsFrozen, TypeInv, TypeOK
<1> QED
  BY <1>1, <1>2, <1>3
  DEF Next, Begin, NoAnswer, TryAgain, Refused, Accepted, ReceiptArrives, GiveUp, vars

(* A transaction whose answers were lost is applied once, although several *)
(* nodes took it: AppliedOnce.                                             *)
THEOREM NoTransactionTwice == Spec => []AppliedOnce
<1>1. TypeInv /\ TakenAsFrozen => AppliedOnce
  BY DEF TakenAsFrozen, AppliedOnce, TransactionIds
<1>2. Spec => []TakenAsFrozen
  BY TakenInit, TakenNext, TypeCorrectInv, PTL DEF Spec
<1> QED
  BY <1>1, <1>2, TypeCorrectInv, PTL

-----------------------------------------------------------------------------
(* The rotation.  An execution no node answered has met the nodes one by   *)
(* one from node s on, or all of them.                                     *)
MetFrom(s) ==
  IF s <= nodeIndex
    THEN tried = s..(nodeIndex - 1) /\ attempt = nodeIndex - s
    ELSE /\ tried = (s..(N - 1)) \cup (0..(nodeIndex - 1))
         /\ attempt = (N - s) + nodeIndex

Rotated ==
  (stage # "idle" \/ (call # 0 /\ reported[call] = "gave up")) /\ ~sameNode =>
    /\ stage = "idle" => attempt = MaxAttempts
    /\ tried = NodeIndices \/ \E s \in NodeIndices : MetFrom(s)

(* One more node: past the last one the rotation starts again at 0, and it *)
(* is complete when it comes back to s.                                    *)
LEMMA MeetsNext ==
  ASSUME TypeOK, NEW s \in NodeIndices, MetFrom(s),
         nodeIndex' = SelectNode, attempt' = attempt + 1, tried' = tried \cup {nodeIndex}
  PROVE  tried' = NodeIndices \/ MetFrom(s)'
<1> USE LedgerAssumption DEF NodeIndices
<1>1. nodeIndex \in 0..(N - 1) /\ s \in 0..(N - 1)
  BY DEF TypeOK
<1>2. CASE nodeIndex + 1 < N
  <2>1. nodeIndex' = nodeIndex + 1
    BY <1>1, <1>2 DEF SelectNode
  <2>2. CASE nodeIndex + 1 = s
    BY <1>1, <2>2 DEF MetFrom
  <2>3. CASE nodeIndex + 1 # s
    BY <1>1, <2>1, <2>3 DEF MetFrom
  <2> QED
    BY <2>2, <2>3
<1>3. CASE nodeIndex + 1 = N
  <2>1. nodeIndex' = 0
    BY <1>1, <1>3 DEF SelectNode
  <2>2. tried' = s..(N - 1) /\ attempt' = N - s
    BY <1>1, <1>3 DEF MetFrom
  <2> QED
    BY <1>1, <2>1, <2>2 DEF MetFrom
<1> QED
  BY <1>1, <1>2, <1>3

(* Before the rotation is complete there were fewer attempts than nodes.   *)
LEMMA MetsAreFew ==
  ASSUME NEW s \in NodeIndices, nodeIndex \in 0..(N - 1), MetFrom(s)
  PROVE  ~(N <= attempt)
  BY LedgerAssumption DEF MetFrom, NodeIndices

LEMMA RotatedNext == TypeInv /\ Rotated /\ [Next]_vars => Rotated'
<1> SUFFICES ASSUME TypeInv, Rotated, [Next]_vars PROVE Rotated'
  OBVIOUS
<1> USE LedgerAssumption
<1>1. ASSUME NEW st, StartExecution(st), nodeIndex' = nodeIndex, st # "idle" PROVE Rotated'
  <2>1. nodeIndex \in NodeIndices /\ nodeIndex \in 0..(N - 1)
    BY DEF TypeInv, TypeOK, NodeIndices
  <2>2. stage' = st /\ attempt' = 0 /\ tried' = {}
    BY <1>1 DEF StartExecution
  <2>3. MetFrom(nodeIndex)'
    BY <1>1, <2>1, <2>2 DEF MetFrom
  <2>4. \E s \in NodeIndices : MetFrom(s)'
    BY <2>1, <2>3, <1>1
  <2> QED
    BY <1>1, <2>2, <2>4 DEF Rotated, NodeIndices
<1>2. CASE Begin
  BY <1>2, <1>1 DEF Begin
<1>3. CASE Accepted
  BY <1>3, <1>1 DEF Accepted
<1>4. CASE NoAnswer
  <2> SUFFICES ASSUME ~sameNode PROVE Rotated'
    BY <1>4 DEF NoAnswer, Rotated
  <2>1. stage # "idle" /\ stage' = stage /\ attempt \in Nat
    <3>1. attempt \in 0..MaxAttempts
      BY DEF TypeInv, TypeOK
    <3> QED
      BY <1>4, <3>1 DEF NoAnswer, Request
  <2>2. /\ nodeIndex' = SelectNode /\ attempt' = attempt + 1
        /\ tried' = tried \cup {nodeIndex} /\ nodeIndex \in NodeIndices
    BY <1>4 DEF NoAnswer, Request, TypeInv, TypeOK
  <2>3. tried' = NodeIndices \/ \E s \in NodeIndices : MetFrom(s)'
    <3>1. CASE tried = NodeIndices
      BY <2>2, <3>1
    <3>2. ASSUME NEW s \in NodeIndices, MetFrom(s)
          PROVE  tried' = NodeIndices \/ MetFrom(s)'
      BY <2>2, <3>2, MeetsNext DEF TypeInv
    <3> QED
      BY <2>1, <3>1, <3>2 DEF Rotated
  <2> QED
    BY <2>1, <2>3 DEF Rotated, NodeIndices
<1>5. CASE TryAgain
  BY <1>5 DEF TryAgain, Rotated
<1>6. CASE Refused
  BY <1>6 DEF Refused, Request, Report, Rotated, TypeInv, TypeOK, InCall
<1>7. CASE ReceiptArrives
  BY <1>7 DEF ReceiptArrives, Request, Report, Rotated, TypeInv, TypeOK, InCall
<1>8. CASE GiveUp
  <2>1. /\ stage # "idle" /\ attempt = MaxAttempts
        /\ nodeIndex' = nodeIndex /\ attempt' = attempt /\ tried' = tried
        /\ sameNode' = sameNode
    BY <1>8 DEF GiveUp, execution
  <2>2. ASSUME NEW s \in NodeIndices, MetFrom(s) PROVE MetFrom(s)'
    BY <2>1, <2>2 DEF MetFrom
  <2> QED
    BY <2>1, <2>2 DEF Rotated, NodeIndices
<1>9. ASSUME NEW id \in TransactionIds, Handle(id) PROVE Rotated'
  BY <1>9 DEF Handle, Rotated, execution, MetFrom
<1>10. CASE UNCHANGED vars
  BY <1>10 DEF vars, execution, Rotated, MetFrom
<1> QED
  BY <1>2, <1>3, <1>4, <1>5, <1>6, <1>7, <1>8, <1>9, <1>10 DEF Next

(* When no node answers, all are tried before the call gives up:           *)
(* GivesUpAfterAllNodes.                                                   *)
THEOREM AllNodesTried == Spec => []GivesUpAfterAllNodes
<1>1. Init => Rotated
  BY DEF Init, Rotated
<1>2. TypeInv /\ Rotated => GivesUpAfterAllNodes
  <2> SUFFICES ASSUME TypeOK, Rotated, N <= MaxAttempts, stage = "idle", call # 0,
                      reported[call] = "gave up", ~sameNode
               PROVE  tried = NodeIndices
    BY DEF TypeInv, GivesUpAfterAllNodes
  <2>1. attempt = MaxAttempts /\ nodeIndex \in 0..(N - 1)
    BY DEF Rotated, TypeOK, NodeIndices
  <2>2. ASSUME NEW s \in NodeIndices, MetFrom(s) PROVE FALSE
    <3>1. ~(N <= attempt)
      BY <2>1, <2>2, MetsAreFew
    <3> QED
      BY <3>1, <2>1
  <2> QED
    BY <2>2 DEF Rotated
<1> QED
  BY <1>1, <1>2, RotatedNext, TypeCorrectInv, PTL DEF Spec
=============================================================================
