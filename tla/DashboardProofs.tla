-------------------------- MODULE DashboardProofs --------------------------
(***************************************************************************)
(* The dashboards' histories, for every number of users, payments, chunks, *)
(* failures, wrong answers and transactions that are late or reverted: no  *)
(* payment is forgotten but for the two reasons there are, a project that  *)
(* is completed stays completed and has the weights of every chunk that is *)
(* still on the mirror node's page, and it takes a second user, a failure  *)
(* or a late transaction to take another task for one's own.               *)
(***************************************************************************)
EXTENDS Dashboard, FiniteSetTheorems, TLAPS

(* The events of a task in a log, and how many there are now.              *)
EventsIn(l, t) == {i \in 1..Len(l) : l[i] = t}
Weights(t) == Cardinality(EventsIn(log, t))

LEMMA EventsFinite ==
  ASSUME NEW S, NEW l \in Seq(S), NEW t
  PROVE  IsFiniteSet(EventsIn(l, t)) /\ Cardinality(EventsIn(l, t)) \in Nat
<1>1. Len(l) \in Nat
  OBVIOUS
<1>2. IsFiniteSet(1..Len(l))
  BY <1>1, FS_Interval
<1>3. EventsIn(l, t) \subseteq 1..Len(l)
  BY DEF EventsIn
<1>4. IsFiniteSet(EventsIn(l, t))
  BY <1>2, <1>3, FS_Subset
<1> QED
  BY <1>4, FS_CardinalityType

LEMMA EventAppended ==
  ASSUME NEW S, NEW l \in Seq(S), NEW e \in S, NEW t
  PROVE  /\ Append(l, e) \in Seq(S) /\ Len(Append(l, e)) = Len(l) + 1
         /\ Cardinality(EventsIn(Append(l, e), t)) =
              Cardinality(EventsIn(l, t)) + (IF e = t THEN 1 ELSE 0)
<1> DEFINE n == Len(l)
           m == Append(l, e)
<1>1. /\ n \in Nat /\ m \in Seq(S) /\ Len(m) = n + 1 /\ m[n + 1] = e
      /\ \A i \in 1..n : m[i] = l[i]
  OBVIOUS
<1>2. CASE e = t
  <2>1. EventsIn(m, t) = EventsIn(l, t) \cup {n + 1}
    <3> HIDE DEF m
    <3> QED
      BY <1>1, <1>2 DEF EventsIn
  <2>2. n + 1 \notin EventsIn(l, t)
    BY <1>1 DEF EventsIn
  <2> QED
    <3> DEFINE A == EventsIn(l, t)
    <3>1. IsFiniteSet(A) /\ Cardinality(A) \in Nat /\ n + 1 \notin A
      BY <2>2, EventsFinite
    <3>2. Cardinality(A \cup {n + 1}) = Cardinality(A) + 1
      <4> HIDE DEF A, n
      <4> QED
        BY <3>1, FS_AddElement
    <3> QED
      BY <1>1, <1>2, <2>1, <3>1, <3>2
<1>3. CASE e # t
  <2>1. EventsIn(m, t) = EventsIn(l, t)
    <3> HIDE DEF m
    <3> QED
      BY <1>1, <1>3 DEF EventsIn
  <2> QED
    BY <1>1, <1>3, <2>1, EventsFinite
<1> QED
  BY <1>2, <1>3

-----------------------------------------------------------------------------
(* The contract: tasks are opened in the order of their ids, so that the   *)
(* number of tasks is the id of the newest, and what a task owes and the   *)
(* weights submitted for it make its chunks.                               *)
TaskOf(stage, owes, events) ==
  /\ owes \in Nat /\ events \in 0..NumChunks
  /\ \/ stage = "none" /\ owes = 0 /\ events = 0
     \/ stage \in {"untouched", "started"} /\ owes > 0 /\ owes + events = NumChunks
     \/ stage = "settled" /\ owes = 0 /\ events = NumChunks

InOrder == TaskCount \in Nat /\ Opened = 1..TaskCount

Emitted ==
  /\ phase \in [Tasks -> {"none", "untouched", "started", "settled"}]
  /\ owed \in [Tasks -> Nat]
  /\ log \in Seq(Tasks \cup {OtherEvent})
  /\ \A t \in Tasks : TaskOf(phase[t], owed[t], Weights(t))

Grows ==
  /\ TaskCount \in Nat /\ TaskCount' \in Nat /\ TaskCount <= TaskCount'
  /\ Opened \subseteq Opened'
  /\ Len(log) \in Nat /\ Len(log') \in Nat /\ Len(log) <= Len(log')
  /\ \A t : Weights(t) \in Nat /\ Weights(t)' \in Nat /\ Weights(t) <= Weights(t)'
  /\ \A t \in Tasks : phase[t] = "settled" => phase'[t] = "settled"

LEMMA CountOpened == IsFiniteSet(Opened) /\ TaskCount = Cardinality(Opened) /\ TaskCount \in Nat
<1>1. Opened \in SUBSET Tasks
  BY DEF Opened
<1>2. IsFiniteSet(Tasks)
  BY DashboardAssumption, FS_Interval DEF Tasks
<1>3. IsFiniteSet(Opened)
  BY <1>1, <1>2, FS_Subset
<1> QED
  BY <1>3, FS_CardinalityType DEF TaskCount

(* An executed payment opens the task after the last. *)
LEMMA OpenCounts ==
  ASSUME InOrder, Emitted, NEW t \in Tasks, Contract!Open(t, NumChunks)
  PROVE  /\ t = TaskCount + 1 /\ TaskCount' = TaskCount + 1 /\ InOrder'
         /\ t \notin Opened /\ Opened' = Opened \cup {t}
<1> DEFINE c == TaskCount
<1>1. MaxPayments \in Nat /\ Tasks = 1..MaxPayments
  BY DashboardAssumption DEF Tasks
<1>2. c \in Nat /\ Opened = 1..c
  BY DEF InOrder
<1>3. /\ t \notin Opened /\ \A s \in Tasks : s < t => s \in Opened
      /\ Opened' = Opened \cup {t}
  BY DEF Contract!Open, Opened, Emitted
<1> HIDE DEF c
<1>4. t = c + 1
  <2>1. t > c /\ t \in 1..MaxPayments
    BY <1>1, <1>2, <1>3
  <2>2. ~(c + 1 < t)
    <3>1. SUFFICES ASSUME c + 1 < t PROVE FALSE
      OBVIOUS
    <3>2. c + 1 \in Tasks
      BY <1>1, <1>2, <2>1, <3>1
    <3>3. c + 1 \in Opened
      BY <1>3, <3>1, <3>2
    <3> QED
      BY <1>2, <3>3
  <2> QED
    BY <1>1, <1>2, <2>1, <2>2
<1>5. Opened' = 1..(c + 1)
  BY <1>2, <1>3, <1>4
<1>6. TaskCount' = c + 1
  <2>1. Cardinality(Opened \cup {t}) = Cardinality(Opened) + 1
    BY <1>3, CountOpened, FS_AddElement
  <2>2. TaskCount' = Cardinality(Opened')
    BY DEF TaskCount, Opened
  <2> QED
    BY <1>3, <2>1, <2>2, CountOpened DEF c
<1>7. InOrder'
  BY <1>2, <1>5, <1>6 DEF InOrder
<1> QED
  BY <1>3, <1>4, <1>6, <1>7 DEF c

LEMMA ExecuteEmits ==
  ASSUME InOrder, Emitted, NEW k, Execute(k)
  PROVE  InOrder' /\ Emitted' /\ Grows
<1>1. PICK t \in Tasks : Contract!Open(t, NumChunks)
  BY DEF Execute
<1>2. /\ TaskCount' = TaskCount + 1 /\ InOrder' /\ TaskCount \in Nat
      /\ Opened \subseteq Opened'
  BY <1>1, OpenCounts DEF InOrder
<1> DEFINE S == Tasks \cup {OtherEvent}
<1>3. log \in Seq(S) /\ OtherEvent \in S /\ log' = Append(log, OtherEvent)
  BY DEF Execute, Emitted
<1>4. \A s : s # OtherEvent => Weights(s)' = Weights(s)
  <2> SUFFICES ASSUME NEW s, s # OtherEvent PROVE Weights(s)' = Weights(s)
    OBVIOUS
  <2> HIDE DEF S
  <2>1. Cardinality(EventsIn(Append(log, OtherEvent), s)) = Cardinality(EventsIn(log, s)) + 0
    BY <1>3, EventAppended
  <2> QED
    BY <1>3, <2>1, EventsFinite DEF Weights
<1>5. \A s : Weights(s) \in Nat /\ Weights(s)' \in Nat /\ Weights(s) <= Weights(s)'
  <2> SUFFICES ASSUME NEW s
               PROVE  Weights(s) \in Nat /\ Weights(s)' \in Nat /\ Weights(s) <= Weights(s)'
    OBVIOUS
  <2> HIDE DEF S
  <2>1. Cardinality(EventsIn(Append(log, OtherEvent), s)) =
          Cardinality(EventsIn(log, s)) + (IF OtherEvent = s THEN 1 ELSE 0)
    BY <1>3, EventAppended
  <2> QED
    BY <1>3, <2>1, EventsFinite DEF Weights
<1>6. log' \in Seq(S) /\ Len(log) \in Nat /\ Len(log') = Len(log) + 1
  BY <1>3
<1>7. \A s \in Tasks : s # OtherEvent
  BY DashboardAssumption DEF Tasks, OtherEvent
<1>8. /\ phase[t] = "none" /\ phase'[t] = "untouched" /\ owed'[t] = NumChunks
      /\ \A s \in Tasks : s # t => phase'[s] = phase[s] /\ owed'[s] = owed[s]
      /\ phase' \in [Tasks -> {"none", "untouched", "started", "settled"}]
      /\ owed' \in [Tasks -> Nat]
  BY <1>1, DashboardAssumption DEF Contract!Open, Emitted
<1>9. TaskOf(phase'[t], owed'[t], Weights(t)')
  <2>1. Weights(t)' = Weights(t)
    BY <1>4, <1>7
  <2>2. Weights(t) = 0
    BY <1>8 DEF Emitted, TaskOf
  <2> QED
    BY <1>8, <2>1, <2>2, DashboardAssumption DEF TaskOf
<1>10. Emitted'
  <2>1. \A s \in Tasks : TaskOf(phase'[s], owed'[s], Weights(s)')
    BY <1>4, <1>7, <1>8, <1>9 DEF Emitted
  <2> QED
    BY <1>6, <1>8, <2>1 DEF Emitted
<1> QED
  BY <1>2, <1>5, <1>6, <1>8, <1>10 DEF Grows, InOrder

LEMMA SubmitEmits ==
  ASSUME InOrder, Emitted, NEW t \in Tasks, SubmitWeights(t)
  PROVE  InOrder' /\ Emitted' /\ Grows /\ Opened' = Opened
<1> DEFINE S == Tasks \cup {OtherEvent}
           one == Append(log, t)
<1>1. /\ phase[t] \in {"untouched", "started"}
      /\ owed' = [owed EXCEPT ![t] = owed[t] - 1]
      /\ phase' = [phase EXCEPT ![t] = IF owed[t] = 1 THEN "settled" ELSE "started"]
      /\ log' = one \/ log' = Append(one, OtherEvent)
  BY DEF SubmitWeights, Contract!Claim
<1>2. log \in Seq(S) /\ OtherEvent \in S /\ t \in S /\ t # OtherEvent
  BY DashboardAssumption DEF Emitted, Tasks, OtherEvent
<1> HIDE DEF S
<1>3. /\ one \in Seq(S) /\ Len(one) = Len(log) + 1 /\ Len(log) \in Nat
  BY <1>2
<1>4. /\ log' \in Seq(S) /\ Len(log') \in Nat /\ Len(log) <= Len(log')
  <2> HIDE DEF one
  <2>1. Append(one, OtherEvent) \in Seq(S) /\ Len(Append(one, OtherEvent)) = Len(one) + 1
    BY <1>2, <1>3
  <2> QED
    BY <1>1, <1>3, <2>1
<1>5. \A s : Weights(s) \in Nat /\ Weights(s)' \in Nat
  BY <1>2, <1>4, EventsFinite DEF Weights
<1>6. \A s : Cardinality(EventsIn(one, s)) = Weights(s) + (IF t = s THEN 1 ELSE 0)
  BY <1>2, EventAppended DEF Weights
<1> HIDE DEF one
<1>7. \A s : \/ Weights(s)' = Weights(s) + (IF t = s THEN 1 ELSE 0)
             \/ /\ s = OtherEvent
                /\ Weights(s)' = Weights(s) + (IF t = s THEN 1 ELSE 0) + 1
  <2> SUFFICES ASSUME NEW s
               PROVE  \/ Weights(s)' = Weights(s) + (IF t = s THEN 1 ELSE 0)
                      \/ /\ s = OtherEvent
                         /\ Weights(s)' = Weights(s) + (IF t = s THEN 1 ELSE 0) + 1
    OBVIOUS
  <2>1. CASE log' = one
    BY <1>6, <2>1 DEF Weights
  <2>2. CASE log' = Append(one, OtherEvent)
    <3>1. Weights(s)' = Cardinality(EventsIn(one, s)) + (IF OtherEvent = s THEN 1 ELSE 0)
      BY <1>2, <1>3, <2>2, EventAppended DEF Weights
    <3>2. Cardinality(EventsIn(one, s)) \in Nat
      BY <1>3, EventsFinite
    <3> QED
      BY <1>6, <3>1, <3>2
  <2> QED
    BY <1>1, <2>1, <2>2
<1>8. \A s : Weights(s) <= Weights(s)'
  BY <1>5, <1>7
<1>9. /\ owed[t] \in Nat /\ owed[t] > 0 /\ Weights(t) \in Nat
      /\ owed[t] + Weights(t) = NumChunks
  BY <1>1 DEF Emitted, TaskOf
<1>10. /\ owed'[t] = owed[t] - 1 /\ Weights(t)' = Weights(t) + 1
       /\ phase'[t] = IF owed[t] = 1 THEN "settled" ELSE "started"
  BY <1>1, <1>2, <1>7 DEF Emitted
<1>11. TaskOf(phase'[t], owed'[t], Weights(t)')
  BY <1>9, <1>10, DashboardAssumption DEF TaskOf
<1>12. \A s \in Tasks : s # t => phase'[s] = phase[s] /\ owed'[s] = owed[s]
  BY <1>1 DEF Emitted
<1>13. \A s \in Tasks : s # t => Weights(s)' = Weights(s)
  <2>1. \A s \in Tasks : s # OtherEvent
    BY DashboardAssumption DEF Tasks, OtherEvent
  <2> QED
    BY <1>5, <1>7, <2>1
<1>14. owed'[t] \in Nat
  BY <1>9, <1>10
<1>15. Emitted'
  <2>1. \A s \in Tasks : TaskOf(phase'[s], owed'[s], Weights(s)')
    BY <1>11, <1>12, <1>13 DEF Emitted
  <2> QED
    BY <1>1, <1>4, <1>14, <2>1 DEF Emitted, S
<1>16. Opened' = Opened
  BY <1>1, <1>10, <1>12 DEF Opened
<1>17. TaskCount' = TaskCount /\ InOrder'
  BY <1>16 DEF TaskCount, InOrder
<1> QED
  BY <1>1, <1>4, <1>5, <1>8, <1>12, <1>15, <1>16, <1>17 DEF Grows, InOrder

(* The steps that leave the contract alone. *)
LEMMA SameContract ==
  ASSUME InOrder, Emitted, UNCHANGED <<phase, owed, log>>
  PROVE  InOrder' /\ Emitted' /\ Grows /\ Opened' = Opened
<1>1. Opened' = Opened /\ TaskCount' = TaskCount
  BY DEF Opened, TaskCount
<1>2. Len(log) \in Nat
  BY DEF Emitted
<1>3. \A s : Weights(s) \in Nat /\ Weights(s)' = Weights(s)
  BY EventsFinite DEF Emitted, Weights
<1>4. InOrder'
  BY <1>1 DEF InOrder
<1>5. Emitted'
  BY <1>3 DEF Emitted
<1> QED
  BY <1>1, <1>2, <1>3, <1>4, <1>5 DEF Grows, InOrder

LEMMA NextEmits ==
  ASSUME InOrder, Emitted, [Next]_vars
  PROVE  InOrder' /\ Emitted' /\ Grows
<1>1. ASSUME NEW u \in Users, Workflow(u) \/ Poll(u) PROVE UNCHANGED contract
  BY <1>1 DEF Workflow, Poll, Pay, ReadTaskId, InitializeRound, AddHistory, SendTrain,
              MarkRunning, Restart, DeleteProject, CheckStatus, FetchEvents, Complete
<1>2. ASSUME NEW k, Revert(k) PROVE UNCHANGED contract
  BY <1>2 DEF Revert
<1>3. ASSUME UNCHANGED contract PROVE InOrder' /\ Emitted' /\ Grows
  BY <1>3, SameContract DEF contract
<1>4. ASSUME UNCHANGED vars PROVE UNCHANGED contract
  BY <1>4 DEF vars
<1> QED
  BY <1>1, <1>2, <1>3, <1>4, ExecuteEmits, SubmitEmits DEF Next

-----------------------------------------------------------------------------
(* Payments: who paid, what was opened, and which one a workflow is at.    *)
PayTypes ==
  /\ sent \in 0..MaxPayments /\ payer \in [Payments -> Users \cup {NoUser}]
  /\ pending \subseteq 1..sent /\ openedBy \in [Tasks -> Payments \cup {NoPayment}]
  /\ step \in [Users -> Steps] /\ current \in [Users -> 0..sent]
  /\ failed \subseteq 1..sent /\ untimely \subseteq 1..sent

Paid ==
  /\ \A k \in 1..sent : payer[k] \in Users
  /\ \A t \in Opened : openedBy[t] \in 1..sent /\ openedBy[t] \notin pending
  /\ \A s, t \in Opened : openedBy[s] = openedBy[t] => s = t

Current(u) ==
  /\ current[u] # NoPayment => payer[current[u]] = u
  /\ step[u] # "payment" => current[u] # NoPayment

(* What never changes of a payment. *)
Kept ==
  /\ sent \in Nat /\ sent' \in Nat /\ sent <= sent'
  /\ \A k \in 1..sent : payer'[k] = payer[k]
  /\ failed \subseteq failed' /\ untimely \subseteq untimely'
  /\ \A t \in Opened : openedBy'[t] = openedBy[t]

Opening == InOrder /\ Emitted
PayInv == PayTypes /\ Paid /\ \A u \in Users : Current(u)

LEMMA SamePayments ==
  ASSUME PayInv, Opening, UNCHANGED <<payments, openedBy, phase, current>>,
         PayTypes', \A u \in Users : step'[u] # "payment" => current[u] # NoPayment,
         failed \subseteq failed', untimely \subseteq untimely'
  PROVE  PayInv' /\ Kept
<1>1. Opened' = Opened
  BY DEF Opened
<1>2. sent \in Nat
  BY DashboardAssumption DEF PayInv, PayTypes
<1>3. Paid'
  BY <1>1 DEF PayInv, Paid, payments
<1>4. \A u \in Users : Current(u)'
  BY DEF PayInv, Current, payments
<1> QED
  BY <1>2, <1>3, <1>4 DEF PayInv, Kept, payments

LEMMA PayPays ==
  ASSUME PayInv, Opening, NEW u \in Users, Pay(u)
  PROVE  PayInv' /\ Kept
<1> DEFINE k == sent + 1
<1>1. /\ step[u] = "payment" /\ sent < MaxPayments /\ sent' = k
      /\ payer' = [payer EXCEPT ![k] = u] /\ pending' = pending \cup {k}
      /\ current' = [current EXCEPT ![u] = k]
      /\ UNCHANGED <<openedBy, phase, untimely>>
      /\ step' \in {step, [step EXCEPT ![u] = "paid"]}
      /\ failed' \in {failed, failed \cup {k}}
  BY DEF Pay, Goes, contract
<1>2. /\ sent \in Nat /\ k \in Payments /\ k \notin 1..sent /\ 1..k = (1..sent) \cup {k}
      /\ 0..sent \subseteq 0..k /\ k \in 0..k /\ k # NoPayment /\ k \in 0..MaxPayments
      /\ 1..sent \subseteq Payments /\ k \in Nat /\ sent <= k
  BY <1>1, DashboardAssumption DEF PayInv, PayTypes, Payments, NoPayment
<1>3. \A j \in 1..sent : payer'[j] = payer[j]
  BY <1>1, <1>2 DEF PayInv, PayTypes
<1>4. payer'[k] = u
  BY <1>1, <1>2 DEF PayInv, PayTypes
<1>5. Opened' = Opened
  BY <1>1 DEF Opened
<1> HIDE DEF k
<1>6. payer' \in [Payments -> Users \cup {NoUser}]
  BY <1>1, <1>2 DEF PayInv, PayTypes
<1>7. step' \in [Users -> Steps]
  BY <1>1 DEF PayInv, PayTypes, Steps
<1>8. current' \in [Users -> 0..sent']
  BY <1>1, <1>2 DEF PayInv, PayTypes
<1>9. PayTypes'
  BY <1>1, <1>2, <1>6, <1>7, <1>8 DEF PayInv, PayTypes
<1>10. Paid'
  <2>1. \A j \in 1..sent' : payer'[j] \in Users
    BY <1>1, <1>2, <1>3, <1>4 DEF PayInv, Paid
  <2>2. \A t \in Opened' : openedBy'[t] \in 1..sent' /\ openedBy'[t] \notin pending'
    BY <1>1, <1>2, <1>5 DEF PayInv, Paid
  <2> QED
    BY <1>1, <1>5, <2>1, <2>2 DEF PayInv, Paid
<1>11. \A v \in Users : Current(v)'
  <2> SUFFICES ASSUME NEW v \in Users PROVE Current(v)'
    OBVIOUS
  <2>1. CASE v = u
    BY <1>1, <1>2, <1>4, <2>1 DEF PayInv, PayTypes, Current
  <2>2. CASE v # u
    <3>1. current'[v] = current[v] /\ step'[v] = step[v] /\ current[v] \in 0..sent
      BY <1>1, <2>2 DEF PayInv, PayTypes
    <3>2. current[v] # NoPayment => payer'[current[v]] = payer[current[v]]
      BY <1>2, <1>3, <3>1 DEF NoPayment
    <3> QED
      BY <3>1, <3>2 DEF PayInv, Current
  <2> QED
    BY <2>1, <2>2
<1> QED
  BY <1>1, <1>2, <1>3, <1>5, <1>9, <1>10, <1>11 DEF PayInv, Kept

LEMMA ExecutePays ==
  ASSUME PayInv, Opening, NEW k, Execute(k)
  PROVE  PayInv' /\ Kept
<1>1. PICK t \in Tasks : Contract!Open(t, NumChunks) /\ openedBy' = [openedBy EXCEPT ![t] = k]
  BY DEF Execute
<1>2. t \notin Opened /\ Opened' = Opened \cup {t}
  BY <1>1, OpenCounts DEF Opening
<1>3. /\ k \in pending /\ pending' = pending \ {k}
      /\ UNCHANGED <<sent, payer, step, current, failed, untimely>>
  BY DEF Execute, workflow, mishaps
<1>4. k \in 1..sent /\ k \in Payments /\ sent \in Nat
  BY <1>3, DashboardAssumption DEF PayInv, PayTypes, Payments
<1>5. openedBy'[t] = k /\ \A s \in Tasks : s # t => openedBy'[s] = openedBy[s]
  BY <1>1 DEF PayInv, PayTypes
<1>6. Opened \subseteq Tasks
  BY DEF Opened
<1>7. \A s \in Opened : openedBy'[s] = openedBy[s] /\ openedBy[s] # k
  BY <1>2, <1>3, <1>5, <1>6 DEF PayInv, Paid
<1>8. PayTypes'
  BY <1>1, <1>3, <1>4 DEF PayInv, PayTypes
<1>9. Paid'
  <2>1. \A j \in 1..sent' : payer'[j] \in Users
    BY <1>3 DEF PayInv, Paid
  <2>2. \A s \in Opened' : openedBy'[s] \in 1..sent' /\ openedBy'[s] \notin pending'
    BY <1>2, <1>3, <1>4, <1>5, <1>7 DEF PayInv, Paid
  <2>3. \A r, s \in Opened' : openedBy'[r] = openedBy'[s] => r = s
    BY <1>2, <1>5, <1>7 DEF PayInv, Paid
  <2> QED
    BY <2>1, <2>2, <2>3 DEF Paid
<1>10. \A u \in Users : Current(u)'
  BY <1>3 DEF PayInv, Current
<1> QED
  BY <1>3, <1>4, <1>7, <1>8, <1>9, <1>10 DEF PayInv, Kept

LEMMA RevertPays ==
  ASSUME PayInv, Opening, NEW k, Revert(k)
  PROVE  PayInv' /\ Kept
<1>1. /\ pending' \subseteq pending
      /\ UNCHANGED <<sent, payer, step, current, failed, untimely, openedBy, phase>>
  BY DEF Revert, workflow, mishaps, contract
<1>2. Opened' = Opened /\ sent \in Nat
  BY <1>1, DashboardAssumption DEF Opened, PayInv, PayTypes
<1>3. PayTypes'
  BY <1>1 DEF PayInv, PayTypes
<1>4. Paid'
  BY <1>1, <1>2 DEF PayInv, Paid
<1>5. \A u \in Users : Current(u)'
  BY <1>1 DEF PayInv, Current
<1> QED
  BY <1>1, <1>2, <1>3, <1>4, <1>5 DEF PayInv, Kept

(* A step of a workflow that is past the payment. *)
LEMMA WorkflowPays ==
  ASSUME PayInv, Opening, NEW u \in Users, NEW next \in Steps,
         step' = [step EXCEPT ![u] = next],
         next # "payment" => step[u] # "payment",
         step[u] # "payment" \/ UNCHANGED <<failed, untimely>>,
         failed' \in {failed, failed \cup {current[u]}},
         untimely' \in {untimely, untimely \cup {current[u]}},
         UNCHANGED <<payments, openedBy, phase, current>>
  PROVE  PayInv' /\ Kept
<1>1. step[u] # "payment" => current[u] \in 1..sent
  BY DashboardAssumption DEF PayInv, Current, PayTypes, NoPayment
<1>2. PayTypes'
  BY <1>1 DEF PayInv, PayTypes, payments
<1>3. \A v \in Users : step'[v] # "payment" => current[v] # NoPayment
  BY DEF PayInv, PayTypes, Current
<1> QED
  BY <1>2, <1>3, SamePayments

LEMMA IdlePays ==
  ASSUME PayInv, Opening, UNCHANGED <<payments, openedBy, phase, current, step, failed, untimely>>
  PROVE  PayInv' /\ Kept
<1>1. PayTypes'
  BY DEF PayInv, PayTypes, payments
<1>2. \A v \in Users : step'[v] # "payment" => current[v] # NoPayment
  BY DEF PayInv, Current
<1> QED
  BY <1>1, <1>2, SamePayments

LEMMA NextPays ==
  ASSUME PayInv, Opening, [Next]_vars
  PROVE  PayInv' /\ Kept
<1>1. ASSUME NEW u \in Users, ReadTaskId(u) PROVE PayInv' /\ Kept
  <2>1. /\ step[u] = "paid" /\ UNCHANGED <<payments, openedBy, phase, current>>
        /\ failed' \in {failed, failed \cup {current[u]}}
        /\ untimely' \in {untimely, untimely \cup {current[u]}}
    BY <1>1 DEF ReadTaskId, FailsBefore, contract
  <2>2. PICK next \in {"named", "payment"} : step' = [step EXCEPT ![u] = next]
    BY <1>1 DEF ReadTaskId, FailsBefore, Goes
  <2> QED
    BY <2>1, <2>2, WorkflowPays DEF Steps
<1>2. ASSUME NEW u \in Users, InitializeRound(u) PROVE PayInv' /\ Kept
  <2>1. /\ step[u] = "named" /\ UNCHANGED <<payments, openedBy, phase, current, untimely>>
        /\ failed' \in {failed, failed \cup {current[u]}}
    BY <1>2 DEF InitializeRound, FailsBefore, contract
  <2>2. PICK next \in {"initialized", "payment"} : step' = [step EXCEPT ![u] = next]
    BY <1>2 DEF InitializeRound, FailsBefore, Goes
  <2> QED
    BY <2>1, <2>2, WorkflowPays DEF Steps
<1>3. ASSUME NEW u \in Users, AddHistory(u) PROVE PayInv' /\ Kept
  <2>1. /\ step[u] = "initialized" /\ step' = [step EXCEPT ![u] = "assembling"]
        /\ UNCHANGED <<payments, openedBy, phase, current, untimely, failed>>
    BY <1>3 DEF AddHistory, Goes, contract, mishaps
  <2> QED
    BY <2>1, WorkflowPays DEF Steps
<1>4. ASSUME NEW u \in Users, SendTrain(u) PROVE PayInv' /\ Kept
  <2>1. /\ step[u] = "assembling"
        /\ UNCHANGED <<payments, openedBy, phase, current, untimely, failed>>
    BY <1>4 DEF SendTrain, contract
  <2>2. step' = [step EXCEPT ![u] = "started"] \/ step' = step
    BY <1>4 DEF SendTrain, Goes
  <2> QED
    BY <2>1, <2>2, WorkflowPays, IdlePays DEF Steps
<1>5. ASSUME NEW u \in Users, MarkRunning(u) PROVE PayInv' /\ Kept
  <2>1. /\ step[u] = "started" /\ step' = [step EXCEPT ![u] = "training"]
        /\ UNCHANGED <<payments, openedBy, phase, current, untimely, failed>>
    BY <1>5 DEF MarkRunning, Goes, contract, mishaps
  <2> QED
    BY <2>1, WorkflowPays DEF Steps
<1>6. ASSUME NEW u \in Users, Restart(u) PROVE PayInv' /\ Kept
  <2>1. /\ step' = [step EXCEPT ![u] = "payment"]
        /\ UNCHANGED <<payments, openedBy, phase, current, untimely>>
        /\ failed' = IF step[u] \in BeforeTheFile THEN failed \cup {current[u]} ELSE failed
    BY <1>6 DEF Restart, Goes, contract
  <2>2. step[u] # "payment" \/ failed' = failed
    BY <2>1 DEF BeforeTheFile
  <2> QED
    BY <2>1, <2>2, WorkflowPays DEF Steps
<1>7. ASSUME NEW u \in Users, DeleteProject(u) \/ Poll(u) PROVE PayInv' /\ Kept
  <2>1. UNCHANGED <<payments, openedBy, phase, current, step, failed, untimely>>
    BY <1>7 DEF DeleteProject, Poll, CheckStatus, FetchEvents, Complete, contract, workflow,
                mishaps
  <2> QED
    BY <2>1, IdlePays
<1>8. ASSUME NEW t \in Tasks, SubmitWeights(t) PROVE PayInv' /\ Kept
  <2>1. /\ UNCHANGED <<payments, openedBy, current, step, failed, untimely>>
        /\ Opened' = Opened
    BY <1>8, SubmitEmits DEF SubmitWeights, workflow, mishaps, Opening
  <2>2. PayTypes' /\ Paid' /\ (\A u \in Users : Current(u)') /\ sent \in Nat
    BY <2>1, DashboardAssumption DEF PayInv, PayTypes, Paid, Current, payments
  <2> QED
    BY <2>1, <2>2 DEF PayInv, Kept, payments
<1>9. CASE UNCHANGED vars
  BY <1>9, IdlePays DEF vars, contract, workflow, mishaps
<1> QED
  BY <1>1, <1>2, <1>3, <1>4, <1>5, <1>6, <1>7, <1>8, <1>9, PayPays, ExecutePays, RevertPays
     DEF Next, Workflow

-----------------------------------------------------------------------------
(* Files and polls: a payment has one record, its user's, of a task there  *)
(* is, with no more weights than were submitted.                           *)
FileRecord == [payment: Payments, id: Ids, status: Statuses, weights: Nat]
PollRecord == [id: Ids, found: Nat]

FileTypes ==
  /\ project \in [Users -> Ids]
  /\ history \in [Users -> SUBSET FileRecord] /\ polls \in [Users -> SUBSET PollRecord]

OncePerPayment(records) == \A g, h \in records : g.payment = h.payment => g = h

Shown(h) == h.id <= TaskCount /\ h.weights <= Weights(h.id)
Read(p) == p.id <= TaskCount /\ p.found <= Weights(p.id)

FiledFor(u) ==
  /\ project[u] <= TaskCount
  /\ OncePerPayment(history[u])
  /\ \A h \in history[u] : h.payment <= current[u] /\ payer[h.payment] = u
  /\ step[u] \in BeforeTheFile => \A h \in history[u] : h.payment # current[u]
  /\ \A h \in history[u] : Shown(h)
  /\ \A p \in polls[u] : Read(p)

FileInv == FileTypes /\ \A u \in Users : FiledFor(u)

LEMMA StillShown ==
  ASSUME Grows, FileTypes, NEW u \in Users
  PROVE  /\ \A h \in history[u] : Shown(h) => Shown(h)'
         /\ \A p \in polls[u] : Read(p) => Read(p)'
         /\ project[u] <= TaskCount => project[u] <= TaskCount'
<1>1. project[u] \in Int /\ \A h \in history[u] : h.id \in Int /\ h.weights \in Int
  BY DashboardAssumption DEF FileTypes, FileRecord, Ids
<1>2. \A p \in polls[u] : p.id \in Int /\ p.found \in Int
  BY DashboardAssumption DEF FileTypes, PollRecord, Ids
<1>3. ASSUME NEW h \in history[u], Shown(h) PROVE Shown(h)'
  <2> DEFINE w == Weights(h.id)
             v == Weights(h.id)'
  <2>1. w \in Nat /\ v \in Nat /\ w <= v /\ h.weights <= w /\ h.id <= TaskCount
    BY <1>3 DEF Shown, Grows
  <2>2. Shown(h)' <=> h.id <= TaskCount' /\ h.weights <= v
    BY DEF Shown
  <2> HIDE DEF w, v
  <2> QED
    BY <1>1, <2>1, <2>2 DEF Grows
<1>4. ASSUME NEW p \in polls[u], Read(p) PROVE Read(p)'
  <2> DEFINE w == Weights(p.id)
             v == Weights(p.id)'
  <2>1. w \in Nat /\ v \in Nat /\ w <= v /\ p.found <= w /\ p.id <= TaskCount
    BY <1>4 DEF Read, Grows
  <2>2. Read(p)' <=> p.id <= TaskCount' /\ p.found <= v
    BY DEF Read
  <2> HIDE DEF w, v
  <2> QED
    BY <1>2, <2>1, <2>2 DEF Grows
<1> QED
  BY <1>1, <1>3, <1>4 DEF Grows

(* What a payment was, its records remember. *)
LEMMA PayerKept ==
  ASSUME PayInv, Kept, FileInv, NEW u \in Users, NEW h \in history[u]
  PROVE  /\ h.payment \in 1..sent /\ payer'[h.payment] = u
         /\ h.payment \in Int /\ current[u] \in Int /\ h.payment <= current[u]
<1>1. h.payment \in Payments /\ current[u] \in 0..sent /\ h.payment <= current[u]
  BY DEF FileInv, FileTypes, FileRecord, FiledFor, PayInv, PayTypes
<1>2. h.payment \in 1..sent /\ h.payment \in Int /\ current[u] \in Int
  BY <1>1, DashboardAssumption DEF Payments, PayInv, PayTypes
<1> QED
  BY <1>1, <1>2 DEF Kept, FileInv, FiledFor

LEMMA SameFile ==
  ASSUME PayInv, Kept, Grows, FileInv, NEW u \in Users,
         UNCHANGED <<project[u], history[u], polls[u]>>,
         current'[u] = current[u] \/ current'[u] = sent + 1,
         step'[u] \in BeforeTheFile /\ current'[u] = current[u] => step[u] \in BeforeTheFile
  PROVE  FiledFor(u)'
<1>1. FiledFor(u)
  BY DEF FileInv
<1>2. project'[u] <= TaskCount'
  BY <1>1, StillShown DEF FileInv, FiledFor
<1>3. \A h \in history'[u] : Shown(h)'
  BY <1>1, StillShown DEF FileInv, FiledFor
<1>4. \A p \in polls'[u] : Read(p)'
  BY <1>1, StillShown DEF FileInv, FiledFor
<1>5. sent \in Nat /\ current[u] \in Int
  BY DashboardAssumption DEF PayInv, PayTypes
<1>6. \A h \in history'[u] : h.payment <= current'[u] /\ payer'[h.payment] = u
  BY <1>5, PayerKept
<1>7. step'[u] \in BeforeTheFile => \A h \in history'[u] : h.payment # current'[u]
  BY <1>1, <1>5, PayerKept DEF FiledFor
<1> QED
  BY <1>1, <1>2, <1>3, <1>4, <1>6, <1>7 DEF FiledFor

LEMMA IdleFile ==
  ASSUME PayInv, Kept, Grows, FileInv, UNCHANGED <<workflow, files, polls>>
  PROVE  FileInv'
<1>1. FileTypes'
  BY DEF FileInv, FileTypes, workflow, files
<1>2. ASSUME NEW u \in Users PROVE FiledFor(u)'
  BY SameFile DEF workflow, files
<1> QED
  BY <1>1, <1>2 DEF FileInv

LEMMA OthersFile ==
  ASSUME PayInv, Kept, Grows, FileInv, FileTypes', NEW u \in Users, FiledFor(u)',
         \A v \in Users : v # u => UNCHANGED <<step[v], current[v], project[v], history[v], polls[v]>>
  PROVE  FileInv'
<1>1. ASSUME NEW v \in Users, v # u PROVE FiledFor(v)'
  BY <1>1, SameFile
<1> QED
  BY <1>1 DEF FileInv

(* A record changed in place keeps its payment and its id. *)
ChangedFrom(y, h, id, status, weights) ==
  /\ y.payment = h.payment /\ y.id = h.id
  /\ y = h \/ /\ h.id = id /\ y.status = status
              /\ y.weights = IF weights = 0 THEN h.weights ELSE weights

LEMMA UpdatedRecords ==
  ASSUME NEW records \in SUBSET FileRecord, OncePerPayment(records), NEW id \in Ids,
         NEW status \in Statuses, NEW weights \in Nat
  PROVE  LET U == Updated(records, id, status, weights) IN
         /\ U \in SUBSET FileRecord /\ OncePerPayment(U)
         /\ \A y \in U : \E h \in records : ChangedFrom(y, h, id, status, weights)
         /\ \A h \in records : \E y \in U : ChangedFrom(y, h, id, status, weights)
<1> DEFINE New(h) == IF h.id = id /\ First(records, h)
                       THEN [h EXCEPT !.status = status,
                                      !.weights = IF weights = 0 THEN h.weights ELSE weights]
                       ELSE h
           U == Updated(records, id, status, weights)
<1>1. U = {New(h) : h \in records}
  BY DEF Updated
<1>2. ASSUME NEW h \in records
      PROVE  New(h) \in FileRecord /\ ChangedFrom(New(h), h, id, status, weights)
  <2>1. h \in FileRecord
    OBVIOUS
  <2>2. CASE h.id = id /\ First(records, h)
    <3> DEFINE w == IF weights = 0 THEN h.weights ELSE weights
    <3>1. New(h) = [payment |-> h.payment, id |-> h.id, status |-> status, weights |-> w]
      BY <2>1, <2>2 DEF FileRecord
    <3>2. w \in Nat
      BY <2>1 DEF FileRecord
    <3> HIDE DEF New, w
    <3> QED
      BY <2>1, <2>2, <3>1, <3>2 DEF FileRecord, ChangedFrom, w
  <2>3. CASE ~(h.id = id /\ First(records, h))
    BY <2>1, <2>3 DEF ChangedFrom
  <2> QED
    BY <2>2, <2>3
<1> HIDE DEF New, U
<1>3. U \in SUBSET FileRecord
  BY <1>1, <1>2
<1>4. OncePerPayment(U)
  <2> SUFFICES ASSUME NEW g \in records, NEW h \in records,
                      New(g).payment = New(h).payment
               PROVE  New(g) = New(h)
    BY <1>1 DEF OncePerPayment
  <2>1. New(g).payment = g.payment /\ New(h).payment = h.payment
    BY <1>2 DEF ChangedFrom
  <2>2. g = h
    BY <2>1 DEF OncePerPayment
  <2> QED
    BY <2>2
<1>5. \A y \in U : \E h \in records : ChangedFrom(y, h, id, status, weights)
  BY <1>1, <1>2
<1>6. \A h \in records : \E y \in U : ChangedFrom(y, h, id, status, weights)
  BY <1>1, <1>2
<1> QED
  BY <1>3, <1>4, <1>5, <1>6 DEF U

-----------------------------------------------------------------------------
(* One lemma per kind of step on the files.                                *)
Known == PayInv /\ FileInv

LEMMA UserFiled ==
  ASSUME FileInv, NEW u \in Users
  PROVE  /\ history[u] \in SUBSET FileRecord /\ polls[u] \in SUBSET PollRecord
         /\ project[u] \in Ids /\ OncePerPayment(history[u]) /\ FiledFor(u)
  BY DEF FileInv, FileTypes, FiledFor

(* The steps that move the workflow but touch neither file nor polls. *)
LEMMA MoveFiles ==
  ASSUME Known, Kept, Grows, NEW u \in Users, UNCHANGED <<project, history, polls>>,
         \A v \in Users : v # u => UNCHANGED <<step[v], current[v]>>,
         current'[u] = current[u] \/ current'[u] = sent + 1,
         step'[u] \in BeforeTheFile /\ current'[u] = current[u] => step[u] \in BeforeTheFile
  PROVE  FileInv'
<1>1. FileTypes'
  BY DEF Known, FileInv, FileTypes
<1>2. FiledFor(u)'
  BY SameFile DEF Known
<1> QED
  BY <1>1, <1>2, OthersFile DEF Known

LEMMA PayFiles ==
  ASSUME Known, Kept, Grows, NEW u \in Users, Pay(u)
  PROVE  FileInv'
<1>1. /\ UNCHANGED <<project, history, polls>> /\ current' = [current EXCEPT ![u] = sent + 1]
      /\ step' \in {step, [step EXCEPT ![u] = "paid"]}
  BY DEF Pay, Goes, files
<1>2. sent \in Nat /\ current[u] \in 0..sent
  BY DashboardAssumption DEF Known, PayInv, PayTypes
<1>3. current'[u] = sent + 1 /\ current'[u] # current[u]
  BY <1>1, <1>2 DEF Known, PayInv, PayTypes
<1>4. \A v \in Users : v # u => UNCHANGED <<step[v], current[v]>>
  BY <1>1 DEF Known, PayInv, PayTypes
<1> QED
  BY <1>1, <1>3, <1>4, MoveFiles

LEMMA StepFiles ==
  ASSUME Known, Kept, Grows, NEW u \in Users, NEW next \in Steps,
         step' = [step EXCEPT ![u] = next], next \in BeforeTheFile => step[u] \in BeforeTheFile,
         UNCHANGED <<project, history, polls, current>>
  PROVE  FileInv'
<1>1. step'[u] = next /\ \A v \in Users : v # u => step'[v] = step[v]
  BY DEF Known, PayInv, PayTypes
<1> QED
  BY <1>1, MoveFiles

LEMMA ReadTaskIdFiles ==
  ASSUME Known, Kept, Grows, Opening, NEW u \in Users, ReadTaskId(u)
  PROVE  FileInv'
<1>1. /\ step[u] = "paid" /\ UNCHANGED <<history, polls, current, phase>>
      /\ \/ /\ step' = [step EXCEPT ![u] = "named"]
            /\ project' = [project EXCEPT ![u] = TaskCount]
         \/ step' = [step EXCEPT ![u] = "payment"] /\ project' = project
  BY DEF ReadTaskId, FailsBefore, Goes, contract, files
<1>2. CASE project' = project
  BY <1>1, <1>2, StepFiles DEF BeforeTheFile, Steps
<1>3. CASE /\ step' = [step EXCEPT ![u] = "named"]
           /\ project' = [project EXCEPT ![u] = TaskCount]
  <2>1. TaskCount \in Ids /\ TaskCount' = TaskCount /\ TaskCount \in Nat
    <3>1. TaskCount \in Nat /\ 1..TaskCount \subseteq 1..MaxPayments
      BY DEF Opening, InOrder, Opened, Tasks
    <3>2. TaskCount \in 0..MaxPayments
      BY <3>1, DashboardAssumption
    <3>3. Opened' = Opened
      BY <1>1 DEF Opened
    <3> QED
      BY <3>1, <3>2, <3>3 DEF Ids, TaskCount
  <2>2. FileTypes'
    BY <1>1, <1>3, <2>1 DEF Known, FileInv, FileTypes
  <2>3. project'[u] = TaskCount /\ step'[u] = "named"
    BY <1>3 DEF Known, FileInv, FileTypes, PayInv, PayTypes
  <2>4. /\ \A h \in history'[u] : Shown(h)'
        /\ \A p \in polls'[u] : Read(p)'
    BY <1>1, UserFiled, StillShown DEF Known, FileInv, FiledFor
  <2>5. \A h \in history'[u] : h.payment <= current'[u] /\ payer'[h.payment] = u
    BY <1>1, PayerKept DEF Known
  <2>6. \A h \in history'[u] : h.payment # current'[u]
    BY <1>1, UserFiled DEF Known, FiledFor, BeforeTheFile
  <2>7. FiledFor(u)'
    BY <1>1, <2>1, <2>3, <2>4, <2>5, <2>6, UserFiled DEF FiledFor, Known
  <2>8. \A v \in Users : v # u => step'[v] = step[v] /\ project'[v] = project[v]
    BY <1>3 DEF Known, FileInv, FileTypes, PayInv, PayTypes
  <2> QED
    BY <1>1, <2>2, <2>7, <2>8, OthersFile DEF Known
<1> QED
  BY <1>1, <1>2, <1>3

(* A file with the records R instead, and the polls P. *)
LEMMA FilesWritten ==
  ASSUME Known, Kept, Grows, NEW u \in Users, NEW R \in SUBSET FileRecord,
         NEW P \in SUBSET PollRecord,
         history' = [history EXCEPT ![u] = R], polls' = [polls EXCEPT ![u] = P],
         UNCHANGED <<project, current>>,
         \A v \in Users : v # u => step'[v] = step[v],
         OncePerPayment(R), step'[u] \in BeforeTheFile => step[u] \in BeforeTheFile,
         \A h \in R : h.payment <= current[u] /\ payer'[h.payment] = u,
         step'[u] \in BeforeTheFile => \A h \in R : h.payment # current[u],
         \A h \in R : Shown(h)', \A p \in P : Read(p)'
  PROVE  FileInv'
<1>1. FileTypes'
  BY DEF Known, FileInv, FileTypes
<1>2. /\ history'[u] = R /\ polls'[u] = P
      /\ \A v \in Users : v # u => history'[v] = history[v] /\ polls'[v] = polls[v]
  BY DEF Known, FileInv, FileTypes
<1>3. project'[u] <= TaskCount'
  BY UserFiled, StillShown DEF Known, FileInv, FiledFor
<1>4. FiledFor(u)'
  BY <1>2, <1>3 DEF FiledFor
<1> QED
  BY <1>1, <1>2, <1>4, OthersFile DEF Known

LEMMA RecordsKept ==
  ASSUME Known, Kept, Grows, NEW u \in Users
  PROVE  /\ \A h \in history[u] : h.payment <= current[u] /\ payer'[h.payment] = u
         /\ \A h \in history[u] : Shown(h)'
         /\ \A p \in polls[u] : Read(p)'
<1>1. \A h \in history[u] : Shown(h)'
  BY UserFiled, StillShown DEF Known, FileInv, FiledFor
<1>2. \A p \in polls[u] : Read(p)'
  BY UserFiled, StillShown DEF Known, FileInv, FiledFor
<1> QED
  BY <1>1, <1>2, PayerKept DEF Known

LEMMA AddHistoryFiles ==
  ASSUME Known, Kept, Grows, NEW u \in Users, AddHistory(u)
  PROVE  FileInv'
<1> DEFINE r == Record(current[u], project[u], "Initialized", 0)
           R == history[u] \cup {r}
<1>1. /\ step[u] = "initialized" /\ step' = [step EXCEPT ![u] = "assembling"]
      /\ history' = [history EXCEPT ![u] = R]
      /\ UNCHANGED <<project, current, polls>>
  BY DEF AddHistory, Goes
<1>2. /\ current[u] \in Payments /\ current[u] \in 1..sent /\ current[u] \in Int
      /\ payer[current[u]] = u
  BY <1>1, DashboardAssumption DEF Known, PayInv, PayTypes, Current, Payments, NoPayment
<1>3. r \in FileRecord /\ r.payment = current[u] /\ r.id = project[u] /\ r.weights = 0
  BY <1>2, UserFiled DEF Known, Record, FileRecord, Statuses
<1> HIDE DEF r
<1>4. \A h \in {r} : Shown(h)'
  <2>1. project[u] <= TaskCount'
    BY UserFiled, StillShown DEF Known, FileInv, FiledFor
  <2> SUFFICES ASSUME NEW h, h = r PROVE Shown(h)'
    OBVIOUS
  <2>2. Weights(h.id)' \in Nat
    BY DEF Grows
  <2>3. 0 <= Weights(h.id)'
    BY <2>2
  <2> QED
    BY <1>3, <2>1, <2>3 DEF Shown
<1>5. OncePerPayment(R)
  <2>1. \A h \in history[u] : h.payment # current[u]
    BY <1>1, UserFiled DEF Known, FiledFor, BeforeTheFile
  <2> QED
    BY <1>3, <2>1, UserFiled DEF OncePerPayment, Known
<1>6. \A h \in R : h.payment <= current[u] /\ payer'[h.payment] = u
  BY <1>2, <1>3, RecordsKept DEF Kept
<1>7. step'[u] = "assembling" /\ \A v \in Users : v # u => step'[v] = step[v]
  BY <1>1 DEF Known, PayInv, PayTypes
<1>8. polls' = [polls EXCEPT ![u] = polls[u]]
  BY <1>1 DEF Known, FileInv, FileTypes
<1>9. R \in SUBSET FileRecord /\ polls[u] \in SUBSET PollRecord
  BY <1>3, UserFiled DEF Known
<1>10. (\A h \in R : Shown(h)') /\ (\A p \in polls[u] : Read(p)')
  BY <1>4, RecordsKept
<1>11. step'[u] \notin BeforeTheFile
  BY <1>7 DEF BeforeTheFile
<1> HIDE DEF R
<1> QED
  BY <1>1, <1>5, <1>6, <1>7, <1>8, <1>9, <1>10, <1>11, FilesWritten

LEMMA UpdateFiles ==
  ASSUME Known, Kept, Grows, NEW u \in Users, NEW id \in Ids, NEW status \in Statuses,
         NEW weights \in Nat, weights <= Weights(id), NEW P \in SUBSET polls[u],
         history' = [history EXCEPT ![u] = Updated(history[u], id, status, weights)],
         polls' = [polls EXCEPT ![u] = P], UNCHANGED <<project, current>>,
         \A v \in Users : v # u => step'[v] = step[v],
         step'[u] \in BeforeTheFile => step[u] \in BeforeTheFile
  PROVE  FileInv'
<1> DEFINE R == Updated(history[u], id, status, weights)
<1>1. /\ R \in SUBSET FileRecord /\ OncePerPayment(R)
      /\ \A y \in R : \E h \in history[u] : ChangedFrom(y, h, id, status, weights)
  BY UserFiled, UpdatedRecords DEF Known
<1> HIDE DEF R
<1>2. \A h \in R : h.payment <= current[u] /\ payer'[h.payment] = u
  BY <1>1, RecordsKept DEF ChangedFrom
<1>3. \A y \in R : Shown(y)'
  <2> SUFFICES ASSUME NEW y \in R PROVE Shown(y)'
    OBVIOUS
  <2>1. PICK h \in history[u] : ChangedFrom(y, h, id, status, weights)
    BY <1>1
  <2>2. Shown(h)' /\ y.id = h.id
    BY <2>1, RecordsKept DEF ChangedFrom
  <2>3. CASE y = h
    BY <2>2, <2>3
  <2>4. CASE y.id = id /\ y.weights = weights
    <3> DEFINE w == Weights(id)
               v == Weights(id)'
    <3>1. w \in Nat /\ v \in Nat /\ w <= v /\ weights <= w
      BY DEF Grows
    <3>2. weights <= v
      <4> HIDE DEF w, v
      <4> QED
        BY <3>1
    <3> QED
      BY <2>2, <2>4, <3>2 DEF Shown
  <2>5. CASE y.id = h.id /\ y.weights = h.weights
    BY <2>2, <2>5 DEF Shown
  <2> QED
    BY <2>1, <2>3, <2>4, <2>5 DEF ChangedFrom
<1>4. step'[u] \in BeforeTheFile => \A h \in R : h.payment # current[u]
  BY <1>1, UserFiled DEF ChangedFrom, FiledFor, Known
<1>5. P \in SUBSET PollRecord /\ \A p \in P : Read(p)'
  BY RecordsKept, UserFiled DEF Known
<1> QED
  BY <1>1, <1>2, <1>3, <1>4, <1>5, FilesWritten DEF R

(* What a page holds: no more than there is, and all of it but what is     *)
(* beyond the page, if the mirror node has the task's last event.          *)
LEMMA PageReads ==
  ASSUME NEW S, log \in Seq(S), NEW n \in 0..Len(log), NEW t
  PROVE  LET found == Cardinality(EventsOf(t, Page(n))) IN
         /\ found \in Nat /\ Weights(t) \in Nat /\ found <= Weights(t)
         /\ EventsOf(t, (n + 1)..Len(log)) = {} => Weights(t) <= found + Beyond
<1> DEFINE all == EventsIn(log, t)
           page == EventsOf(t, Page(n))
           rest == 1..Beyond
           found == Cardinality(page)
<1>1. Len(log) \in Nat /\ n \in Nat /\ n <= Len(log) /\ PageSize \in Nat
  BY DashboardAssumption
<1>2. Beyond \in Nat
  BY <1>1 DEF Beyond
<1>3. IsFiniteSet(all) /\ Cardinality(all) = Weights(t) /\ Weights(t) \in Nat
  BY EventsFinite DEF Weights
<1>4. page \subseteq all
  BY <1>1 DEF EventsOf, Page, EventsIn
<1>5. IsFiniteSet(page) /\ found <= Weights(t) /\ found \in Nat
  <2> HIDE DEF all, page
  <2> QED
    BY <1>3, <1>4, FS_Subset, FS_CardinalityType
<1>6. ASSUME EventsOf(t, (n + 1)..Len(log)) = {} PROVE Weights(t) <= found + Beyond
  <2>1. all \subseteq page \cup rest
    <3> SUFFICES ASSUME NEW i \in all, i \notin page PROVE i \in rest
      OBVIOUS
    <3>1. i \in 1..Len(log) /\ log[i] = t
      BY DEF EventsIn
    <3>2. i \notin (n + 1)..Len(log)
      BY <1>6, <3>1 DEF EventsOf
    <3>3. i \in 1..n
      BY <1>1, <3>1, <3>2
    <3>4. ~(i > n - PageSize)
      BY <3>1, <3>3 DEF EventsOf, Page
    <3> QED
      BY <1>1, <3>3, <3>4 DEF Beyond
  <2>2. IsFiniteSet(rest) /\ Cardinality(rest) = Beyond
    <3> DEFINE m == Beyond
    <3>1. m \in Nat
      BY <1>2
    <3> HIDE DEF m
    <3>2. IsFiniteSet(1..m) /\ Cardinality(1..m) = IF 1 > m THEN 0 ELSE m - 1 + 1
      BY <3>1, FS_Interval
    <3>3. Cardinality(1..m) = m
      BY <3>1, <3>2
    <3> QED
      BY <3>2, <3>3 DEF m
  <2> HIDE DEF all, page, rest
  <2>3. /\ IsFiniteSet(page \cup rest)
        /\ Cardinality(page \cup rest) =
             Cardinality(page) + Cardinality(rest) - Cardinality(page \cap rest)
    BY <1>5, <2>2, FS_Union
  <2>4. Cardinality(all) <= Cardinality(page \cup rest)
    BY <2>1, <2>3, FS_Subset
  <2>5. Cardinality(page \cap rest) \in Nat
    <3>1. IsFiniteSet(page \cap rest)
      BY <1>5, FS_Subset
    <3> QED
      BY <3>1, FS_CardinalityType
  <2> QED
    BY <1>2, <1>3, <1>5, <2>2, <2>3, <2>4, <2>5
<1> QED
  BY <1>3, <1>5, <1>6

LEMMA CheckStatusFiles ==
  ASSUME Known, Kept, Grows, NEW u \in Users, NEW h \in history[u], CheckStatus(u, h)
  PROVE  FileInv'
<1> DEFINE q == [id |-> h.id, found |-> 0]
           P == polls[u] \cup {q}
<1>1. /\ polls' = [polls EXCEPT ![u] = P]
      /\ UNCHANGED <<project, current, step, history>>
  BY DEF CheckStatus, workflow, files
<1>2. q \in PollRecord /\ h.id \in Ids
  BY UserFiled DEF Known, FileRecord, PollRecord
<1>3. \A p \in P : Read(p)'
  <2> SUFFICES ASSUME NEW p, p = q PROVE Read(p)'
    BY RecordsKept
  <2>1. h.id <= TaskCount'
    BY RecordsKept DEF Shown
  <2>2. Weights(p.id)' \in Nat
    BY DEF Grows
  <2>3. 0 <= Weights(p.id)'
    BY <2>2
  <2> QED
    BY <2>1, <2>3 DEF Read
<1>4. history' = [history EXCEPT ![u] = history[u]]
  BY <1>1 DEF Known, FileInv, FileTypes
<1>5. P \in SUBSET PollRecord /\ history[u] \in SUBSET FileRecord /\ OncePerPayment(history[u])
  BY <1>2, UserFiled DEF Known
<1>6. step'[u] \in BeforeTheFile => \A g \in history[u] : g.payment # current[u]
  BY <1>1, UserFiled DEF Known, FiledFor
<1> HIDE DEF P
<1> QED
  BY <1>1, <1>3, <1>4, <1>5, <1>6, RecordsKept, FilesWritten

Fetched(u, p, n) ==
  /\ polls' = [polls EXCEPT ![u] =
       (@ \ {p}) \cup {q \in {[id |-> p.id, found |-> Cardinality(EventsOf(p.id, Page(n)))]} :
                        Cardinality(EventsOf(p.id, Page(n))) > 0}]
  /\ EventsOf(p.id, (n + 1)..Len(log)) # {} => Misread
  /\ EventsOf(p.id, (n + 1)..Len(log)) = {} => UNCHANGED misreads

LEMMA FetchedSome ==
  ASSUME NEW u, NEW p, FetchEvents(u, p)
  PROVE  \E n \in 0..Len(log) : Fetched(u, p, n)
<1>1. PICK n \in 0..Len(log) :
       LET found == Cardinality(EventsOf(p.id, Page(n))) IN
       /\ IF EventsOf(p.id, (n + 1)..Len(log)) # {} THEN Misread ELSE UNCHANGED misreads
       /\ polls' = [polls EXCEPT ![u] =
                      (@ \ {p}) \cup {q \in {[id |-> p.id, found |-> found]} : found > 0}]
  BY ONLY FetchEvents(u, p) DEF FetchEvents
<1>2. Fetched(u, p, n)
  BY ONLY <1>1 DEF Fetched
<1> QED
  BY <1>2

LEMMA FetchEventsFiles ==
  ASSUME Known, Kept, Grows, Opening, NEW u \in Users, NEW p \in polls[u], FetchEvents(u, p)
  PROVE  FileInv'
<1>1. PICK n \in 0..Len(log) : Fetched(u, p, n)
  BY FetchedSome
<1> DEFINE found == Cardinality(EventsOf(p.id, Page(n)))
           r == [id |-> p.id, found |-> found]
           P == (polls[u] \ {p}) \cup {q \in {r} : found > 0}
<1>2. polls' = [polls EXCEPT ![u] = P]
  BY <1>1 DEF Known, FileInv, FileTypes, Fetched
<1>3. UNCHANGED <<project, current, step, history>>
  BY DEF FetchEvents, workflow, files
<1>4. found \in Nat /\ found <= Weights(p.id)
  BY PageReads DEF Opening, Emitted
<1>5. p.id \in Ids /\ p.id <= TaskCount'
  BY UserFiled, RecordsKept DEF Known, PollRecord, Read
<1> HIDE DEF found
<1>6. r \in PollRecord /\ r.id = p.id /\ r.found = found
  BY <1>4, <1>5 DEF PollRecord
<1> HIDE DEF r
<1>7. \A q \in P : Read(q)'
  <2> SUFFICES ASSUME NEW q, q = r PROVE Read(q)'
    BY RecordsKept
  <2>1. Weights(p.id)' \in Nat /\ Weights(p.id) \in Nat /\ Weights(p.id) <= Weights(p.id)'
    BY DEF Grows
  <2>2. found <= Weights(q.id)'
    <3> DEFINE w == Weights(p.id)
               v == Weights(q.id)'
    <3>1. q.id = p.id
      BY <1>6
    <3>2. Weights(q.id) = Weights(p.id) /\ Weights(q.id)' \in Nat /\ Weights(q.id) \in Nat
      BY <3>1 DEF Grows
    <3>3. Weights(q.id) <= Weights(q.id)'
      BY DEF Grows
    <3> QED
      BY <1>4, <3>2, <3>3
  <2> QED
    BY <1>5, <1>6, <2>2 DEF Read
<1>8. history' = [history EXCEPT ![u] = history[u]]
  BY <1>3 DEF Known, FileInv, FileTypes
<1>9. P \in SUBSET PollRecord /\ history[u] \in SUBSET FileRecord /\ OncePerPayment(history[u])
  BY <1>6, UserFiled DEF Known
<1>10. step'[u] \in BeforeTheFile => \A g \in history[u] : g.payment # current[u]
  BY <1>3, UserFiled DEF Known, FiledFor
<1> HIDE DEF P
<1> QED
  BY <1>2, <1>3, <1>7, <1>8, <1>9, <1>10, RecordsKept, FilesWritten

LEMMA RestartFiles ==
  ASSUME Known, Kept, Grows, NEW u \in Users, Restart(u)
  PROVE  FileInv'
<1> DEFINE P == {}
<1>1. /\ step' = [step EXCEPT ![u] = "payment"] /\ polls' = [polls EXCEPT ![u] = P]
      /\ UNCHANGED <<project, current, history>>
  BY DEF Restart, Goes, files
<1>2. /\ step'[u] = "payment" /\ "payment" \notin BeforeTheFile
      /\ \A v \in Users : v # u => step'[v] = step[v]
  BY <1>1 DEF Known, PayInv, PayTypes, BeforeTheFile
<1>3. history' = [history EXCEPT ![u] = history[u]]
  BY <1>1 DEF Known, FileInv, FileTypes
<1>4. P \in SUBSET PollRecord /\ history[u] \in SUBSET FileRecord /\ OncePerPayment(history[u])
  BY UserFiled DEF Known
<1>5. \A q \in P : Read(q)'
  OBVIOUS
<1>6. step'[u] \in BeforeTheFile => \A g \in history[u] : g.payment # current[u]
  BY <1>2
<1>7. /\ \A h \in history[u] : h.payment <= current[u] /\ payer'[h.payment] = u
      /\ \A h \in history[u] : Shown(h)'
  BY RecordsKept
<1>8. \A v \in Users : v # u => step'[v] = step[v]
  BY <1>2
<1>9. step'[u] \in BeforeTheFile => step[u] \in BeforeTheFile
  BY <1>2
<1>10. polls' = [polls EXCEPT ![u] = P] /\ UNCHANGED <<project, current>>
  BY <1>1
<1> HIDE DEF P
<1> QED
  BY <1>3, <1>4, <1>5, <1>6, <1>7, <1>8, <1>9, <1>10, FilesWritten

LEMMA DeleteFiles ==
  ASSUME Known, Kept, Grows, NEW u \in Users, DeleteProject(u)
  PROVE  FileInv'
<1>1. PICK id \in IdsOf(u) : history' = [history EXCEPT ![u] = {h \in history[u] : h.id # id}]
  BY DEF DeleteProject
<1> DEFINE R == {h \in history[u] : h.id # id}
<1>2. UNCHANGED <<project, current, step, polls>>
  BY DEF DeleteProject, workflow
<1>3. polls' = [polls EXCEPT ![u] = polls[u]]
  BY <1>2 DEF Known, FileInv, FileTypes
<1>4. polls[u] \in SUBSET PollRecord /\ R \in SUBSET FileRecord /\ OncePerPayment(R)
  BY UserFiled DEF Known, OncePerPayment
<1>5. step'[u] \in BeforeTheFile => \A g \in R : g.payment # current[u]
  BY <1>2, UserFiled DEF Known, FiledFor
<1>6. /\ \A h \in R : h.payment <= current[u] /\ payer'[h.payment] = u
      /\ \A h \in R : Shown(h)'
      /\ \A p \in polls[u] : Read(p)'
  BY RecordsKept
<1>7. history' = [history EXCEPT ![u] = R]
  BY <1>1
<1> HIDE DEF R
<1> QED
  BY <1>2, <1>3, <1>4, <1>5, <1>6, <1>7, FilesWritten

LEMMA MarkRunningFiles ==
  ASSUME Known, Kept, Grows, NEW u \in Users, MarkRunning(u)
  PROVE  FileInv'
<1>1. /\ step' = [step EXCEPT ![u] = "training"]
      /\ history' = [history EXCEPT ![u] = Updated(history[u], project[u], "Running", 0)]
      /\ UNCHANGED <<project, current, polls>>
  BY DEF MarkRunning, Goes
<1>2. /\ step'[u] = "training" /\ "training" \notin BeforeTheFile
      /\ \A v \in Users : v # u => step'[v] = step[v]
  BY <1>1 DEF Known, PayInv, PayTypes, BeforeTheFile
<1>3. polls' = [polls EXCEPT ![u] = polls[u]] /\ polls[u] \in SUBSET polls[u]
  BY <1>1 DEF Known, FileInv, FileTypes
<1>4. project[u] \in Ids /\ "Running" \in Statuses
  BY UserFiled DEF Known, Statuses
<1>5. Weights(project[u]) \in Nat /\ 0 <= Weights(project[u])
  <2> DEFINE w == Weights(project[u])
  <2>1. w \in Nat
    BY DEF Grows
  <2> HIDE DEF w
  <2>2. 0 <= w
    BY <2>1
  <2> QED
    BY <2>1, <2>2 DEF w
<1> QED
  BY <1>1, <1>2, <1>3, <1>4, <1>5, UpdateFiles

LEMMA CompleteFiles ==
  ASSUME Known, Kept, Grows, NEW u \in Users, NEW p \in polls[u], Complete(u, p)
  PROVE  FileInv'
<1>1. /\ history' = [history EXCEPT ![u] = Updated(history[u], p.id, "Completed", p.found)]
      /\ polls' = [polls EXCEPT ![u] = polls[u] \ {p}]
      /\ UNCHANGED <<project, current, step>>
  BY DEF Complete, workflow
<1>2. p.id \in Ids /\ p.found \in Nat /\ p.found <= Weights(p.id) /\ "Completed" \in Statuses
  BY UserFiled DEF Known, PollRecord, FiledFor, Read, Statuses
<1> QED
  BY <1>1, <1>2, UpdateFiles

LEMMA NextFiles ==
  ASSUME Known, Kept, Grows, Opening, [Next]_vars
  PROVE  FileInv'
<1>1. ASSUME NEW u \in Users, InitializeRound(u) PROVE FileInv'
  <2>1. /\ step[u] = "named" /\ UNCHANGED <<project, history, polls, current>>
    BY <1>1 DEF InitializeRound, files
  <2>2. PICK next \in {"initialized", "payment"} : step' = [step EXCEPT ![u] = next]
    BY <1>1 DEF InitializeRound, FailsBefore, Goes
  <2> QED
    BY <2>1, <2>2, StepFiles DEF Steps, BeforeTheFile
<1>2. ASSUME NEW u \in Users, SendTrain(u) PROVE FileInv'
  <2>1. UNCHANGED <<project, history, polls, current, deleted>>
    BY <1>2 DEF SendTrain, files
  <2>2. CASE step' = [step EXCEPT ![u] = "started"]
    BY <2>1, <2>2, StepFiles DEF Steps, BeforeTheFile
  <2>3. CASE step' = step
    BY <2>1, <2>3, IdleFile DEF Known, workflow, files
  <2> QED
    BY <1>2, <2>2, <2>3 DEF SendTrain, Goes
<1>3. ASSUME NEW k, Execute(k) \/ Revert(k) PROVE FileInv'
  BY <1>3, IdleFile DEF Execute, Revert, Known
<1>4. ASSUME NEW t, SubmitWeights(t) PROVE FileInv'
  BY <1>4, IdleFile DEF SubmitWeights, Known
<1>5. CASE UNCHANGED vars
  BY <1>5, IdleFile DEF vars, Known
<1> QED
  BY <1>1, <1>2, <1>3, <1>4, <1>5, PayFiles, ReadTaskIdFiles, AddHistoryFiles, MarkRunningFiles,
     RestartFiles, DeleteFiles, CheckStatusFiles, FetchEventsFiles, CompleteFiles
     DEF Next, Workflow, Poll

-----------------------------------------------------------------------------
Counters == /\ trained \subseteq Opened \cup {NoTask}
            /\ faults \in 0..MaxFaults /\ misreads \in 0..MaxMisreads
            /\ unconfirmed \in 0..MaxUnconfirmed
            /\ deleted \in [Users -> SUBSET Ids]

IInv == Opening /\ PayInv /\ FileInv /\ Counters

LEMMA InitHolds == Init => IInv
<1> SUFFICES ASSUME Init PROVE IInv
  OBVIOUS
<1> USE DashboardAssumption
<1>1. Opened = {} /\ TaskCount = 0
  BY FS_EmptySet DEF Init, Contract!Init, Opened, TaskCount
<1>2. \A t : Weights(t) = 0
  <2>1. log = <<>> /\ \A t : EventsIn(log, t) = {}
    BY DEF Init, EventsIn
  <2> QED
    BY <2>1, FS_EmptySet DEF Weights
<1>3. Opening
  <2>1. InOrder
    BY <1>1 DEF InOrder
  <2>2. log \in Seq(Tasks \cup {OtherEvent})
    BY DEF Init
  <2>3. \A t \in Tasks : TaskOf(phase[t], owed[t], Weights(t))
    BY <1>2 DEF Init, Contract!Init, TaskOf
  <2>4. Emitted
    BY <2>2, <2>3 DEF Init, Contract!Init, Emitted
  <2> QED
    BY <2>1, <2>4 DEF Opening
<1>4. PayInv
  BY <1>1 DEF Init, PayInv, PayTypes, Paid, Current, NoPayment, Steps
<1>5. FileInv
  <2>1. FileTypes
    BY DEF Init, FileTypes, Ids, NoTask
  <2>2. ASSUME NEW u \in Users PROVE FiledFor(u)
    BY <1>1 DEF Init, FiledFor, NoTask, BeforeTheFile, OncePerPayment
  <2> QED
    BY <2>1, <2>2 DEF FileInv
<1>6. Counters
  BY DEF Init, Counters
<1> QED
  BY <1>3, <1>4, <1>5, <1>6 DEF IInv

LEMMA ProjectOpened ==
  ASSUME Opening, FileInv, NEW u \in Users
  PROVE  project[u] \in Opened \cup {NoTask}
<1>1. project[u] \in Ids /\ project[u] <= TaskCount
  BY DEF FileInv, FileTypes, FiledFor
<1>2. TaskCount \in Nat /\ Opened = 1..TaskCount
  BY DEF Opening, InOrder
<1> QED
  BY <1>1, <1>2, DashboardAssumption DEF Ids, NoTask

LEMMA NextCounters ==
  ASSUME IInv, Opening', Grows, [Next]_vars
  PROVE  Counters'
<1>1. Opened \subseteq Opened'
  BY DEF Grows
<1>2. trained' \subseteq Opened' \cup {NoTask}
  <2>1. trained \subseteq Opened' \cup {NoTask}
    BY <1>1 DEF IInv, Counters
  <2>2. CASE trained' = trained
    BY <2>1, <2>2
  <2>3. ASSUME NEW u \in Users, SendTrain(u) PROVE trained' \subseteq Opened' \cup {NoTask}
    <3>1. trained' \in {trained, trained \cup {project[u]}}
      BY <2>3 DEF SendTrain
    <3>2. project[u] \in Opened \cup {NoTask}
      BY ProjectOpened DEF IInv
    <3> QED
      BY <1>1, <2>1, <3>1, <3>2
  <2>4. (\E u \in Users : SendTrain(u)) \/ trained' = trained
    BY DEF Next, Workflow, Poll, Pay, ReadTaskId, InitializeRound, AddHistory, MarkRunning,
           Restart, DeleteProject, CheckStatus, FetchEvents, Complete, Execute, Revert,
           SubmitWeights, vars
  <2> QED
    BY <2>2, <2>3, <2>4
<1>3. Fault \/ UNCHANGED faults
  BY DEF Next, Workflow, Poll, Pay, ReadTaskId, FailsBefore, InitializeRound, AddHistory,
         SendTrain, MarkRunning, Restart, DeleteProject, CheckStatus, FetchEvents, Complete,
         Execute, Revert, SubmitWeights, vars, mishaps
<1>4. Misread \/ UNCHANGED misreads
  <2>1. ASSUME NEW u \in Users, NEW p, FetchEvents(u, p) PROVE Misread \/ UNCHANGED misreads
    BY <2>1, FetchedSome DEF Fetched
  <2> QED
    BY <2>1 DEF Next, Workflow, Poll, Pay, ReadTaskId, InitializeRound, AddHistory, SendTrain,
           MarkRunning, Restart, DeleteProject, CheckStatus, Complete, Execute,
           Revert, SubmitWeights, vars, mishaps
<1>5. Unconfirmed \/ UNCHANGED unconfirmed
  BY DEF Next, Workflow, Poll, Pay, ReadTaskId, InitializeRound, AddHistory, SendTrain,
         MarkRunning, Restart, DeleteProject, CheckStatus, FetchEvents, Complete, Execute,
         Revert, SubmitWeights, vars, mishaps
<1>6. faults' \in 0..MaxFaults
  BY <1>3, DashboardAssumption DEF Fault, IInv, Counters
<1>7. misreads' \in 0..MaxMisreads
  BY <1>4, DashboardAssumption DEF Misread, IInv, Counters
<1>8. unconfirmed' \in 0..MaxUnconfirmed
  BY <1>5, DashboardAssumption DEF Unconfirmed, IInv, Counters
<1>9. deleted' \in [Users -> SUBSET Ids]
  <2>1. ASSUME NEW u \in Users, DeleteProject(u) PROVE deleted' \in [Users -> SUBSET Ids]
    <3>1. PICK id \in IdsOf(u) : deleted' = [deleted EXCEPT ![u] = @ \cup {id}]
      BY <2>1 DEF DeleteProject
    <3>2. id \in Ids
      BY <3>1 DEF IdsOf, IInv, FileInv, FileTypes, FileRecord
    <3> QED
      BY <3>1, <3>2 DEF IInv, Counters
  <2>2. (\E u \in Users : DeleteProject(u)) \/ UNCHANGED deleted
    BY DEF Next, Workflow, Poll, Pay, ReadTaskId, InitializeRound, AddHistory, SendTrain,
           MarkRunning, Restart, CheckStatus, FetchEvents, Complete, Execute, Revert,
           SubmitWeights, vars, files
  <2> QED
    BY <2>1, <2>2 DEF IInv, Counters
<1> QED
  BY <1>2, <1>6, <1>7, <1>8, <1>9 DEF Counters

LEMMA NextHolds ==
  ASSUME IInv, [Next]_vars
  PROVE  IInv' /\ Grows /\ Kept
<1>1. Opening' /\ Grows
  BY NextEmits DEF IInv, Opening
<1>2. PayInv' /\ Kept
  BY NextPays DEF IInv
<1>3. FileInv'
  BY <1>1, <1>2, NextFiles DEF IInv, Known
<1>4. Counters'
  BY <1>1, NextCounters
<1> QED
  BY <1>1, <1>2, <1>3, <1>4 DEF IInv

LEMMA IInvHolds == Spec => []IInv
<1>1. IInv /\ [Next]_vars => IInv'
  BY NextHolds
<1> QED
  BY InitHolds, <1>1, PTL DEF Spec

(* TypeOK: a user goes on with the id of a task there is, or with none; a  *)
(* payment has one record in its user's file, and no record has more       *)
(* weights than the task has chunks (TrainingContext.tsx:212-243).         *)
THEOREM TypeCorrect == Spec => []TypeOK
<1>1. ASSUME IInv PROVE TypeOK
  <2>1. \A u \in Users : project[u] \in Opened \cup {NoTask}
    BY <1>1, ProjectOpened DEF IInv
  <2>2. ASSUME NEW u \in Users, NEW h \in history[u] PROVE h \in Records
    <3>1. h \in FileRecord /\ h.weights <= Weights(h.id) /\ h.id <= TaskCount
      BY <1>1 DEF IInv, FileInv, FileTypes, FiledFor, Shown
    <3>2. Weights(h.id) \in 0..NumChunks
      <4>1. CASE h.id \in Tasks
        BY <1>1, <4>1 DEF IInv, Opening, Emitted, TaskOf
      <4>2. CASE h.id \notin Tasks
        <5>1. h.id = 0
          BY <3>1, <4>2, DashboardAssumption DEF FileRecord, Ids, Tasks
        <5>2. 0 \notin Tasks \cup {OtherEvent}
          BY DashboardAssumption DEF Tasks, OtherEvent
        <5>3. log \in Seq(Tasks \cup {OtherEvent})
          BY <1>1 DEF IInv, Opening, Emitted
        <5>4. EventsIn(log, h.id) = {}
          <6>1. \A i \in 1..Len(log) : log[i] \in Tasks \cup {OtherEvent}
            BY <5>3
          <6> QED
            BY <5>1, <5>2, <6>1 DEF EventsIn
        <5> QED
          BY <5>4, FS_EmptySet, DashboardAssumption DEF Weights
      <4> QED
        BY <4>1, <4>2
    <3>3. h.weights \in 0..NumChunks
      <4> DEFINE w == Weights(h.id)
      <4>1. w \in 0..NumChunks /\ h.weights <= w
        BY <3>1, <3>2
      <4>2. h.weights \in Nat
        BY <3>1 DEF FileRecord
      <4> HIDE DEF w
      <4> QED
        BY <4>1, <4>2, DashboardAssumption
    <3> QED
      BY <3>1, <3>3 DEF FileRecord, Records
  <2>3. project \in [Users -> Opened \cup {NoTask}]
    BY <1>1, <2>1 DEF IInv, FileInv, FileTypes
  <2>4. \A u \in Users : \A g, h \in history[u] : g.payment = h.payment => g = h
    BY <1>1 DEF IInv, FileInv, FiledFor, OncePerPayment
  <2> QED
    BY <1>1, <2>2, <2>3, <2>4
       DEF IInv, Opening, Emitted, PayInv, PayTypes, Counters, TypeOK
<1> QED
  BY IInvHolds, <1>1, PTL

-----------------------------------------------------------------------------
(* No payment is forgotten: one that is not executed yet is still waited   *)
(* for by its workflow, or its workflow failed or took another id.         *)
Lost(k) == k \in failed \cup untimely

Recorded(u) == IdsOf(u) \cup deleted[u]

Remembered(t) ==
  \/ Lost(openedBy[t])
  \/ t \in Recorded(payer[openedBy[t]])
  \/ current[payer[openedBy[t]]] = openedBy[t] /\ step[payer[openedBy[t]]] = "paid"
  \/ /\ current[payer[openedBy[t]]] = openedBy[t]
     /\ step[payer[openedBy[t]]] \in {"named", "initialized"}
     /\ project[payer[openedBy[t]]] = t

Awaited(k) == \/ Lost(k)
              \/ current[payer[k]] = k /\ step[payer[k]] = "paid"

RemInv == (\A t \in Opened : Remembered(t)) /\ (\A k \in pending : Awaited(k))

LEMMA OpenedPayment ==
  ASSUME IInv, Kept, NEW t \in Opened
  PROVE  /\ openedBy[t] \in 1..sent /\ openedBy[t] \notin pending
         /\ payer[openedBy[t]] \in Users /\ openedBy'[t] = openedBy[t]
         /\ payer'[openedBy[t]] = payer[openedBy[t]]
  BY DEF IInv, PayInv, Paid, Kept

LEMMA PendingPayment ==
  ASSUME IInv, Kept, NEW k \in pending
  PROVE  k \in 1..sent /\ payer[k] \in Users /\ payer'[k] = payer[k]
  BY DEF IInv, PayInv, PayTypes, Paid, Kept

(* A step of user u's workflow. *)
LEMMA RememberedStep ==
  ASSUME IInv, Kept, RemInv, NEW u \in Users, Opened' = Opened,
         \A v \in Users : Recorded(v) \subseteq Recorded(v)',
         \A v \in Users : v # u => UNCHANGED <<current[v], step[v], project[v]>>,
         \A k \in pending' : k \notin pending => Awaited(k)',
         step[u] = "paid" =>
           \/ current[u] \in failed' \cup untimely'
           \/ current'[u] = current[u] /\ step'[u] = "paid"
           \/ /\ current'[u] = current[u] /\ step'[u] = "named" /\ current[u] \notin pending
              /\ \A t \in Opened : openedBy[t] = current[u] => project'[u] = t,
         step[u] \in {"named", "initialized"} =>
           \/ current[u] \in failed' \cup untimely'
           \/ /\ current'[u] = current[u] /\ step'[u] \in {"named", "initialized"}
              /\ project'[u] = project[u]
           \/ project[u] \in Recorded(u)'
  PROVE  RemInv'
<1>1. \A k : Lost(k) => Lost(k)'
  BY DEF Kept, Lost
<1>2. ASSUME NEW t \in Opened PROVE Remembered(t)'
  <2> DEFINE k == openedBy[t]
             v == payer[k]
  <2>1. v \in Users /\ openedBy'[t] = k /\ payer'[k] = v
    BY OpenedPayment
  <2>2. Remembered(t)
    BY DEF RemInv
  <2>3. CASE v # u
    BY <1>1, <2>1, <2>2, <2>3 DEF Remembered
  <2>4. CASE v = u
    <3>1. CASE Lost(k)
      BY <1>1, <2>1, <3>1 DEF Remembered
    <3>2. CASE t \in Recorded(v)
      BY <2>1, <3>2 DEF Remembered
    <3>3. CASE current[v] = k /\ step[v] = "paid"
      BY <2>1, <2>4, <3>3 DEF Remembered, Lost
    <3>4. CASE current[v] = k /\ step[v] \in {"named", "initialized"} /\ project[v] = t
      BY <2>1, <2>4, <3>4 DEF Remembered, Lost
    <3> QED
      BY <2>2, <3>1, <3>2, <3>3, <3>4 DEF Remembered
  <2> QED
    BY <2>3, <2>4
<1>3. ASSUME NEW k \in pending', k \in pending PROVE Awaited(k)'
  <2>1. payer[k] \in Users /\ payer'[k] = payer[k]
    BY <1>3, PendingPayment
  <2>2. Awaited(k)
    BY <1>3 DEF RemInv
  <2>3. CASE Lost(k)
    BY <2>3 DEF Awaited, Lost, Kept
  <2>4. CASE current[payer[k]] = k /\ step[payer[k]] = "paid"
    BY <1>3, <2>1, <2>4 DEF Awaited, Lost
  <2> QED
    BY <2>2, <2>3, <2>4 DEF Awaited
<1> QED
  BY <1>2, <1>3 DEF RemInv

LEMMA SameWorkflow ==
  ASSUME IInv, Kept, RemInv, Opened' = Opened, pending' \subseteq pending,
         UNCHANGED workflow, \A v \in Users : Recorded(v) \subseteq Recorded(v)'
  PROVE  RemInv'
<1>1. \A k : Lost(k) => Lost(k)'
  BY DEF Kept, Lost
<1>2. ASSUME NEW t \in Opened PROVE Remembered(t)'
  <2>1. Remembered(t)
    BY DEF RemInv
  <2> QED
    BY <1>1, <2>1, OpenedPayment DEF Remembered, workflow
<1>3. ASSUME NEW k \in pending PROVE Awaited(k)'
  <2>1. Awaited(k)
    BY DEF RemInv
  <2> QED
    BY <1>1, <2>1, PendingPayment DEF Awaited, workflow
<1> QED
  BY <1>2, <1>3 DEF RemInv

LEMMA ExecuteRemembered ==
  ASSUME IInv, Kept, RemInv, NEW k, Execute(k)
  PROVE  RemInv'
<1>1. PICK t \in Tasks : Contract!Open(t, NumChunks) /\ openedBy' = [openedBy EXCEPT ![t] = k]
  BY DEF Execute
<1>2. Opened' = Opened \cup {t}
  BY <1>1, OpenCounts DEF IInv, Opening
<1>3. /\ k \in pending /\ pending' \subseteq pending /\ UNCHANGED <<workflow, files, payer>>
  BY DEF Execute
<1>4. openedBy'[t] = k
  BY <1>1 DEF IInv, PayInv, PayTypes
<1>5. \A j : Lost(j) => Lost(j)'
  BY DEF Kept, Lost
<1>6. \A v : Recorded(v)' = Recorded(v)
  BY <1>3 DEF Recorded, IdsOf, files
<1>7. ASSUME NEW j \in pending PROVE Awaited(j)'
  <2>1. Awaited(j)
    BY DEF RemInv
  <2> QED
    BY <1>3, <1>5, <2>1 DEF Awaited, workflow
<1>8. Remembered(t)'
  <2>1. Awaited(k)'
    BY <1>3, <1>7
  <2> QED
    BY <1>4, <2>1 DEF Remembered, Awaited
<1>9. ASSUME NEW s \in Opened PROVE Remembered(s)'
  <2>1. Remembered(s)
    BY DEF RemInv
  <2> QED
    BY <1>3, <1>5, <1>6, <2>1, OpenedPayment DEF Remembered, workflow
<1> QED
  BY <1>2, <1>3, <1>7, <1>8, <1>9 DEF RemInv

LEMMA IdsUpdated ==
  ASSUME IInv, NEW u \in Users, NEW id \in Ids, NEW status \in Statuses, NEW weights \in Nat,
         history' = [history EXCEPT ![u] = Updated(history[u], id, status, weights)],
         UNCHANGED deleted
  PROVE  \A v \in Users : Recorded(v) \subseteq Recorded(v)'
<1>1. history[u] \in SUBSET FileRecord /\ OncePerPayment(history[u])
  BY UserFiled DEF IInv
<1> DEFINE U == Updated(history[u], id, status, weights)
<1>2. \A h \in history[u] : \E y \in U : y.id = h.id
  BY <1>1, UpdatedRecords DEF ChangedFrom
<1> HIDE DEF U
<1>3. history'[u] = U /\ \A v \in Users : v # u => history'[v] = history[v]
  BY DEF IInv, FileInv, FileTypes, U
<1> QED
  BY <1>2, <1>3 DEF Recorded, IdsOf

(* Reading the number of tasks in time finds the own task. *)
LEMMA TimelyRead ==
  ASSUME IInv, NEW u \in Users, OpenedBy(current[u]) \cap Newest # {}
  PROVE  /\ TaskCount \in Opened /\ openedBy[TaskCount] = current[u]
         /\ current[u] \notin pending
         /\ \A t \in Opened : openedBy[t] = current[u] => t = TaskCount
<1>1. TaskCount \in Nat /\ Opened = 1..TaskCount
  BY DEF IInv, Opening, InOrder
<1>2. PICK t \in OpenedBy(current[u]) : t \in Newest
  OBVIOUS
<1>3. t \in Opened /\ openedBy[t] = current[u] /\ \A s \in Opened : s <= t
  BY <1>2 DEF OpenedBy, Newest
<1>4. t = TaskCount
  BY <1>1, <1>3
<1> QED
  BY <1>3, <1>4 DEF IInv, PayInv, Paid

LEMMA SameOpened ==
  ASSUME UNCHANGED phase
  PROVE  Opened' = Opened
  BY DEF Opened

LEMMA NextRemembered ==
  ASSUME IInv, Kept, RemInv, [Next]_vars
  PROVE  RemInv'
<1>1. ASSUME UNCHANGED files PROVE \A v \in Users : Recorded(v) \subseteq Recorded(v)'
  BY <1>1 DEF files, Recorded, IdsOf
<1>2. ASSUME NEW u \in Users, Pay(u) PROVE RemInv'
  <2>1. /\ step[u] = "payment" /\ sent' = sent + 1 /\ pending' = pending \cup {sent'}
        /\ payer' = [payer EXCEPT ![sent'] = u] /\ sent < MaxPayments
        /\ current' = [current EXCEPT ![u] = sent']
        /\ UNCHANGED <<phase, project, files>>
        /\ \/ step' = [step EXCEPT ![u] = "paid"]
           \/ step' = step /\ failed' = failed \cup {sent'}
    BY <1>2 DEF Pay, Goes, contract
  <2>2. sent' \in Payments
    BY <2>1, DashboardAssumption DEF IInv, PayInv, PayTypes, Payments
  <2>3. payer'[sent'] = u /\ current'[u] = sent'
    BY <2>1, <2>2 DEF IInv, PayInv, PayTypes
  <2>4. step'[u] = "paid" \/ sent' \in failed'
    BY <2>1 DEF IInv, PayInv, PayTypes
  <2>5. Awaited(sent)'
    BY <2>3, <2>4 DEF Awaited, Lost
  <2>6. \A v \in Users : v # u => UNCHANGED <<current[v], step[v], project[v]>>
    BY <2>1 DEF IInv, PayInv, PayTypes
  <2>7. \A k \in pending' : k \notin pending => Awaited(k)'
    BY <2>1, <2>5 DEF Awaited, Lost
  <2> QED
    BY <1>1, <2>1, <2>6, <2>7, RememberedStep, SameOpened
<1>3. ASSUME NEW u \in Users, ReadTaskId(u) PROVE RemInv'
  <2>1. /\ step[u] = "paid" /\ UNCHANGED <<phase, pending, files, current>>
        /\ \/ /\ step' = [step EXCEPT ![u] = "named"]
              /\ project' = [project EXCEPT ![u] = TaskCount]
              /\ OpenedBy(current[u]) \cap Newest = {} => current[u] \in untimely'
           \/ /\ step' = [step EXCEPT ![u] = "payment"] /\ project' = project
              /\ current[u] \in failed'
    BY <1>3 DEF ReadTaskId, FailsBefore, Goes, contract, payments
  <2>2. \A v \in Users : v # u => UNCHANGED <<current[v], step[v], project[v]>>
    BY <2>1 DEF IInv, PayInv, PayTypes, FileInv, FileTypes
  <2>3. \/ current[u] \in failed' \cup untimely'
        \/ /\ current'[u] = current[u] /\ step'[u] = "named" /\ current[u] \notin pending
           /\ \A t \in Opened : openedBy[t] = current[u] => project'[u] = t
    <3>1. CASE OpenedBy(current[u]) \cap Newest # {} /\ step' = [step EXCEPT ![u] = "named"]
      <4>1. /\ current[u] \notin pending
            /\ \A t \in Opened : openedBy[t] = current[u] => t = TaskCount
        BY <3>1, TimelyRead
      <4>2. step'[u] = "named"
        BY <3>1 DEF IInv, PayInv, PayTypes
      <4>3. project' = [project EXCEPT ![u] = TaskCount] \/ current[u] \in failed'
        BY <2>1
      <4>4. project'[u] = TaskCount \/ current[u] \in failed'
        BY <4>3 DEF IInv, FileInv, FileTypes
      <4> QED
        BY <2>1, <4>1, <4>2, <4>4
    <3> QED
      BY <2>1, <3>1
  <2> QED
    BY <1>1, <2>1, <2>2, <2>3, RememberedStep, SameOpened
<1>4. ASSUME NEW u \in Users, InitializeRound(u) PROVE RemInv'
  <2>1. /\ step[u] = "named" /\ UNCHANGED <<phase, pending, files, current, project>>
        /\ \/ step' = [step EXCEPT ![u] = "initialized"]
           \/ step' = [step EXCEPT ![u] = "payment"] /\ current[u] \in failed'
    BY <1>4 DEF InitializeRound, FailsBefore, Goes, contract, payments
  <2>2. /\ step'[u] = "initialized" \/ current[u] \in failed'
        /\ \A v \in Users : v # u => step'[v] = step[v]
    BY <2>1 DEF IInv, PayInv, PayTypes
  <2> QED
    BY <1>1, <2>1, <2>2, RememberedStep, SameOpened
<1>5. ASSUME NEW u \in Users, AddHistory(u) PROVE RemInv'
  <2>1. /\ step[u] = "initialized" /\ step' = [step EXCEPT ![u] = "assembling"]
        /\ UNCHANGED <<phase, pending, deleted, current, project>>
        /\ history' = [history EXCEPT ![u] =
             history[u] \cup {Record(current[u], project[u], "Initialized", 0)}]
    BY <1>5 DEF AddHistory, Goes, contract, payments
  <2>2. \A v \in Users : v # u => step'[v] = step[v]
    BY <2>1 DEF IInv, PayInv, PayTypes
  <2>3. /\ history'[u] = history[u] \cup {Record(current[u], project[u], "Initialized", 0)}
        /\ \A v \in Users : v # u => history'[v] = history[v]
    BY <2>1 DEF IInv, FileInv, FileTypes
  <2>4. \A v \in Users : Recorded(v) \subseteq Recorded(v)'
    BY <2>1, <2>3 DEF Recorded, IdsOf
  <2>5. project[u] \in Recorded(u)'
    <3> DEFINE r == Record(current[u], project[u], "Initialized", 0)
    <3>1. r.id = project[u]
      BY DEF Record
    <3>2. r \in history'[u]
      BY <2>3
    <3> HIDE DEF r
    <3> QED
      BY <3>1, <3>2 DEF Recorded, IdsOf
  <2> QED
    BY <2>1, <2>2, <2>4, <2>5, RememberedStep, SameOpened
<1>6. ASSUME NEW u \in Users, SendTrain(u) PROVE RemInv'
  <2>1. /\ step[u] = "assembling" /\ UNCHANGED <<phase, pending, files, current, project>>
        /\ step' \in {step, [step EXCEPT ![u] = "started"]}
    BY <1>6 DEF SendTrain, Goes, contract, payments
  <2>2. \A v \in Users : v # u => step'[v] = step[v]
    BY <2>1 DEF IInv, PayInv, PayTypes
  <2> QED
    BY <1>1, <2>1, <2>2, RememberedStep, SameOpened
<1>7. ASSUME NEW u \in Users, MarkRunning(u) PROVE RemInv'
  <2>1. /\ step[u] = "started" /\ step' = [step EXCEPT ![u] = "training"]
        /\ UNCHANGED <<phase, pending, deleted, current, project>>
        /\ history' = [history EXCEPT ![u] = Updated(history[u], project[u], "Running", 0)]
    BY <1>7 DEF MarkRunning, Goes, contract, payments
  <2>2. \A v \in Users : v # u => step'[v] = step[v]
    BY <2>1 DEF IInv, PayInv, PayTypes
  <2>3. project[u] \in Ids /\ "Running" \in Statuses
    BY DEF IInv, FileInv, FileTypes, Statuses
  <2>4. \A v \in Users : Recorded(v) \subseteq Recorded(v)'
    BY <2>1, <2>3, IdsUpdated
  <2> QED
    BY <2>1, <2>2, <2>4, RememberedStep, SameOpened
<1>8. ASSUME NEW u \in Users, Restart(u) PROVE RemInv'
  <2>1. /\ step' = [step EXCEPT ![u] = "payment"]
        /\ UNCHANGED <<phase, pending, files, current, project>>
        /\ step[u] \in BeforeTheFile => current[u] \in failed'
    BY <1>8 DEF Restart, Goes, contract, payments
  <2>2. \A v \in Users : v # u => step'[v] = step[v]
    BY <2>1 DEF IInv, PayInv, PayTypes
  <2> QED
    BY <1>1, <2>1, <2>2, RememberedStep, SameOpened DEF BeforeTheFile
<1>9. ASSUME NEW u \in Users, DeleteProject(u) PROVE RemInv'
  <2>1. PICK id \in IdsOf(u) :
          /\ history' = [history EXCEPT ![u] = {h \in history[u] : h.id # id}]
          /\ deleted' = [deleted EXCEPT ![u] = @ \cup {id}]
    BY <1>9 DEF DeleteProject
  <2>2. UNCHANGED <<phase, pending, workflow>>
    BY <1>9 DEF DeleteProject, contract, payments
  <2>3. /\ history'[u] = {h \in history[u] : h.id # id} /\ deleted'[u] = deleted[u] \cup {id}
        /\ \A v \in Users : v # u => history'[v] = history[v] /\ deleted'[v] = deleted[v]
    BY <2>1 DEF IInv, FileInv, FileTypes, Counters
  <2>4. \A v \in Users : Recorded(v) \subseteq Recorded(v)'
    BY <2>3 DEF Recorded, IdsOf
  <2> QED
    BY <2>2, <2>4, SameWorkflow, SameOpened
<1>10. ASSUME NEW u \in Users, NEW p \in polls[u], Complete(u, p) PROVE RemInv'
  <2>1. /\ UNCHANGED <<phase, pending, workflow, deleted>>
        /\ history' = [history EXCEPT ![u] = Updated(history[u], p.id, "Completed", p.found)]
    BY <1>10 DEF Complete, contract, payments
  <2>2. p.id \in Ids /\ p.found \in Nat /\ "Completed" \in Statuses
    BY DEF IInv, FileInv, FileTypes, PollRecord, Statuses
  <2>3. \A v \in Users : Recorded(v) \subseteq Recorded(v)'
    BY <2>1, <2>2, IdsUpdated
  <2> QED
    BY <2>1, <2>3, SameWorkflow, SameOpened
<1>11. ASSUME NEW u \in Users, NEW p, CheckStatus(u, p) \/ FetchEvents(u, p) PROVE RemInv'
  <2>1. UNCHANGED <<phase, pending, workflow, files>>
    BY <1>11 DEF CheckStatus, FetchEvents, contract, payments
  <2> QED
    BY <1>1, <2>1, SameWorkflow, SameOpened
<1>12. ASSUME NEW k, Revert(k) PROVE RemInv'
  <2>1. UNCHANGED <<phase, workflow, files>> /\ pending' \subseteq pending
    BY <1>12 DEF Revert, contract
  <2> QED
    BY <1>1, <2>1, SameWorkflow, SameOpened
<1>13. ASSUME NEW t \in Tasks, SubmitWeights(t) PROVE RemInv'
  <2>1. UNCHANGED <<pending, workflow, files>> /\ Opened' = Opened
    BY <1>13, SubmitEmits DEF SubmitWeights, payments, IInv, Opening
  <2> QED
    BY <1>1, <2>1, SameWorkflow
<1>14. CASE UNCHANGED vars
  <2>1. UNCHANGED <<phase, pending, workflow, files>>
    BY <1>14 DEF vars, contract, payments
  <2> QED
    BY <1>1, <2>1, SameWorkflow, SameOpened
<1> QED
  BY <1>2, <1>3, <1>4, <1>5, <1>6, <1>7, <1>8, <1>9, <1>10, <1>11, <1>12, <1>13, <1>14,
     ExecuteRemembered DEF Next, Workflow, Poll

(* NoPaymentForgotten: for any number of users, failures and late or       *)
(* reverted transactions, only a failure before the file is written and an *)
(* id read too early or too late lose a payment (TrainingContext.tsx:213). *)
THEOREM PaymentsRemembered == Spec => []NoPaymentForgotten
<1>1. Init => RemInv
  BY DEF Init, Contract!Init, RemInv, Opened
<1>2. IInv /\ RemInv /\ [Next]_vars => RemInv'
  BY NextHolds, NextRemembered
<1>3. RemInv => NoPaymentForgotten
  BY DEF RemInv, Remembered, Lost, Recorded, NoPaymentForgotten
<1> QED
  BY <1>1, <1>2, <1>3, IInvHolds, PTL DEF Spec

-----------------------------------------------------------------------------
(* A user whose payments were all named in time: a record is of the task   *)
(* its payment opened, and until its training has started no poll knows    *)
(* the workflow's own project.                                             *)
OwnRecords(u) == \A h \in history[u] : h.id \in Opened /\ openedBy[h.id] = h.payment

OwnProject(u) ==
  step[u] \in {"named", "initialized", "assembling", "started", "training"} =>
    project[u] \in Opened /\ openedBy[project[u]] = current[u]

NotStarted(u) ==
  step[u] \in {"assembling", "started"} =>
    \A h \in history[u] : h.payment = current[u] => h.status = "Initialized"

PollsBehind(u) ==
  \A p \in polls[u] : /\ p.id \in Opened
                      /\ openedBy[p.id] = current[u] => step[u] \in {"payment", "training"}

TimelyFor(u) == OwnRecords(u) /\ OwnProject(u) /\ NotStarted(u) /\ PollsBehind(u)

TimelyInv == \A u \in Users : ~Mistaken(u) => TimelyFor(u)

LEMMA StaysMistaken ==
  ASSUME IInv, Kept, NEW u
  PROVE  Mistaken(u) => Mistaken(u)'
<1>1. \A k \in untimely : k \in untimely' /\ payer'[k] = payer[k]
  BY DEF IInv, PayInv, PayTypes, Kept
<1> QED
  BY <1>1 DEF Mistaken

LEMMA StillOpen ==
  ASSUME Kept, Grows
  PROVE  \A t \in Opened : t \in Opened' /\ openedBy'[t] = openedBy[t]
  BY DEF Kept, Grows

LEMMA SameTimely ==
  ASSUME IInv, Kept, Grows, TimelyInv, NEW u \in Users, ~Mistaken(u)',
         UNCHANGED <<step[u], current[u], project[u], history[u], polls[u]>>
  PROVE  TimelyFor(u)'
<1>1. TimelyFor(u)
  BY StaysMistaken DEF TimelyInv
<1>2. OwnRecords(u)'
  BY <1>1, StillOpen DEF TimelyFor, OwnRecords
<1>3. OwnProject(u)'
  BY <1>1, StillOpen DEF TimelyFor, OwnProject
<1>4. NotStarted(u)'
  BY <1>1 DEF TimelyFor, NotStarted
<1>5. PollsBehind(u)'
  BY <1>1, StillOpen DEF TimelyFor, PollsBehind
<1> QED
  BY <1>2, <1>3, <1>4, <1>5 DEF TimelyFor

LEMMA OthersTimely ==
  ASSUME IInv, Kept, Grows, TimelyInv, NEW u \in Users, ~Mistaken(u)' => TimelyFor(u)',
         \A v \in Users : v # u =>
           UNCHANGED <<step[v], current[v], project[v], history[v], polls[v]>>
  PROVE  TimelyInv'
<1>1. ASSUME NEW v \in Users, v # u, ~Mistaken(v)' PROVE TimelyFor(v)'
  BY <1>1, SameTimely
<1> QED
  BY <1>1 DEF TimelyInv

LEMMA IdleTimely ==
  ASSUME IInv, Kept, Grows, TimelyInv, UNCHANGED <<workflow, history, polls>>
  PROVE  TimelyInv'
<1>1. ASSUME NEW v \in Users, ~Mistaken(v)' PROVE TimelyFor(v)'
  BY <1>1, SameTimely DEF workflow
<1> QED
  BY <1>1 DEF TimelyInv

(* A step of a workflow that leaves the files and polls alone. *)
LEMMA MoveTimely ==
  ASSUME IInv, Kept, Grows, TimelyInv, NEW u \in Users, UNCHANGED <<history, polls, project>>,
         UNCHANGED current, NEW next \in Steps, step' = [step EXCEPT ![u] = next],
         next \in {"named", "initialized", "assembling", "started"} =>
           step[u] \in {"named", "initialized", "assembling", "started"},
         next # "training",
         next \in {"assembling", "started"} => step[u] \in {"assembling", "started"},
         step[u] \in {"payment", "training"} => next \in {"payment", "training"}
  PROVE  TimelyInv'
<1>1. step'[u] = next /\ \A v \in Users : v # u => step'[v] = step[v]
  BY DEF IInv, PayInv, PayTypes
<1>2. ASSUME ~Mistaken(u)' PROVE TimelyFor(u)'
  <2>1. TimelyFor(u)
    BY <1>2, StaysMistaken DEF TimelyInv
  <2>2. OwnRecords(u)'
    BY <2>1, StillOpen DEF TimelyFor, OwnRecords
  <2>3. OwnProject(u)'
    BY <1>1, <2>1, StillOpen DEF TimelyFor, OwnProject
  <2>4. NotStarted(u)'
    BY <1>1, <2>1 DEF TimelyFor, NotStarted
  <2>5. PollsBehind(u)'
    BY <1>1, <2>1, StillOpen DEF TimelyFor, PollsBehind
  <2> QED
    BY <2>2, <2>3, <2>4, <2>5 DEF TimelyFor
<1> QED
  BY <1>1, <1>2, OthersTimely

LEMMA PayTimely ==
  ASSUME IInv, Kept, Grows, TimelyInv, NEW u \in Users, Pay(u)
  PROVE  TimelyInv'
<1>1. /\ step[u] = "payment" /\ current' = [current EXCEPT ![u] = sent + 1]
      /\ step' \in {step, [step EXCEPT ![u] = "paid"]}
      /\ UNCHANGED <<project, history, polls>>
  BY DEF Pay, Goes, files
<1>2. /\ step'[u] \in {"payment", "paid"} /\ current'[u] = sent + 1
      /\ \A v \in Users : v # u => UNCHANGED <<step[v], current[v]>>
  BY <1>1 DEF IInv, PayInv, PayTypes
<1>3. ASSUME ~Mistaken(u)' PROVE TimelyFor(u)'
  <2>1. TimelyFor(u)
    BY <1>3, StaysMistaken DEF TimelyInv
  <2>2. OwnRecords(u)'
    BY <1>1, <2>1, StillOpen DEF TimelyFor, OwnRecords
  <2>3. OwnProject(u)' /\ NotStarted(u)'
    BY <1>2 DEF OwnProject, NotStarted
  <2>4. \A t \in Opened : openedBy'[t] # sent + 1
    <3>1. \A t \in Opened : openedBy'[t] \in 1..sent
      BY OpenedPayment
    <3>2. sent \in Nat
      BY DEF Kept
    <3> QED
      BY <3>1, <3>2
  <2>5. PollsBehind(u)'
    BY <1>1, <1>2, <2>1, <2>4, StillOpen DEF TimelyFor, PollsBehind
  <2> QED
    BY <2>2, <2>3, <2>5 DEF TimelyFor
<1> QED
  BY <1>1, <1>2, <1>3, OthersTimely

LEMMA ReadTaskIdTimely ==
  ASSUME IInv, Kept, Grows, TimelyInv, NEW u \in Users, ReadTaskId(u)
  PROVE  TimelyInv'
<1>1. /\ step[u] = "paid" /\ UNCHANGED <<history, polls, current>>
      /\ \/ /\ step' = [step EXCEPT ![u] = "named"]
            /\ project' = [project EXCEPT ![u] = TaskCount]
            /\ OpenedBy(current[u]) \cap Newest = {} => current[u] \in untimely'
         \/ /\ step' = [step EXCEPT ![u] = "payment"] /\ project' = project
  BY DEF ReadTaskId, FailsBefore, Goes, files
<1>2. CASE step' = [step EXCEPT ![u] = "payment"] /\ project' = project
  BY <1>1, <1>2, MoveTimely DEF Steps
<1>3. CASE /\ step' = [step EXCEPT ![u] = "named"]
           /\ project' = [project EXCEPT ![u] = TaskCount]
           /\ OpenedBy(current[u]) \cap Newest = {} => current[u] \in untimely'
  <2>1. /\ step'[u] = "named" /\ project'[u] = TaskCount
        /\ \A v \in Users : v # u => step'[v] = step[v] /\ project'[v] = project[v]
    BY <1>3 DEF IInv, PayInv, PayTypes, FileInv, FileTypes
  <2>2. ASSUME ~Mistaken(u)' PROVE TimelyFor(u)'
    <3>1. TimelyFor(u)
      BY <2>2, StaysMistaken DEF TimelyInv
    <3>2. payer'[current[u]] = u
      <4>1. current[u] \in 1..sent /\ payer[current[u]] = u
        BY <1>1, DashboardAssumption DEF IInv, PayInv, PayTypes, Current, NoPayment
      <4> QED
        BY <4>1 DEF Kept
    <3>3. OpenedBy(current[u]) \cap Newest # {}
      BY <1>3, <2>2, <3>2 DEF Mistaken
    <3>4. TaskCount \in Opened /\ openedBy[TaskCount] = current[u]
      BY <3>3, TimelyRead
    <3>5. OwnRecords(u)'
      BY <1>1, <3>1, StillOpen DEF TimelyFor, OwnRecords
    <3>6. OwnProject(u)'
      BY <1>1, <2>1, <3>4, StillOpen DEF OwnProject
    <3>7. NotStarted(u)'
      BY <2>1 DEF NotStarted
    <3>8. PollsBehind(u)'
      BY <1>1, <2>1, <3>1, StillOpen DEF TimelyFor, PollsBehind
    <3> QED
      BY <3>5, <3>6, <3>7, <3>8 DEF TimelyFor
  <2> QED
    BY <1>1, <2>1, <2>2, OthersTimely
<1> QED
  BY <1>1, <1>2, <1>3

LEMMA AddHistoryTimely ==
  ASSUME IInv, Kept, Grows, TimelyInv, NEW u \in Users, AddHistory(u)
  PROVE  TimelyInv'
<1> DEFINE r == Record(current[u], project[u], "Initialized", 0)
<1>1. /\ step[u] = "initialized" /\ step' = [step EXCEPT ![u] = "assembling"]
      /\ UNCHANGED <<project, current, polls>>
      /\ history' = [history EXCEPT ![u] = history[u] \cup {r}]
  BY DEF AddHistory, Goes
<1>2. /\ step'[u] = "assembling" /\ history'[u] = history[u] \cup {r}
      /\ \A v \in Users : v # u => step'[v] = step[v] /\ history'[v] = history[v]
  BY <1>1 DEF IInv, PayInv, PayTypes, FileInv, FileTypes
<1>3. r.payment = current[u] /\ r.id = project[u] /\ r.status = "Initialized"
  BY DEF Record
<1> HIDE DEF r
<1>4. ASSUME ~Mistaken(u)' PROVE TimelyFor(u)'
  <2>1. TimelyFor(u)
    BY <1>4, StaysMistaken DEF TimelyInv
  <2>2. project[u] \in Opened /\ openedBy[project[u]] = current[u]
    BY <1>1, <2>1 DEF TimelyFor, OwnProject
  <2>3. OwnRecords(u)'
    BY <1>2, <1>3, <2>1, <2>2, StillOpen DEF TimelyFor, OwnRecords
  <2>4. OwnProject(u)'
    BY <1>1, <2>2, StillOpen DEF OwnProject
  <2>5. NotStarted(u)'
    <3>1. \A h \in history[u] : h.payment # current[u]
      BY <1>1 DEF IInv, FileInv, FiledFor, BeforeTheFile
    <3> QED
      BY <1>1, <1>2, <1>3, <3>1 DEF NotStarted
  <2>6. PollsBehind(u)'
    BY <1>1, <2>1, StillOpen DEF TimelyFor, PollsBehind
  <2> QED
    BY <2>3, <2>4, <2>5, <2>6 DEF TimelyFor
<1> QED
  BY <1>1, <1>2, <1>4, OthersTimely

LEMMA MarkRunningTimely ==
  ASSUME IInv, Kept, Grows, TimelyInv, NEW u \in Users, MarkRunning(u)
  PROVE  TimelyInv'
<1> DEFINE U == Updated(history[u], project[u], "Running", 0)
<1>1. /\ step' = [step EXCEPT ![u] = "training"] /\ UNCHANGED <<project, current, polls>>
      /\ history' = [history EXCEPT ![u] = U]
      /\ step[u] = "started"
  BY DEF MarkRunning, Goes
<1>2. \A y \in U : \E h \in history[u] : y.payment = h.payment /\ y.id = h.id
  <2>1. project[u] \in Ids /\ "Running" \in Statuses /\ history[u] \in SUBSET FileRecord
        /\ OncePerPayment(history[u])
    BY UserFiled DEF IInv, Statuses
  <2> QED
    BY <2>1, UpdatedRecords DEF ChangedFrom
<1> HIDE DEF U
<1>3. /\ step'[u] = "training" /\ history'[u] = U
      /\ \A v \in Users : v # u => step'[v] = step[v] /\ history'[v] = history[v]
  BY <1>1 DEF IInv, PayInv, PayTypes, FileInv, FileTypes
<1>4. ASSUME ~Mistaken(u)' PROVE TimelyFor(u)'
  <2>1. TimelyFor(u)
    BY <1>4, StaysMistaken DEF TimelyInv
  <2>2. OwnRecords(u)'
    BY <1>2, <1>3, <2>1, StillOpen DEF TimelyFor, OwnRecords
  <2>3. OwnProject(u)' /\ NotStarted(u)'
    BY <1>1, <1>3, <2>1, StillOpen DEF TimelyFor, OwnProject, NotStarted
  <2>4. PollsBehind(u)'
    BY <1>1, <1>3, <2>1, StillOpen DEF TimelyFor, PollsBehind
  <2> QED
    BY <2>2, <2>3, <2>4 DEF TimelyFor
<1> QED
  BY <1>1, <1>3, <1>4, OthersTimely

LEMMA RestartTimely ==
  ASSUME IInv, Kept, Grows, TimelyInv, NEW u \in Users, Restart(u)
  PROVE  TimelyInv'
<1>1. /\ step' = [step EXCEPT ![u] = "payment"] /\ polls' = [polls EXCEPT ![u] = {}]
      /\ UNCHANGED <<project, current, history>>
  BY DEF Restart, Goes, files
<1>2. /\ step'[u] = "payment" /\ polls'[u] = {}
      /\ \A v \in Users : v # u => step'[v] = step[v] /\ polls'[v] = polls[v]
  BY <1>1 DEF IInv, PayInv, PayTypes, FileInv, FileTypes
<1>3. ASSUME ~Mistaken(u)' PROVE TimelyFor(u)'
  <2>1. TimelyFor(u)
    BY <1>3, StaysMistaken DEF TimelyInv
  <2>2. OwnRecords(u)'
    BY <1>1, <2>1, StillOpen DEF TimelyFor, OwnRecords
  <2> QED
    BY <1>2, <2>2 DEF TimelyFor, OwnProject, NotStarted, PollsBehind
<1> QED
  BY <1>1, <1>2, <1>3, OthersTimely

LEMMA DeleteTimely ==
  ASSUME IInv, Kept, Grows, TimelyInv, NEW u \in Users, DeleteProject(u)
  PROVE  TimelyInv' /\ \A v \in Users : history'[v] \subseteq history[v]
<1>1. PICK id \in IdsOf(u) : history' = [history EXCEPT ![u] = {h \in history[u] : h.id # id}]
  BY DEF DeleteProject
<1>2. UNCHANGED <<project, current, step, polls>>
  BY DEF DeleteProject, workflow
<1>3. /\ history'[u] \subseteq history[u]
      /\ \A v \in Users : v # u => history'[v] = history[v]
  BY <1>1 DEF IInv, FileInv, FileTypes
<1>4. ASSUME ~Mistaken(u)' PROVE TimelyFor(u)'
  <2>1. TimelyFor(u)
    BY <1>4, StaysMistaken DEF TimelyInv
  <2>2. OwnRecords(u)' /\ NotStarted(u)'
    BY <1>2, <1>3, <2>1, StillOpen DEF TimelyFor, OwnRecords, NotStarted
  <2>3. OwnProject(u)' /\ PollsBehind(u)'
    BY <1>2, <2>1, StillOpen DEF TimelyFor, OwnProject, PollsBehind
  <2> QED
    BY <2>2, <2>3 DEF TimelyFor
<1> QED
  BY <1>2, <1>3, <1>4, OthersTimely

(* Polls of the ids there were, and of a running project. *)
LEMMA PollTimely ==
  ASSUME IInv, Kept, Grows, TimelyInv, NEW u \in Users, UNCHANGED <<workflow, history>>,
         \A v \in Users : v # u => polls'[v] = polls[v],
         \A q \in polls'[u] : \/ \E p \in polls[u] : q.id = p.id
                              \/ \E h \in history[u] : q.id = h.id /\ h.status = "Running"
  PROVE  TimelyInv'
<1>1. ASSUME ~Mistaken(u)' PROVE TimelyFor(u)'
  <2>1. TimelyFor(u)
    BY <1>1, StaysMistaken DEF TimelyInv
  <2>2. OwnRecords(u)' /\ NotStarted(u)'
    BY <2>1, StillOpen DEF TimelyFor, OwnRecords, NotStarted, workflow
  <2>3. OwnProject(u)'
    BY <2>1, StillOpen DEF TimelyFor, OwnProject, workflow
  <2>4. PollsBehind(u)'
    <3> SUFFICES ASSUME NEW q \in polls'[u]
                 PROVE  /\ q.id \in Opened'
                        /\ openedBy'[q.id] = current[u] => step[u] \in {"payment", "training"}
      BY DEF PollsBehind, workflow
    <3>1. CASE \E p \in polls[u] : q.id = p.id
      BY <2>1, <3>1, StillOpen DEF TimelyFor, PollsBehind
    <3>2. ASSUME NEW h \in history[u], q.id = h.id, h.status = "Running"
          PROVE  /\ q.id \in Opened'
                 /\ openedBy'[q.id] = current[u] => step[u] \in {"payment", "training"}
      <4>1. h.id \in Opened /\ openedBy[h.id] = h.payment
        BY <2>1 DEF TimelyFor, OwnRecords
      <4>2. h.payment = current[u] => step[u] \notin {"assembling", "started"}
        BY <2>1, <3>2 DEF TimelyFor, NotStarted
      <4>3. h.payment = current[u] => step[u] \notin {"paid", "named", "initialized"}
        BY UserFiled DEF IInv, FiledFor, BeforeTheFile
      <4>4. step[u] \in Steps
        BY DEF IInv, PayInv, PayTypes
      <4> QED
        BY <3>2, <4>1, <4>2, <4>3, <4>4, StillOpen DEF Steps
    <3> QED
      BY <3>1, <3>2
  <2> QED
    BY <2>2, <2>3, <2>4 DEF TimelyFor
<1> QED
  BY <1>1, OthersTimely DEF workflow

LEMMA CheckStatusTimely ==
  ASSUME IInv, Kept, Grows, TimelyInv, NEW u \in Users, NEW h \in history[u], CheckStatus(u, h)
  PROVE  TimelyInv'
<1>1. /\ UNCHANGED <<workflow, history>> /\ h.status = "Running"
      /\ polls' = [polls EXCEPT ![u] = @ \cup {[id |-> h.id, found |-> 0]}]
  BY DEF CheckStatus, files, Polled
<1>2. /\ polls'[u] = polls[u] \cup {[id |-> h.id, found |-> 0]}
      /\ \A v \in Users : v # u => polls'[v] = polls[v]
  BY <1>1 DEF IInv, FileInv, FileTypes
<1> QED
  BY <1>1, <1>2, PollTimely

LEMMA FetchEventsTimely ==
  ASSUME IInv, Kept, Grows, TimelyInv, NEW u \in Users, NEW p \in polls[u], FetchEvents(u, p)
  PROVE  TimelyInv'
<1>1. PICK n \in 0..Len(log) : Fetched(u, p, n)
  BY FetchedSome
<1>2. UNCHANGED <<workflow, history>>
  BY DEF FetchEvents, files
<1> DEFINE r == [id |-> p.id, found |-> Cardinality(EventsOf(p.id, Page(n)))]
<1>3. /\ polls'[u] \subseteq polls[u] \cup {r}
      /\ \A v \in Users : v # u => polls'[v] = polls[v]
  BY <1>1 DEF Fetched, IInv, FileInv, FileTypes
<1>4. r.id = p.id
  OBVIOUS
<1> HIDE DEF r
<1> QED
  BY <1>2, <1>3, <1>4, PollTimely

LEMMA CompleteTimely ==
  ASSUME IInv, Kept, Grows, TimelyInv, NEW u \in Users, NEW p \in polls[u], Complete(u, p)
  PROVE  TimelyInv'
<1> DEFINE U == Updated(history[u], p.id, "Completed", p.found)
<1>1. /\ UNCHANGED workflow /\ history' = [history EXCEPT ![u] = U]
      /\ polls' = [polls EXCEPT ![u] = @ \ {p}]
  BY DEF Complete
<1>2. \A y \in U : \E h \in history[u] : ChangedFrom(y, h, p.id, "Completed", p.found)
  <2>1. /\ p.id \in Ids /\ p.found \in Nat /\ "Completed" \in Statuses
        /\ history[u] \in SUBSET FileRecord /\ OncePerPayment(history[u])
    BY UserFiled DEF IInv, Statuses, PollRecord
  <2> QED
    BY <2>1, UpdatedRecords
<1> HIDE DEF U
<1>3. /\ history'[u] = U /\ polls'[u] \subseteq polls[u]
      /\ \A v \in Users : v # u => history'[v] = history[v] /\ polls'[v] = polls[v]
  BY <1>1 DEF IInv, FileInv, FileTypes
<1>4. ASSUME ~Mistaken(u)' PROVE TimelyFor(u)'
  <2>1. TimelyFor(u)
    BY <1>4, StaysMistaken DEF TimelyInv
  <2>2. OwnRecords(u)'
    BY <1>2, <1>3, <2>1, StillOpen DEF TimelyFor, OwnRecords, ChangedFrom
  <2>3. OwnProject(u)'
    BY <1>1, <2>1, StillOpen DEF TimelyFor, OwnProject, workflow
  <2>4. NotStarted(u)'
    <3> SUFFICES ASSUME step[u] \in {"assembling", "started"},
                        NEW y \in U, y.payment = current[u]
                 PROVE  y.status = "Initialized"
      BY <1>1, <1>3 DEF NotStarted, workflow
    <3>1. PICK h \in history[u] : ChangedFrom(y, h, p.id, "Completed", p.found)
      BY <1>2
    <3>2. h.payment = current[u] /\ h.status = "Initialized"
      BY <2>1, <3>1 DEF ChangedFrom, TimelyFor, NotStarted
    <3>3. h.id # p.id
      BY <2>1, <3>2 DEF TimelyFor, OwnRecords, PollsBehind
    <3> QED
      BY <3>1, <3>2, <3>3 DEF ChangedFrom
  <2>5. PollsBehind(u)'
    BY <1>1, <1>3, <2>1, StillOpen DEF TimelyFor, PollsBehind, workflow
  <2> QED
    BY <2>2, <2>3, <2>4, <2>5 DEF TimelyFor
<1> QED
  BY <1>1, <1>3, <1>4, OthersTimely DEF workflow

LEMMA NextTimely ==
  ASSUME IInv, Kept, Grows, TimelyInv, [Next]_vars
  PROVE  TimelyInv'
<1>1. ASSUME NEW u \in Users, InitializeRound(u) PROVE TimelyInv'
  <2>1. /\ step[u] = "named" /\ UNCHANGED <<project, history, polls, current>>
    BY <1>1 DEF InitializeRound, files
  <2>2. PICK next \in {"initialized", "payment"} : step' = [step EXCEPT ![u] = next]
    BY <1>1 DEF InitializeRound, FailsBefore, Goes
  <2> QED
    BY <2>1, <2>2, MoveTimely DEF Steps
<1>2. ASSUME NEW u \in Users, SendTrain(u) PROVE TimelyInv'
  <2>1. UNCHANGED <<project, history, polls, current>> /\ step[u] = "assembling"
    BY <1>2 DEF SendTrain, files
  <2>2. CASE step' = [step EXCEPT ![u] = "started"]
    BY <2>1, <2>2, MoveTimely DEF Steps
  <2>3. CASE step' = step
    BY <2>1, <2>3, IdleTimely DEF workflow
  <2> QED
    BY <1>2, <2>2, <2>3 DEF SendTrain, Goes
<1>3. ASSUME NEW k, Execute(k) \/ Revert(k) PROVE TimelyInv'
  BY <1>3, IdleTimely DEF Execute, Revert, files
<1>4. ASSUME NEW t, SubmitWeights(t) PROVE TimelyInv'
  BY <1>4, IdleTimely DEF SubmitWeights, files
<1>5. CASE UNCHANGED vars
  BY <1>5, IdleTimely DEF vars, files
<1> QED
  BY <1>1, <1>2, <1>3, <1>4, <1>5, PayTimely, ReadTaskIdTimely, AddHistoryTimely,
     MarkRunningTimely, RestartTimely, DeleteTimely, CheckStatusTimely, FetchEventsTimely,
     CompleteTimely DEF Next, Workflow, Poll

-----------------------------------------------------------------------------
StillCompleted(u) ==
  \A g \in history[u], h \in history'[u] :
    g.id = h.id /\ g.status = "Completed" => h.status = "Completed"

(* In time means one record per id. *)
LEMMA NamedOnce ==
  ASSUME IInv, TimelyInv, NEW u \in Users, ~Mistaken(u)
  PROVE  \A g, h \in history[u] : g.id = h.id => g = h
<1>1. OwnRecords(u) /\ OncePerPayment(history[u])
  BY UserFiled DEF TimelyInv, TimelyFor, IInv
<1> QED
  BY <1>1 DEF OwnRecords, OncePerPayment

LEMMA NextCompleted ==
  ASSUME IInv, TimelyInv, Kept, Grows, [Next]_vars, NEW u \in Users, ~Mistaken(u)'
  PROVE  StillCompleted(u)
<1>1. TimelyFor(u) /\ \A g, h \in history[u] : g.id = h.id => g = h
  BY StaysMistaken, NamedOnce DEF TimelyInv
<1>2. CASE history'[u] \subseteq history[u]
  BY <1>1, <1>2 DEF StillCompleted
<1>3. ASSUME AddHistory(u) PROVE StillCompleted(u)
  <2> DEFINE r == Record(current[u], project[u], "Initialized", 0)
  <2>1. history'[u] = history[u] \cup {r} /\ step[u] = "initialized"
    BY <1>3 DEF AddHistory, IInv, FileInv, FileTypes
  <2>2. r.id = project[u]
    BY DEF Record
  <2> HIDE DEF r
  <2>3. \A h \in history[u] : h.payment # current[u]
    BY <2>1, UserFiled DEF IInv, FiledFor, BeforeTheFile
  <2>4. openedBy[project[u]] = current[u]
    BY <1>1, <2>1 DEF TimelyFor, OwnProject
  <2>5. \A h \in history[u] : h.id # project[u]
    BY <1>1, <2>3, <2>4 DEF TimelyFor, OwnRecords
  <2> QED
    BY <1>1, <2>1, <2>2, <2>5 DEF StillCompleted
<1>4. ASSUME MarkRunning(u) PROVE StillCompleted(u)
  <2> DEFINE U == Updated(history[u], project[u], "Running", 0)
  <2>1. history'[u] = U /\ step[u] = "started"
    BY <1>4 DEF MarkRunning, IInv, FileInv, FileTypes
  <2>2. \A y \in U : \E h \in history[u] : ChangedFrom(y, h, project[u], "Running", 0)
    <3>1. /\ project[u] \in Ids /\ "Running" \in Statuses
          /\ history[u] \in SUBSET FileRecord /\ OncePerPayment(history[u])
      BY UserFiled DEF IInv, Statuses
    <3> QED
      BY <3>1, UpdatedRecords
  <2> HIDE DEF U
  <2>3. \A h \in history[u] : h.id = project[u] => h.status = "Initialized"
    BY <1>1, <2>1 DEF TimelyFor, OwnRecords, OwnProject, NotStarted
  <2> QED
    BY <1>1, <2>1, <2>2, <2>3 DEF StillCompleted, ChangedFrom
<1>5. ASSUME NEW p \in polls[u], Complete(u, p) PROVE StillCompleted(u)
  <2> DEFINE U == Updated(history[u], p.id, "Completed", p.found)
  <2>1. history'[u] = U
    BY <1>5 DEF Complete, IInv, FileInv, FileTypes
  <2>2. \A y \in U : \E h \in history[u] : ChangedFrom(y, h, p.id, "Completed", p.found)
    <3>1. /\ p.id \in Ids /\ p.found \in Nat /\ "Completed" \in Statuses
          /\ history[u] \in SUBSET FileRecord /\ OncePerPayment(history[u])
      BY UserFiled DEF IInv, Statuses, PollRecord
    <3> QED
      BY <3>1, UpdatedRecords
  <2> HIDE DEF U
  <2> QED
    BY <1>1, <2>1, <2>2 DEF StillCompleted, ChangedFrom
<1>6. ASSUME NEW v \in Users, v # u, AddHistory(v) \/ MarkRunning(v) \/ \E p \in polls[v] : Complete(v, p)
      PROVE  history'[u] = history[u]
  BY <1>6 DEF AddHistory, MarkRunning, Complete, IInv, FileInv, FileTypes
<1>7. ASSUME NEW v \in Users, DeleteProject(v) PROVE history'[u] \subseteq history[u]
  BY <1>7, DeleteTimely
<1>8. \/ UNCHANGED history
      \/ \E v \in Users : \/ AddHistory(v) \/ MarkRunning(v) \/ DeleteProject(v)
                          \/ \E p \in polls[v] : Complete(v, p)
  BY DEF Next, Workflow, Poll, Pay, ReadTaskId, InitializeRound, SendTrain, Restart,
         CheckStatus, FetchEvents, Execute, Revert, SubmitWeights, vars, files
<1> QED
  BY <1>2, <1>3, <1>4, <1>5, <1>6, <1>7, <1>8

(* CompletedIsFinal: no workflow step, restart, deletion, late transaction *)
(* or overlapping poll turns a completed project of a user whose payments  *)
(* were named in time into anything else (TrainingContext.tsx:317).        *)
THEOREM CompletedStays == Spec => CompletedIsFinal
<1>1. Init => TimelyInv
  BY DEF Init, TimelyInv, TimelyFor, OwnRecords, OwnProject, NotStarted, PollsBehind
<1>2. IInv /\ TimelyInv /\ [Next]_vars => TimelyInv'
  BY NextHolds, NextTimely
<1>3. IInv /\ TimelyInv /\ [Next]_vars =>
        [\A u \in Users : ~Mistaken(u)' => \A g \in history[u], h \in history'[u] :
           g.id = h.id /\ g.status = "Completed" => h.status = "Completed"]_vars
  BY NextHolds, NextCompleted DEF StillCompleted
<1> QED
  BY <1>1, <1>2, <1>3, IInvHolds, PTL DEF Spec, CompletedIsFinal

-----------------------------------------------------------------------------
(* While the answers are right, a poll that goes on knows a settled task,  *)
(* and what it read is all but what is beyond the page.                    *)
Whole(n) == n + Beyond >= NumChunks

ReadTruly(p) == /\ p.id \in Opened => phase[p.id] = "settled"
                /\ p.found > 0 => Whole(p.found)

TrueFor(u) ==
  /\ \A p \in polls[u] : ReadTruly(p)
  /\ \A h \in history[u] : h.status = "Completed" => Whole(h.weights)

TrueInv == misreads = 0 => \A u \in Users : TrueFor(u)

LEMMA StillWhole ==
  ASSUME Grows, NEW n \in Nat, Whole(n)
  PROVE  Whole(n)'
<1>1. Beyond \in Nat /\ Beyond' \in Nat /\ Beyond <= Beyond'
  BY DashboardAssumption DEF Grows, Beyond
<1>2. NumChunks \in Nat /\ n + Beyond >= NumChunks
  BY DashboardAssumption DEF Whole
<1>3. n + Beyond' >= NumChunks
  <2> DEFINE b == Beyond
             c == Beyond'
  <2>1. b \in Nat /\ c \in Nat /\ b <= c /\ n + b >= NumChunks
    BY <1>1, <1>2
  <2> HIDE DEF b, c
  <2>2. n + c >= NumChunks
    BY <1>2, <2>1
  <2> QED
    BY <2>2 DEF c
<1> QED
  BY <1>3 DEF Whole

LEMMA KnownId ==
  ASSUME IInv, NEW id \in Ids, id <= TaskCount
  PROVE  id \in Opened \/ (id \notin Opened /\ Weights(id) = 0)
<1>1. CASE id \in Tasks
  <2>1. TaskCount \in Nat /\ Opened = 1..TaskCount
    BY DEF IInv, Opening, InOrder
  <2> QED
    BY <1>1, <2>1, DashboardAssumption DEF Tasks
<1>2. CASE id \notin Tasks
  <2>1. id = 0
    BY <1>2, DashboardAssumption DEF Ids, Tasks
  <2>2. 0 \notin Tasks \cup {OtherEvent} /\ log \in Seq(Tasks \cup {OtherEvent})
    BY DashboardAssumption DEF Tasks, OtherEvent, IInv, Opening, Emitted
  <2>3. \A i \in 1..Len(log) : log[i] \in Tasks \cup {OtherEvent}
    BY <2>2
  <2>4. EventsIn(log, id) = {}
    BY <2>1, <2>2, <2>3 DEF EventsIn
  <2> QED
    BY <1>2, <2>4, FS_EmptySet DEF Weights, Opened
<1> QED
  BY <1>1, <1>2

LEMMA SameTrue ==
  ASSUME IInv, Grows, NEW u \in Users, TrueFor(u)
  PROVE  /\ \A p \in polls[u] : ReadTruly(p)'
         /\ \A h \in history[u] : h.status = "Completed" => Whole(h.weights)'
<1>1. ASSUME NEW p \in polls[u] PROVE ReadTruly(p)'
  <2>1. p.id \in Ids /\ p.id <= TaskCount /\ p.found \in Nat /\ ReadTruly(p)
    BY DEF IInv, FileInv, FileTypes, FiledFor, Read, PollRecord, TrueFor
  <2>2. p.found > 0 => Whole(p.found)'
    BY <2>1, StillWhole DEF ReadTruly
  <2>3. TaskCount \in Nat /\ Opened = 1..TaskCount /\ Opened' \subseteq Tasks
    BY DEF IInv, Opening, InOrder, Opened
  <2>4. p.id \in Tasks => p.id \in Opened
    BY <2>1, <2>3, DashboardAssumption DEF Tasks, Ids
  <2>5. p.id \in Opened' => phase'[p.id] = "settled"
    BY <2>1, <2>3, <2>4 DEF ReadTruly, Grows
  <2> QED
    BY <2>2, <2>5 DEF ReadTruly
<1>2. ASSUME NEW h \in history[u], h.status = "Completed" PROVE Whole(h.weights)'
  <2>1. h.weights \in Nat /\ Whole(h.weights)
    BY <1>2 DEF IInv, FileInv, FileTypes, FileRecord, TrueFor
  <2> QED
    BY <2>1, StillWhole
<1> QED
  BY <1>1, <1>2

LEMMA OthersTrue ==
  ASSUME IInv, Grows, TrueInv, misreads = 0, NEW u \in Users, TrueFor(u)',
         \A v \in Users : v # u => history'[v] = history[v] /\ polls'[v] = polls[v]
  PROVE  TrueInv'
<1>1. ASSUME NEW v \in Users, v # u PROVE TrueFor(v)'
  <2>1. TrueFor(v)
    BY DEF TrueInv
  <2> QED
    BY <1>1, <2>1, SameTrue DEF TrueFor
<1> QED
  BY <1>1 DEF TrueInv

(* The steps after which files and polls hold nothing new but records that *)
(* are not completed. *)
LEMMA NothingCompleted ==
  ASSUME IInv, Grows, TrueInv, misreads = 0, NEW u \in Users,
         \A v \in Users : v # u => history'[v] = history[v] /\ polls'[v] = polls[v],
         polls'[u] \subseteq polls[u],
         \A y \in history'[u] : y.status = "Completed" => y \in history[u]
  PROVE  TrueInv'
<1>1. TrueFor(u)
  BY DEF TrueInv
<1>2. TrueFor(u)'
  BY <1>1, SameTrue DEF TrueFor
<1> QED
  BY <1>2, OthersTrue

LEMMA IdleTrue ==
  ASSUME IInv, Grows, TrueInv, misreads = 0, UNCHANGED <<history, polls>>
  PROVE  TrueInv'
<1>1. ASSUME NEW v \in Users PROVE TrueFor(v)'
  <2>1. TrueFor(v)
    BY DEF TrueInv
  <2> QED
    BY <2>1, SameTrue DEF TrueFor
<1> QED
  BY <1>1 DEF TrueInv

LEMMA CheckStatusTrue ==
  ASSUME IInv, Grows, TrueInv, misreads = 0, misreads' = 0, NEW u \in Users,
         NEW h \in history[u], CheckStatus(u, h)
  PROVE  TrueInv'
<1> DEFINE q == [id |-> h.id, found |-> 0]
<1>1. /\ ~Exists(h.id) /\ UNCHANGED <<history, phase>>
      /\ polls' = [polls EXCEPT ![u] = @ \cup {q}]
  <2>1. ~Misread
    BY DEF Misread
  <2> QED
    BY <2>1 DEF CheckStatus, files, contract
<1>2. /\ polls'[u] = polls[u] \cup {q}
      /\ \A v \in Users : v # u => history'[v] = history[v] /\ polls'[v] = polls[v]
  BY <1>1 DEF IInv, FileInv, FileTypes
<1>3. h.id \in Opened => phase[h.id] = "settled"
  BY <1>1 DEF Exists, TaskExists, Opened, IInv, Opening, Emitted
<1>4. \A p : p = q => ReadTruly(p)'
  BY <1>1, <1>3, SameOpened DEF ReadTruly
<1>5. TrueFor(u)
  BY DEF TrueInv
<1>6. TrueFor(u)'
  BY <1>1, <1>2, <1>4, <1>5, SameTrue DEF TrueFor
<1> QED
  BY <1>2, <1>6, OthersTrue

LEMMA FetchEventsTrue ==
  ASSUME IInv, Grows, TrueInv, misreads = 0, misreads' = 0, NEW u \in Users,
         NEW p \in polls[u], FetchEvents(u, p)
  PROVE  TrueInv'
<1>1. PICK n \in 0..Len(log) : Fetched(u, p, n)
  BY FetchedSome
<1> DEFINE found == Cardinality(EventsOf(p.id, Page(n)))
           r == [id |-> p.id, found |-> found]
<1>2. /\ polls'[u] \subseteq polls[u] \cup {r}
      /\ \A v \in Users : v # u => polls'[v] = polls[v]
  BY <1>1 DEF Fetched, IInv, FileInv, FileTypes
<1>3. EventsOf(p.id, (n + 1)..Len(log)) = {}
  BY <1>1 DEF Fetched, Misread
<1>4. /\ found \in Nat /\ Weights(p.id) \in Nat /\ found <= Weights(p.id)
      /\ Weights(p.id) <= found + Beyond
  BY <1>3, PageReads DEF IInv, Opening, Emitted
<1>5. UNCHANGED <<history, phase, log>>
  BY DEF FetchEvents, files, contract
<1> HIDE DEF found
<1>6. r.id = p.id /\ r.found = found
  OBVIOUS
<1> HIDE DEF r
<1>7. TrueFor(u) /\ ReadTruly(p)
  BY DEF TrueInv, TrueFor
<1>8. found > 0 => Whole(found)
  <2>1. SUFFICES ASSUME found > 0 PROVE Whole(found)
    OBVIOUS
  <2>2. p.id \in Opened
    <3>1. p.id \in Ids /\ p.id <= TaskCount
      BY DEF IInv, FileInv, FileTypes, FiledFor, Read, PollRecord
    <3>2. Weights(p.id) # 0
      BY <1>4, <2>1
    <3> QED
      BY <3>1, <3>2, KnownId
  <2>3. Weights(p.id) = NumChunks
    <3>1. p.id \in Tasks /\ phase[p.id] = "settled"
      BY <1>7, <2>2 DEF ReadTruly, Opened
    <3>2. TaskOf(phase[p.id], owed[p.id], Weights(p.id))
      BY <3>1 DEF IInv, Opening, Emitted
    <3> QED
      BY <3>1, <3>2 DEF TaskOf
  <2> QED
    <3>1. Beyond \in Nat
      BY DashboardAssumption DEF Beyond, Grows
    <3> QED
      BY <1>4, <2>3, <3>1, DashboardAssumption DEF Whole
<1>9. \A q : q = r => ReadTruly(q)'
  <2>1. Beyond' = Beyond
    BY <1>5 DEF Beyond
  <2> QED
    BY <1>5, <1>6, <1>7, <1>8, <2>1, SameOpened DEF ReadTruly, Whole
<1>10. TrueFor(u)'
  BY <1>2, <1>5, <1>7, <1>9, SameTrue DEF TrueFor
<1> QED
  BY <1>2, <1>5, <1>10, OthersTrue

LEMMA CompleteTrue ==
  ASSUME IInv, Grows, TrueInv, misreads = 0, NEW u \in Users, NEW p \in polls[u], Complete(u, p)
  PROVE  TrueInv'
<1> DEFINE U == Updated(history[u], p.id, "Completed", p.found)
<1>1. /\ history' = [history EXCEPT ![u] = U] /\ polls' = [polls EXCEPT ![u] = @ \ {p}]
      /\ p.found > 0
  BY DEF Complete
<1>2. \A y \in U : \E h \in history[u] : ChangedFrom(y, h, p.id, "Completed", p.found)
  <2>1. /\ p.id \in Ids /\ p.found \in Nat /\ "Completed" \in Statuses
        /\ history[u] \in SUBSET FileRecord /\ OncePerPayment(history[u])
    BY UserFiled DEF IInv, Statuses, PollRecord
  <2> QED
    BY <2>1, UpdatedRecords
<1> HIDE DEF U
<1>3. /\ history'[u] = U /\ polls'[u] \subseteq polls[u]
      /\ \A v \in Users : v # u => history'[v] = history[v] /\ polls'[v] = polls[v]
  BY <1>1 DEF IInv, FileInv, FileTypes
<1>4. TrueFor(u) /\ p.found \in Nat /\ p.found # 0
  BY <1>1 DEF TrueInv, IInv, FileInv, FileTypes, PollRecord
<1>5. Whole(p.found)'
  BY <1>1, <1>4, StillWhole DEF TrueFor, ReadTruly
<1>6. \A y \in U : y.status = "Completed" => Whole(y.weights)'
  <2> SUFFICES ASSUME NEW y \in U, y.status = "Completed" PROVE Whole(y.weights)'
    OBVIOUS
  <2>1. PICK h \in history[u] : ChangedFrom(y, h, p.id, "Completed", p.found)
    BY <1>2
  <2>2. CASE y = h
    BY <1>4, <2>2, SameTrue
  <2>3. CASE y.weights = p.found
    BY <1>5, <2>3
  <2> QED
    BY <1>4, <2>1, <2>2, <2>3 DEF ChangedFrom
<1>7. TrueFor(u)'
  BY <1>3, <1>4, <1>6, SameTrue DEF TrueFor
<1> QED
  BY <1>3, <1>7, OthersTrue

LEMMA NextTrue ==
  ASSUME IInv, Grows, TrueInv, [Next]_vars
  PROVE  TrueInv'
<1> SUFFICES ASSUME misreads' = 0 PROVE TrueInv'
  BY DEF TrueInv
<1>1. misreads = 0
  <2>1. Misread \/ UNCHANGED misreads
    <3>1. ASSUME NEW u \in Users, NEW p, FetchEvents(u, p) PROVE Misread \/ UNCHANGED misreads
      BY <3>1, FetchedSome DEF Fetched
    <3> QED
      BY <3>1 DEF Next, Workflow, Poll, Pay, ReadTaskId, InitializeRound, AddHistory, SendTrain,
             MarkRunning, Restart, DeleteProject, CheckStatus, Complete, Execute,
             Revert, SubmitWeights, vars, mishaps
  <2> QED
    BY <2>1, DashboardAssumption DEF Misread, IInv, Counters
<1>2. ASSUME NEW u \in Users, AddHistory(u) PROVE TrueInv'
  <2>1. /\ history' = [history EXCEPT ![u] =
             history[u] \cup {Record(current[u], project[u], "Initialized", 0)}]
        /\ UNCHANGED polls
    BY <1>2 DEF AddHistory
  <2>2. /\ history'[u] = history[u] \cup {Record(current[u], project[u], "Initialized", 0)}
        /\ \A v \in Users : v # u => history'[v] = history[v]
    BY <2>1 DEF IInv, FileInv, FileTypes
  <2>3. \A y \in history'[u] : y.status = "Completed" => y \in history[u]
    BY <2>2 DEF Record
  <2> QED
    BY <1>1, <2>1, <2>2, <2>3, NothingCompleted
<1>3. ASSUME NEW u \in Users, MarkRunning(u) PROVE TrueInv'
  <2> DEFINE U == Updated(history[u], project[u], "Running", 0)
  <2>1. history' = [history EXCEPT ![u] = U] /\ UNCHANGED polls
    BY <1>3 DEF MarkRunning
  <2>2. \A y \in U : \E h \in history[u] : ChangedFrom(y, h, project[u], "Running", 0)
    <3>1. /\ project[u] \in Ids /\ "Running" \in Statuses
          /\ history[u] \in SUBSET FileRecord /\ OncePerPayment(history[u])
      BY UserFiled DEF IInv, Statuses
    <3> QED
      BY <3>1, UpdatedRecords
  <2> HIDE DEF U
  <2>3. history'[u] = U /\ \A v \in Users : v # u => history'[v] = history[v]
    BY <2>1 DEF IInv, FileInv, FileTypes
  <2>4. \A y \in history'[u] : y.status = "Completed" => y \in history[u]
    BY <2>2, <2>3 DEF ChangedFrom
  <2> QED
    BY <1>1, <2>1, <2>3, <2>4, NothingCompleted
<1>4. ASSUME NEW u \in Users, Restart(u) PROVE TrueInv'
  <2>1. polls' = [polls EXCEPT ![u] = {}] /\ UNCHANGED history
    BY <1>4 DEF Restart, files
  <2>2. polls'[u] \subseteq polls[u] /\ \A v \in Users : v # u => polls'[v] = polls[v]
    BY <2>1 DEF IInv, FileInv, FileTypes
  <2> QED
    BY <1>1, <2>1, <2>2, NothingCompleted
<1>5. ASSUME NEW u \in Users, DeleteProject(u) PROVE TrueInv'
  <2>1. /\ UNCHANGED polls
        /\ \E id \in IdsOf(u) : history' = [history EXCEPT ![u] = {h \in history[u] : h.id # id}]
    BY <1>5 DEF DeleteProject
  <2>2. history'[u] \subseteq history[u] /\ \A v \in Users : v # u => history'[v] = history[v]
    BY <2>1 DEF IInv, FileInv, FileTypes
  <2> QED
    BY <1>1, <2>1, <2>2, NothingCompleted
<1>6. ASSUME UNCHANGED <<files, polls>> PROVE TrueInv'
  BY <1>1, <1>6, IdleTrue DEF files
<1>7. ASSUME NEW u \in Users,
             Pay(u) \/ ReadTaskId(u) \/ InitializeRound(u) \/ SendTrain(u)
      PROVE  UNCHANGED <<files, polls>>
  BY <1>7 DEF Pay, ReadTaskId, InitializeRound, SendTrain
<1>8. ASSUME NEW k, Execute(k) \/ Revert(k) \/ SubmitWeights(k) PROVE UNCHANGED <<files, polls>>
  BY <1>8 DEF Execute, Revert, SubmitWeights
<1>9. CASE UNCHANGED vars
  BY <1>6, <1>9 DEF vars
<1> QED
  BY <1>1, <1>2, <1>3, <1>4, <1>5, <1>6, <1>7, <1>8, <1>9, CheckStatusTrue, FetchEventsTrue,
     CompleteTrue DEF Next, Workflow, Poll

(* CompletedHasEveryWeight: for any number of users, chunks and events and *)
(* any page, no more weights of a completed project are missing than there *)
(* are events beyond the page (hederaHelper.ts:118), as long as no query   *)
(* fails and the mirror node is up to date.                                *)
THEOREM CompletedIsWhole == Spec => []CompletedHasEveryWeight
<1>1. Init => TrueInv
  BY DEF Init, TrueInv, TrueFor
<1>2. IInv /\ TrueInv /\ [Next]_vars => TrueInv'
  BY NextHolds, NextTrue
<1>3. TrueInv => CompletedHasEveryWeight
  BY DEF TrueInv, TrueFor, Whole, CompletedHasEveryWeight
<1> QED
  BY <1>1, <1>2, <1>3, IInvHolds, PTL DEF Spec

-----------------------------------------------------------------------------
(* The weights a history shows of a project are weights the contract took. *)
ShownWasSubmitted ==
  \A u \in Users : \A h \in history[u] : h.weights <= Cardinality(EventsOf(h.id, 1..Len(log)))

(* However queries fail, the mirror node lags, ids are mistaken and polls  *)
(* overlap (TrainingHistory.tsx:56-73).                                    *)
THEOREM ShowsOnlySubmitted == Spec => []ShownWasSubmitted
<1>1. IInv => ShownWasSubmitted
  <2>1. \A t : Weights(t) = Cardinality(EventsOf(t, 1..Len(log)))
    BY DEF Weights, EventsIn, EventsOf
  <2> QED
    BY <2>1 DEF IInv, FileInv, FiledFor, Shown, ShownWasSubmitted
<1> QED
  BY IInvHolds, <1>1, PTL

-----------------------------------------------------------------------------
(* A lone user whose calls do not fail and whose transactions are executed *)
(* before the id is read: no payment of theirs is late.                    *)
Untroubled == faults = 0 /\ unconfirmed = 0

LoneInv(u) ==
  Untroubled =>
    /\ untimely = {}
    /\ pending \subseteq {current[u]}
    /\ pending # {} => step[u] = "paid" /\ OpenedBy(current[u]) = {}
    /\ step[u] = "paid" /\ OpenedBy(current[u]) # {} => OpenedBy(current[u]) \cap Newest # {}

LEMMA SameNewest ==
  ASSUME Opened' = Opened, UNCHANGED openedBy
  PROVE  (\A k : OpenedBy(k)' = OpenedBy(k)) /\ Newest' = Newest
  BY DEF OpenedBy, Newest

LEMMA IdleLone ==
  ASSUME NEW u, LoneInv(u), Opened' = Opened, UNCHANGED <<openedBy, current, untimely>>,
         pending' \subseteq pending, Untroubled,
         step'[u] = step[u] \/ (step[u] # "paid" /\ step'[u] # "paid")
  PROVE  LoneInv(u)'
<1>1. /\ untimely = {} /\ pending \subseteq {current[u]}
      /\ pending # {} => step[u] = "paid" /\ OpenedBy(current[u]) = {}
      /\ step[u] = "paid" /\ OpenedBy(current[u]) # {} => OpenedBy(current[u]) \cap Newest # {}
  BY DEF LoneInv
<1>2. OpenedBy(current[u])' = OpenedBy(current[u]) /\ Newest' = Newest
  BY SameNewest DEF OpenedBy
<1>3. pending' # {} => pending # {}
  OBVIOUS
<1>4. pending' # {} => step'[u] = "paid"
  BY <1>1, <1>3
<1> QED
  BY <1>1, <1>2, <1>3, <1>4 DEF LoneInv

LEMMA TroublesStay ==
  ASSUME IInv, [Next]_vars, Untroubled'
  PROVE  Untroubled /\ UNCHANGED <<faults, unconfirmed>>
<1>1. Fault \/ UNCHANGED faults
  BY DEF Next, Workflow, Poll, Pay, ReadTaskId, FailsBefore, InitializeRound, AddHistory,
         SendTrain, MarkRunning, Restart, DeleteProject, CheckStatus, FetchEvents, Complete,
         Execute, Revert, SubmitWeights, vars, mishaps
<1>2. Unconfirmed \/ UNCHANGED unconfirmed
  BY DEF Next, Workflow, Poll, Pay, ReadTaskId, InitializeRound, AddHistory, SendTrain,
         MarkRunning, Restart, DeleteProject, CheckStatus, FetchEvents, Complete, Execute,
         Revert, SubmitWeights, vars, mishaps
<1> QED
  BY <1>1, <1>2, DashboardAssumption DEF Fault, Unconfirmed, Untroubled, IInv, Counters

LEMMA ExecuteLone ==
  ASSUME IInv, NEW u, LoneInv(u), Untroubled, NEW k, Execute(k)
  PROVE  LoneInv(u)'
<1>1. PICK t \in Tasks : Contract!Open(t, NumChunks) /\ openedBy' = [openedBy EXCEPT ![t] = k]
  BY DEF Execute
<1>2. t = TaskCount + 1 /\ Opened' = Opened \cup {t} /\ TaskCount \in Nat /\ Opened = 1..TaskCount
  BY <1>1, OpenCounts DEF IInv, Opening, InOrder
<1>3. /\ k \in pending /\ pending' = pending \ {k}
      /\ UNCHANGED <<step, current, untimely>>
  BY DEF Execute, workflow, mishaps
<1>4. untimely = {} /\ k = current[u] /\ pending' = {}
  BY <1>3 DEF LoneInv
<1>5. openedBy'[t] = current[u]
  BY <1>1, <1>4 DEF IInv, PayInv, PayTypes
<1>6. t \in OpenedBy(current[u])'
  BY <1>2, <1>3, <1>5 DEF OpenedBy
<1>7. t \in Newest'
  <2>1. t \in Opened' /\ \A s \in Opened' : s <= t
    BY <1>2
  <2> QED
    BY <2>1 DEF Newest
<1> QED
  BY <1>3, <1>4, <1>6, <1>7 DEF LoneInv

LEMMA PayLone ==
  ASSUME IInv, NEW u \in Users, LoneInv(u), Untroubled', Untroubled, Pay(u),
         UNCHANGED faults
  PROVE  LoneInv(u)'
<1> DEFINE k == sent + 1
<1>1. /\ step[u] = "payment" /\ current' = [current EXCEPT ![u] = k]
      /\ pending' = pending \cup {k} /\ UNCHANGED <<phase, openedBy, untimely>>
      /\ \/ step' = [step EXCEPT ![u] = "paid"]
         \/ Fault
  BY DEF Pay, Goes, contract
<1>2. ~Fault
  BY DashboardAssumption DEF Fault, IInv, Counters
<1>3. step'[u] = "paid" /\ current'[u] = k
  BY <1>1, <1>2 DEF IInv, PayInv, PayTypes
<1>4. untimely = {} /\ pending = {}
  BY <1>1 DEF LoneInv
<1>5. OpenedBy(k) = {}
  <2>1. \A t \in Opened : openedBy[t] \in 1..sent
    BY DEF IInv, PayInv, Paid
  <2>2. sent \in Nat
    BY DashboardAssumption DEF IInv, PayInv, PayTypes
  <2> QED
    BY <2>1, <2>2 DEF OpenedBy
<1>6. Opened' = Opened
  BY <1>1, SameOpened
<1> HIDE DEF k
<1>7. OpenedBy(current[u])' = {}
  BY <1>1, <1>3, <1>5, <1>6 DEF OpenedBy
<1> QED
  BY <1>1, <1>3, <1>4, <1>7 DEF LoneInv

LEMMA ReadTaskIdLone ==
  ASSUME IInv, NEW u \in Users, LoneInv(u), Untroubled, ReadTaskId(u),
         UNCHANGED <<faults, unconfirmed>>
  PROVE  LoneInv(u)'
<1>1. ~Fault /\ ~Unconfirmed
  BY DashboardAssumption DEF Fault, Unconfirmed, IInv, Counters
<1>2. /\ step[u] = "paid" /\ step' = [step EXCEPT ![u] = "named"]
      /\ OpenedBy(current[u]) # {}
      /\ untimely' = IF OpenedBy(current[u]) \cap Newest = {}
                       THEN untimely \cup {current[u]} ELSE untimely
      /\ UNCHANGED <<pending>>
  BY <1>1 DEF ReadTaskId, FailsBefore, Goes, payments
<1>3. OpenedBy(current[u]) \cap Newest # {} /\ untimely = {} /\ pending = {}
  BY <1>2 DEF LoneInv
<1>4. step'[u] = "named"
  BY <1>2 DEF IInv, PayInv, PayTypes
<1> QED
  BY <1>2, <1>3, <1>4 DEF LoneInv

LEMMA NextLone ==
  ASSUME IInv, NEW u, Users = {u}, LoneInv(u), [Next]_vars
  PROVE  LoneInv(u)'
<1> SUFFICES ASSUME Untroubled' PROVE LoneInv(u)'
  BY DEF LoneInv
<1>1. Untroubled /\ UNCHANGED <<faults, unconfirmed>> /\ u \in Users
  BY TroublesStay
<1>2. ~Fault
  BY <1>1, DashboardAssumption DEF Fault, IInv, Counters
<1>3. step[u] \in Steps /\ step \in [Users -> Steps]
  BY <1>1 DEF IInv, PayInv, PayTypes
<1>4. ASSUME InitializeRound(u) PROVE LoneInv(u)'
  <2>1. /\ step[u] = "named" /\ UNCHANGED <<phase, openedBy, current, untimely, pending>>
        /\ step' = [step EXCEPT ![u] = "initialized"]
    BY <1>2, <1>4 DEF InitializeRound, FailsBefore, Goes, contract, payments
  <2>2. step'[u] = "initialized"
    BY <1>1, <1>3, <2>1
  <2> QED
    BY <1>1, <2>1, <2>2, IdleLone, SameOpened
<1>5. ASSUME AddHistory(u) PROVE LoneInv(u)'
  <2>1. /\ step[u] = "initialized" /\ UNCHANGED <<phase, openedBy, current, untimely, pending>>
        /\ step' = [step EXCEPT ![u] = "assembling"]
    BY <1>5 DEF AddHistory, Goes, contract, payments, mishaps
  <2>2. step'[u] = "assembling"
    BY <1>1, <1>3, <2>1
  <2> QED
    BY <1>1, <2>1, <2>2, IdleLone, SameOpened
<1>6. ASSUME SendTrain(u) PROVE LoneInv(u)'
  <2>1. /\ step[u] = "assembling" /\ UNCHANGED <<phase, openedBy, current, untimely, pending>>
        /\ step' = [step EXCEPT ![u] = "started"]
    BY <1>2, <1>6 DEF SendTrain, Goes, contract, payments
  <2>2. step'[u] = "started"
    BY <1>1, <1>3, <2>1
  <2> QED
    BY <1>1, <2>1, <2>2, IdleLone, SameOpened
<1>7. ASSUME MarkRunning(u) PROVE LoneInv(u)'
  <2>1. /\ step[u] = "started" /\ UNCHANGED <<phase, openedBy, current, untimely, pending>>
        /\ step' = [step EXCEPT ![u] = "training"]
    BY <1>7 DEF MarkRunning, Goes, contract, payments, mishaps
  <2>2. step'[u] = "training"
    BY <1>1, <1>3, <2>1
  <2> QED
    BY <1>1, <2>1, <2>2, IdleLone, SameOpened
<1>8. ASSUME Restart(u) PROVE LoneInv(u)'
  <2>1. /\ step[u] = "training" /\ UNCHANGED <<phase, openedBy, current, untimely, pending>>
        /\ step' = [step EXCEPT ![u] = "payment"]
    BY <1>2, <1>8 DEF Restart, Goes, contract, payments
  <2>2. step'[u] = "payment"
    BY <1>1, <1>3, <2>1
  <2> QED
    BY <1>1, <2>1, <2>2, IdleLone, SameOpened
<1>9. ASSUME DeleteProject(u) \/ Poll(u) PROVE LoneInv(u)'
  <2>1. UNCHANGED <<phase, openedBy, current, untimely, pending, step>>
    BY <1>9 DEF DeleteProject, Poll, CheckStatus, FetchEvents, Complete, contract, payments,
                workflow, mishaps
  <2> QED
    BY <1>1, <2>1, IdleLone, SameOpened
<1>10. ASSUME NEW k, Revert(k) PROVE LoneInv(u)'
  <2>1. UNCHANGED <<phase, openedBy, current, untimely, step>> /\ pending' \subseteq pending
    BY <1>10 DEF Revert, contract, workflow, mishaps
  <2> QED
    BY <1>1, <2>1, IdleLone, SameOpened
<1>11. ASSUME NEW t \in Tasks, SubmitWeights(t) PROVE LoneInv(u)'
  <2>1. UNCHANGED <<openedBy, current, untimely, step, pending>> /\ Opened' = Opened
    BY <1>11, SubmitEmits DEF SubmitWeights, payments, workflow, mishaps, IInv, Opening
  <2> QED
    BY <1>1, <2>1, IdleLone
<1>12. CASE UNCHANGED vars
  <2>1. UNCHANGED <<phase, openedBy, current, untimely, pending, step>>
    BY <1>12 DEF vars, contract, payments, workflow, mishaps
  <2> QED
    BY <1>1, <2>1, IdleLone, SameOpened
<1> QED
  BY <1>1, <1>4, <1>5, <1>6, <1>7, <1>8, <1>9, <1>10, <1>11, <1>12, PayLone, ReadTaskIdLone,
     ExecuteLone DEF Next, Workflow

(* HeldInEscrow of a lone user: what is trained is the task the workflow's *)
(* payment opened, unless a call failed or an id was read before the       *)
(* payment was executed (TrainingContext.tsx:198-212): the wrong projects  *)
(* of MCDashboardRace.cfg and MCDashboardLate.cfg need one of the three.   *)
THEOREM LoneUserIsHeld ==
  ASSUME NEW u, Users = {u}
  PROVE  Spec => [](Untroubled => HeldInEscrow)
<1>1. Init => LoneInv(u)
  BY DEF Init, LoneInv, Steps
<1>2. IInv /\ LoneInv(u) /\ [Next]_vars => LoneInv(u)'
  BY NextLone
<1>3. Init => TimelyInv
  BY DEF Init, TimelyInv, TimelyFor, OwnRecords, OwnProject, NotStarted, PollsBehind
<1>4. IInv /\ TimelyInv /\ [Next]_vars => TimelyInv'
  BY NextHolds, NextTimely
<1>5. LoneInv(u) /\ TimelyInv => (Untroubled => HeldInEscrow)
  <2> SUFFICES ASSUME LoneInv(u), TimelyInv, Untroubled PROVE HeldInEscrow
    OBVIOUS
  <2>1. ~Mistaken(u)
    BY DEF LoneInv, Mistaken
  <2>2. OwnProject(u)
    BY <2>1 DEF TimelyInv, TimelyFor
  <2> QED
    BY <2>2 DEF OwnProject, HeldInEscrow, OpenedBy
<1> QED
  BY <1>1, <1>2, <1>3, <1>4, <1>5, IInvHolds, PTL DEF Spec
=============================================================================
