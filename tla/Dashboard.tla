----------------------------- MODULE Dashboard -----------------------------
(***************************************************************************)
(* The dashboard of an ML user (src/frontend): pay for a task with a       *)
(* wallet transaction, ask the contract for the task's id, open the round  *)
(* on the client node, keep it in the history file, start the training,    *)
(* and poll the contract and the mirror node until the weights are there.  *)
(*                                                                         *)
(* Every await of payAndInitialize, of beginFinalTraining and of the poll  *)
(* is a step boundary: the contract, the trainers and other polls go on in *)
(* between.  The wallet answers with the id of a transaction it submitted, *)
(* nobody asks for its receipt: the network executes createTask, or        *)
(* reverts it, in a step of its own, before or after the dashboard reads   *)
(* the number of tasks.  The timer starts a poll every five seconds and a  *)
(* poll waits five seconds for the mirror node, so several can be in       *)
(* flight.                                                                 *)
(***************************************************************************)
EXTENDS Integers, Sequences, FiniteSets

CONSTANTS Users,          \* ML users, each with a dashboard and an account
          MaxPayments,    \* bound: createTask transactions
          NumChunks,      \* chunks of a dataset
          PageSize,       \* events the mirror node is asked for (100 in the code)
          MaxFaults,      \* bound: calls that fail or lose their answer, restarts
          MaxMisreads,    \* bound: failed status queries, events the mirror lacks
          MaxUnconfirmed  \* bound: ids read while one's own task is not there

ASSUME DashboardAssumption ==
  /\ MaxPayments \in Nat /\ NumChunks \in Nat \ {0} /\ PageSize \in Nat \ {0}
  /\ MaxFaults \in Nat /\ MaxMisreads \in Nat /\ MaxUnconfirmed \in Nat

Payments == 1..MaxPayments
Tasks == 1..MaxPayments
Ids == 0..MaxPayments   \* getTaskId answers 0 before there is a task
NoTask == 0
NoPayment == 0
NoUser == "nobody"
OtherEvent == -1

VARIABLES
  phase, owed,      \* the contract, as the promise sees it
  openedBy,         \* the payment that opened a task
  log,              \* the contract's events: the task of a WeightsSubmitted
  sent, payer,      \* payments submitted so far, and by whom
  pending,          \* payments the network has neither executed nor reverted
  trained,          \* rounds the client node was told to train
  step, current, project,  \* a user's place in the workflow, its payment, projectId
  history,          \* the history file; a later payment's record stands before
  deleted,          \* project ids the user deleted from it
  polls,            \* polls in flight: the project, and what is known of it
  failed,           \* history: payments whose workflow failed before the file
  untimely,         \* history: payments named when their task was not the newest
  faults, misreads, unconfirmed

contract == <<phase, owed, openedBy, log>>
payments == <<sent, payer, pending>>
workflow == <<step, current, project>>
files    == <<history, deleted>>
mishaps  == <<failed, untimely, faults, misreads, unconfirmed>>
vars == <<contract, payments, trained, workflow, files, polls, mishaps>>

Contract == INSTANCE TaskPromise WITH TaskIds <- Tasks, ChunkCounts <- {NumChunks}

Init ==
  /\ Contract!Init
  /\ openedBy = [t \in Tasks |-> NoPayment]
  /\ log = <<>>
  /\ sent = 0 /\ payer = [k \in Payments |-> NoUser] /\ pending = {}
  /\ trained = {}
  /\ step = [u \in Users |-> "payment"]
  /\ current = [u \in Users |-> NoPayment]
  /\ project = [u \in Users |-> NoTask]
  /\ history = [u \in Users |-> {}]
  /\ deleted = [u \in Users |-> {}]
  /\ polls = [u \in Users |-> {}]
  /\ failed = {} /\ untimely = {}
  /\ faults = 0 /\ misreads = 0 /\ unconfirmed = 0

Fault == faults < MaxFaults /\ faults' = faults + 1
Misread == misreads < MaxMisreads /\ misreads' = misreads + 1
Unconfirmed == unconfirmed < MaxUnconfirmed /\ unconfirmed' = unconfirmed + 1

-----------------------------------------------------------------------------
(* payAndInitialize: createTask, getTaskId, advertize, history.  The       *)
(* wallet's answer may be lost after it submitted the transaction.         *)
Goes(u, next) == step' = [step EXCEPT ![u] = next]

(* The catch of payAndInitialize: back to the payment.                     *)
FailsBefore(u) ==
  /\ Goes(u, "payment")
  /\ Fault
  /\ failed' = failed \cup {current[u]}

Pay(u) ==
  /\ step[u] = "payment" /\ sent < MaxPayments
  /\ sent' = sent + 1
  /\ payer' = [payer EXCEPT ![sent'] = u]
  /\ pending' = pending \cup {sent'}
  /\ current' = [current EXCEPT ![u] = sent']
  /\ \/ Goes(u, "paid") /\ UNCHANGED <<failed, faults>>
     \/ UNCHANGED step /\ Fault /\ failed' = failed \cup {sent'}
  /\ UNCHANGED <<contract, trained, project, files, polls, untimely, misreads,
                 unconfirmed>>

(* The network executes the submitted transactions in any order, or not.   *)
Execute(k) ==
  /\ k \in pending
  /\ pending' = pending \ {k}
  /\ \E t \in Tasks : Contract!Open(t, NumChunks) /\ openedBy' = [openedBy EXCEPT ![t] = k]
  /\ log' = Append(log, OtherEvent)
  /\ UNCHANGED <<sent, payer, trained, workflow, files, polls, mishaps>>

Revert(k) ==
  /\ k \in pending
  /\ pending' = pending \ {k}
  /\ UNCHANGED <<contract, sent, payer, trained, workflow, files, polls, mishaps>>

Opened == {t \in Tasks : phase[t] # "none"}
OpenedBy(k) == {t \in Opened : openedBy[t] = k}
Newest == {t \in Opened : \A s \in Opened : s <= t}

(* getTaskId answers the number of tasks there are, two seconds later.     *)
TaskCountTooLate == Cardinality(Opened) - 1
TaskCountTooEarly == Cardinality(Opened) + 1
TaskCount == Cardinality(Opened)

ReadTaskId(u) ==
  /\ step[u] = "paid"
  /\ \/ /\ Goes(u, "named")
        /\ project' = [project EXCEPT ![u] = TaskCount]
        /\ IF OpenedBy(current[u]) = {} THEN Unconfirmed ELSE UNCHANGED unconfirmed
        /\ untimely' = IF OpenedBy(current[u]) \cap Newest = {}
                         THEN untimely \cup {current[u]} ELSE untimely
        /\ UNCHANGED <<failed, faults>>
     \/ FailsBefore(u) /\ UNCHANGED <<project, untimely, unconfirmed>>
  /\ UNCHANGED <<contract, payments, trained, current, files, polls, misreads>>

InitializeRound(u) ==
  /\ step[u] = "named"
  /\ \/ Goes(u, "initialized") /\ UNCHANGED <<failed, faults>>
     \/ FailsBefore(u)
  /\ UNCHANGED <<contract, payments, trained, current, project, files, polls, untimely,
                 misreads, unconfirmed>>

Record(k, id, status, weights) ==
  [payment |-> k, id |-> id, status |-> status, weights |-> weights]

AddHistory(u) ==
  /\ step[u] = "initialized"
  /\ Goes(u, "assembling")
  /\ history' = [history EXCEPT ![u] =
                   @ \cup {Record(current[u], project[u], "Initialized", 0)}]
  /\ UNCHANGED <<contract, payments, trained, current, project, deleted, polls, mishaps>>

-----------------------------------------------------------------------------
(* beginFinalTraining: the train command, then the new status.             *)
SendTrain(u) ==
  /\ step[u] = "assembling"
  /\ \/ trained' = trained \cup {project[u]} /\ Goes(u, "started") /\ UNCHANGED faults
     \/ trained' \in {trained, trained \cup {project[u]}} /\ Fault /\ UNCHANGED step
  /\ UNCHANGED <<contract, payments, current, project, files, polls, failed, untimely,
                 misreads, unconfirmed>>

(* history:update changes the first record that has the id, the one of the *)
(* latest payment, if there is one.                                        *)
First(records, h) == \A g \in records : g.id = h.id => g.payment <= h.payment

Updated(records, id, status, weights) ==
  {IF h.id = id /\ First(records, h)
     THEN [h EXCEPT !.status = status, !.weights = IF weights = 0 THEN @ ELSE weights]
     ELSE h : h \in records}

MarkRunning(u) ==
  /\ step[u] = "started"
  /\ Goes(u, "training")
  /\ history' = [history EXCEPT ![u] = Updated(@, project[u], "Running", 0)]
  /\ UNCHANGED <<contract, payments, trained, current, project, deleted, polls, mishaps>>

(* The workflow has no way back to the upload but a restart, which keeps   *)
(* the history file only.  In the middle of the workflow it is a fault.    *)
BeforeTheFile == {"paid", "named", "initialized"}

Restart(u) ==
  /\ Goes(u, "payment")
  /\ IF step[u] = "training" THEN UNCHANGED faults ELSE Fault
  /\ failed' = IF step[u] \in BeforeTheFile THEN failed \cup {current[u]} ELSE failed
  /\ polls' = [polls EXCEPT ![u] = {}]
  /\ UNCHANGED <<contract, payments, trained, current, project, files, untimely, misreads,
                 unconfirmed>>

IdsOf(u) == {h.id : h \in history[u]}

DeleteProject(u) ==
  /\ \E id \in IdsOf(u) :
       /\ history' = [history EXCEPT ![u] = {h \in @ : h.id # id}]
       /\ deleted' = [deleted EXCEPT ![u] = @ \cup {id}]
  /\ UNCHANGED <<contract, payments, trained, workflow, polls, mishaps>>

-----------------------------------------------------------------------------
(* The nodes train the chunks of a round and submit them; the contract     *)
(* announces the last one twice (TaskCompleted).                           *)
SubmitWeights(t) ==
  /\ t \in trained
  /\ Contract!Claim(t)
  /\ log' = IF owed[t] = 1 THEN Append(Append(log, t), OtherEvent) ELSE Append(log, t)
  /\ UNCHANGED <<openedBy, payments, trained, workflow, files, polls, mishaps>>

(* TrainingHistory: every tick of the timer polls each running project.    *)
TaskExists(t) == t \in Tasks /\ phase[t] \in {"untouched", "started"}
ExistsForEver(t) == t \in Opened
ExistsUntilLast(t) == TaskExists(t) /\ owed[t] > 1
Exists(t) == TaskExists(t)

PolledUnlessCompleted(status) == status # "Completed"
Polled(status) == status = "Running"

(* checkTaskStatus answers FALSE when its query fails, too; a finished     *)
(* task goes on to its events.                                             *)
CheckStatus(u, h) ==
  /\ Polled(h.status)
  /\ IF Exists(h.id) THEN Misread ELSE UNCHANGED misreads
  /\ polls' = [polls EXCEPT ![u] = @ \cup {[id |-> h.id, found |-> 0]}]
  /\ UNCHANGED <<contract, payments, trained, workflow, files, failed, untimely, faults,
                 unconfirmed>>

(* The events the mirror node has after the wait are the first n there     *)
(* are; the dashboard reads the last PageSize of them, whatever tasks they *)
(* are of.  No weights among them, or an error, end the poll.              *)
EventsOf(t, positions) == {i \in positions : log[i] = t}
Page(n) == {i \in 1..n : i > n - PageSize}

FetchEvents(u, p) ==
  /\ p.found = 0
  /\ \E n \in 0..Len(log) :
       LET found == Cardinality(EventsOf(p.id, Page(n))) IN
       /\ IF EventsOf(p.id, (n + 1)..Len(log)) # {} THEN Misread ELSE UNCHANGED misreads
       /\ polls' = [polls EXCEPT ![u] =
                      (@ \ {p}) \cup {q \in {[id |-> p.id, found |-> found]} : found > 0}]
  /\ UNCHANGED <<contract, payments, trained, workflow, files, failed, untimely, faults,
                 unconfirmed>>

Complete(u, p) ==
  /\ p.found > 0
  /\ history' = [history EXCEPT ![u] = Updated(@, p.id, "Completed", p.found)]
  /\ polls' = [polls EXCEPT ![u] = @ \ {p}]
  /\ UNCHANGED <<contract, payments, trained, workflow, deleted, mishaps>>

Poll(u) ==
  \/ \E h \in history[u] : CheckStatus(u, h)
  \/ \E p \in polls[u] : FetchEvents(u, p) \/ Complete(u, p)

Workflow(u) ==
  \/ Pay(u) \/ ReadTaskId(u) \/ InitializeRound(u) \/ AddHistory(u)
  \/ SendTrain(u) \/ MarkRunning(u) \/ Restart(u) \/ DeleteProject(u)

Next ==
  \/ \E u \in Users : Workflow(u) \/ Poll(u)
  \/ \E k \in Payments : Execute(k) \/ Revert(k)
  \/ \E t \in Tasks : SubmitWeights(t)

Spec == Init /\ [][Next]_vars

(* The timer fires, each poll gets its answers while the history page is   *)
(* open, and the user does open it.                                        *)
FairSpec ==
  /\ Spec
  /\ \A u \in Users, id \in Ids :
       /\ WF_vars(\E h \in history[u] : h.id = id /\ CheckStatus(u, h))
       /\ WF_vars(\E p \in polls[u] : p.id = id /\ FetchEvents(u, p))
       /\ WF_vars(\E p \in polls[u] : p.id = id /\ Complete(u, p))

-----------------------------------------------------------------------------
Steps == {"payment", "paid", "named", "initialized", "assembling", "started", "training"}
Statuses == {"Initialized", "Running", "Completed"}
Records == [payment: Payments, id: Ids, status: Statuses, weights: 0..NumChunks]

(* The id a workflow goes on with is the id of a task there is, or 0, and  *)
(* a payment has one record in the history of the user who paid.           *)
TypeOK ==
  /\ openedBy \in [Tasks -> Payments \cup {NoPayment}]
  /\ log \in Seq(Tasks \cup {OtherEvent})
  /\ sent \in 0..MaxPayments
  /\ payer \in [Payments -> Users \cup {NoUser}]
  /\ pending \subseteq 1..sent
  /\ trained \subseteq Opened \cup {NoTask}
  /\ step \in [Users -> Steps]
  /\ current \in [Users -> 0..sent]
  /\ project \in [Users -> Opened \cup {NoTask}]
  /\ \A u \in Users : history[u] \subseteq Records
  /\ \A u \in Users : \A g, h \in history[u] : g.payment = h.payment => g = h
  /\ failed \cup untimely \subseteq 1..sent
  /\ faults \in 0..MaxFaults /\ misreads \in 0..MaxMisreads
  /\ unconfirmed \in 0..MaxUnconfirmed

(* TrainingHistory.tsx:56-73 and hederaHelper.ts:118: while the ledger's   *)
(* answers are right and the mirror node is up to date, a project is shown *)
(* as completed with the weights of every chunk but those that have left   *)
(* the page, whatever polls, deletions, restarts, late payments and        *)
(* repeated start commands come in between: no more weights are missing    *)
(* than there are events beyond a page.                                    *)
Beyond == IF Len(log) > PageSize THEN Len(log) - PageSize ELSE 0

CompletedHasEveryWeight ==
  misreads = 0 => \A u \in Users : \A h \in history[u] :
                    h.status = "Completed" => h.weights + Beyond >= NumChunks

(* README.md:124: the frontend, "once it detects completion", "delivers    *)
(* the final weights back to the ML user": all of them.                    *)
AllWeightsDelivered ==
  misreads = 0 => \A u \in Users : \A h \in history[u] :
                    h.status = "Completed" => h.weights = NumChunks

(* TrainingContext.tsx:213-228: a task somebody paid for is in that user's *)
(* history, was deleted from it, or is on its way there.  Only two things  *)
(* lose it: a workflow that failed before the file was written, and an id  *)
(* read when another task was the newest, or the own one not yet there.    *)
NoPaymentForgotten ==
  \A t \in Opened : LET k == openedBy[t]  u == payer[k] IN
    \/ k \in failed \cup untimely
    \/ t \in IdsOf(u) \cup deleted[u]
    \/ current[u] = k /\ step[u] = "paid"
    \/ current[u] = k /\ step[u] \in {"named", "initialized"} /\ project[u] = t

(* TrainingContext.tsx:317: for a user whose payments were all named in    *)
(* time, a project that was shown as completed is never shown as anything  *)
(* else again.                                                             *)
Mistaken(u) == \E k \in untimely : payer[k] = u

CompletedIsFinal ==
  [][\A u \in Users : ~Mistaken(u)' => \A g \in history[u], h \in history'[u] :
       g.id = h.id /\ g.status = "Completed" => h.status = "Completed"]_vars

(* TrainingHistory.tsx:46: the history page finds out: a running project   *)
(* whose task is settled is shown as completed in the end, or deleted,     *)
(* unless its last event leaves the page first, or the user has two        *)
(* records of one id (the first of them is the one that is changed).       *)
Running(u, t) == \E h \in history[u] : h.id = t /\ h.status = "Running"
OffPage(t) == EventsOf(t, Page(Len(log))) = {}

SettledIsReported ==
  \A u \in Users, t \in Tasks :
    phase[t] = "settled" /\ Running(u, t) ~> ~Running(u, t) \/ OffPage(t) \/ Mistaken(u)

(* README.md:138: the round's topic is "dedicated to that training round": *)
(* a user's project is a task that user paid for.                          *)
ProjectIsOwn ==
  \A u \in Users : project[u] # NoTask => payer[openedBy[project[u]]] = u

(* PaymentPhase.tsx:263: "Your payment will be held in escrow until        *)
(* training completion": what the user trains is a task the payment of     *)
(* this workflow opened.                                                   *)
HeldInEscrow ==
  \A u \in Users : step[u] \in {"assembling", "started", "training"} =>
    project[u] \in OpenedBy(current[u])
=============================================================================
