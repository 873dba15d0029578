# A verification development for P2P Federated Learning

ML users pay for the training of a model on their dataset; trainer nodes of a
libp2p swarm train it chunk by chunk and are paid per chunk by a contract on
Hedera. This directory holds TLA+ modules of that program, TLC configurations
that check them on small instances, and TLAPS proofs of the results that do
not depend on the size of the instance. Source paths below are relative to
`src/`; `coordinator.py` is `p2p/coordinator.py`.

## 1. The system

| part | source | state | operations |
|---|---|---|---|
| Reward contract | `contracts/contracts/fed-learn.sol` | tasks, task counter, whitelist, pending withdrawals, balance | createTask, submitWeights, withdrawPending, cancelTask, whitelist calls, setPendingWithdrawal |
| Dataset chunking | `frontend/src/electron/akaveCli.ts`, `terminal/terimnal_interface.py` | the chunk being filled, the list of urls | read a row, upload a chunk, upload the manifest |
| Chunk assignment | `p2p/machine_learning.py`, `p2p/mesh_utils.py` | the manifest, the trainers, the shares | assign_chunks_to_nodes |
| Nodes (client, trainer) | `coordinator.py`, `p2p/runner.py` | subscriptions, `is_subscribed`, `training_topic`, `subscribed_topics`, the executing command | advertize, train, assign, join, leave, receive loops |
| Command channel | `coordinator.py` | one memory channel of 100 commands per node | send from receive loops, prompt, HTTP, greeter and the executor itself; receive by the executor |
| Mesh | `coordinator.py`, `p2p/mesh_utils.py` | role list, local mesh, bootstrap mesh, connected nodes | greet, refresh, flood on change, monitor, dial on join |
| Ledger client | `p2p/hiero_sdk_python` (vendored SDK) | current node of the network, attempts, the frozen transaction | execute a transaction, query its receipt, rotate nodes |
| Dashboard | `frontend/src/ui`, `frontend/src/electron/ipc` | workflow phase, project id, history file, polls | submit a payment, read the id, initialise, start, poll, delete |
| Log subscription | `frontend/src/electron/logServices.ts` | one subscription, a log list per project | start, stop, message |
| Storage | `akave/mcache.py` | the list of urls | upload, download |

How they interact. The dashboard cuts a dataset into chunks, uploads them and
a manifest of their urls, calls the contract (`createTask`), reads back a task
id and posts `advertize <id>` to the client node, which subscribes to a pubsub
topic of that name. Trainer nodes `join` the topic. The bootstrap node collects
who is subscribed to what and floods summaries; the client's copy is the roster
it deals the chunks to when the dashboard posts `train`. The assignment is one
pubsub message. A trainer's receive loop puts it in the node's command channel;
its executor trains the chunks in turn, uploads each result and calls
`submitWeights` for it through the ledger client, which pays the trainer. The
dashboard polls the contract until the task no longer exists and collects the
weights from the contract's events.

What is hard about it:

* **Interleaving.** Users' commands and assignments of several rounds reach the
  executor through one queue; the flags that say which round a node is in are
  changed by three commands. Three loops of the bootstrap share one summary.
  Two users' payments interleave with the query for "the" task id. Polls of the
  history page overlap.
* **Failure.** Storage, the ledger and nodes fail in the middle of a command;
  an answer is lost after the call was executed; an upload stops between two
  chunks; nothing is persisted by a node.
* **Bounds.** The executor is also a sender of the channel it alone empties.
  A call has ten attempts, whatever the number of the ledger's nodes.
* **Money.** Integer division, refused transfers that turn into credits,
  cancellation racing submissions, a slot cleared before it is read, retries of
  a claim that was executed, payments executed after the dashboard went on.
* **Delivery.** Pubsub loses, delays and reorders; the roster is stale; a node
  is connected to the one random peer it dialled.

What makes each part correct: the contract must account for every deposit and
lose no reward; each row must be trained by exactly one trainer; a trainer must
be in one round at a time and claim from the right task; a chunk must be paid
once; a paid round must end; the command channel must keep going; the client
must learn of the trainers of its round, of nobody else, and reach them; a
transaction must be applied once and reported as what it was; the dashboard
must not forget a payment, nor call a project completed before it is.

## 2. Modules

| module | models | kind |
|---|---|---|
| `TaskPromise` | what the contract promises of a task: opened once, claimed chunk by chunk, or cancelled untouched; nothing of money | abstract specification |
| `Escrow` | every function of the contract | component, implements `TaskPromise` |
| `RoundRobin` | the closed form `Share` of a trainer's chunks | operators |
| `Assignment` | from rows to chunks, manifest and shares | algorithm with failing uploads, computes `Share` |
| `TrainingRound` | client, trainers, pubsub and the contract in one round or several | composition with `TaskPromise` and `RoundRobin` |
| `CommandChannel` | the bounded channel, its senders and the executor | component |
| `Mesh` | bootstrap, client and trainers finding each other | component |
| `LedgerClient` | a transaction and its receipt query over several nodes | component over an external ledger |
| `Dashboard` | the ML user's workflow, history and polls | composition with `TaskPromise` |
| `EscrowProofs`, `AssignmentProofs`, `TrainingRoundProofs`, `CommandChannelProofs`, `MeshProofs`, `LedgerClientProofs`, `DashboardProofs` | theorems, section 4 | proofs |
| `SumLemmas` | the sum of the values of a function with a finite domain | lemmas for the proofs |
| `MC*` | constants for TLC | |

How they fit together. `TrainingRound` and `Dashboard` do not contain the
contract but its promise, `TaskPromise`: what they do to a task is a step of it
(`Contract!Open`, `Contract!Claim`, `Contract!Cancel`) by the way they are
written, and `Escrow` is proved to implement it. `TrainingRound` does not run
the dealing loop but uses `Share`; `Assignment` is proved to compute it. Its
`MeshSummary` is what `Mesh` says of a client's list (`RosterIsGenuine`), its
`PublishWeights` with a fault is what `LedgerClient` says of a call: executed
once, perhaps reported as an error.

### Escrow

The variables are the contract's storage and a few totals of what its events
say (`earned`, `paidOut`, ...), from which the properties speak. Each external
function is one action, reverting calls are no steps. Accounts run no code when
they are paid; a transfer may be refused, which the contract turns into a
credit. Arithmetic is checked (Solidity 0.8), so an addition that exceeds
`MaxUint` reverts (`Fits`). `setPendingWithdrawal` assigns any credit and
checks no caller. `overridden` remembers whom it was called for:
`BalanceAccounted` is stated until it is called at all, `RewardsPaidOrCredited`
for the accounts it was not called for. Urls and encrypted hashes are only put
in events and not modelled.

`CancelTask` is in the order of the code: the slot is cleared, then the
transfer reads the depositor from it. What leaves the contract is counted in
`sentAway` and whom it was sent to in `refundedTo`; `TaskBalanced`,
`OpenWhileOwing` and `TaskPromise` say nothing of the receiver, the run
`escrow_refund` does.

### Assignment

`ReadRow`, `FinishUpload` and `UploadFails` are `uploadDatasetInChunks`: a row
that does not fit closes the chunk and opens the next one, the end of the file
closes the last one, a failed upload ends the call and the user starts again.
The terminal client's `upload_dataset_to_akave` cuts in the same way.
`StartDealing` and `GiveNext` are the loop of `assign_chunks_to_nodes` with its
counter. A row is its number and a size, a chunk its rows, a share a list of
positions in the manifest. `get_channel_nodes` gives a list without repetitions
and `train` stops on an empty one; a round of no chunks cannot be paid for.

### TrainingRound

`Join`, `Leave` and `ExecuteLog` are commands of the executor in one step: it
is the only receiver, so its awaits let no other command in. An assign command
is several steps, because deliveries, other nodes and the contract go on
between them: `StartAssign`, then for each chunk `SendLog` for every log
(`LogsPerChunk`, four in the code: two downloads, the start and the end of the
training), `TrainChunk` with the upload, and `PublishWeights` or
`PublishFails`, and `FinishAssign` at the end. A log goes into the node's own
bounded channel: when it is full the executor waits for itself (`Stuck`), as in
`CommandChannel`, and other senders wait for room. `RaiseInChunk` and
`LogException` are an exception in `train_on_chunk`, after any number of
its logs. `Train` is the client's command, `Receive` the receive loops,
`UserCommand` prompt and HTTP, `Crash` the process. `Fault`s are a lost
message, a training that returns nothing or an old url, a transaction that
fails or is executed but not answered, a crash. `MeshSummary` refreshes the
client's roster at any time, or never, which covers the mesh protocol's delays.

The list `subscribed_topics` decides the task to claim from. It is kept as in
the code, with `list.remove` raising before the flags are reset; users may
leave any topic, `fed-learn` included, and join rounds. A `WeightsSubmitted`
event is a numbered record, so that a claim made twice is two events. `train`
may be given `MaxTrains` times per round, as by a dashboard that starts the
training again.

### CommandChannel

`Send` and `NextEnters` are trio's memory channel: a full channel parks its
senders first come first served. `Execute` takes a command; an assign command
leaves the executor in `run`, from where `SendLog` sends the log messages of
`train_on_chunk` and `download_file_from_url` into the same channel, five at
most. The commands other than assign are one step.

### Mesh

Nodes `Start` (subscribe to fed-learn), `Greet`, the client does `Advertise`,
trainers `Join` and, two seconds later, `Dial` a random other peer of their
copy of the round's list. `RefreshMesh`, `Flood`, `MonitorLook` and
`MonitorPublish` are the loops of the bootstrap, each reading and writing what
the others do; `flooded` and `known` are the copies they compare with. The mesh
summary is the code's dictionary topic -> peers with roles, and a role is
TRAINER, CLIENT or UNKNOWN as the greetings decide.

Abstractions: a subscription reaches the bootstrap at once (the loops that look
every two seconds are what makes its summary stale), a greeting or a summary
arrives at once or never, `view` keeps of a received summary the round's list
only, a trainer joins the round once, and the bootstrap does not restart, since
no node would connect to it again. Lost summaries, crashes and leaves share one
bound, `MaxFaults`.

### LedgerClient

`Begin`, `NoAnswer`, `TryAgain`, `Refused`, `Accepted`, `ReceiptArrives` and
`GiveUp` are one turn, or the end, of `_Executable._execute`, once for the
transaction and once for its receipt. The ledger is external: it takes a
transaction at most once per id and handles it in its own time. What the
receipt says is looked at by `publish_on_chain` and not by
`submit_hcs_message`, hence `Claims` among the calls: a log is reported as
submitted whatever its receipt says (`MCLedgerLog.cfg`).

### Dashboard

`Pay`, `ReadTaskId`, `InitializeRound`, `AddHistory` are the awaits of
`payAndInitialize`; `SendTrain` and `MarkRunning` those of
`beginFinalTraining`; `CheckStatus`, `FetchEvents`, `Complete` those of a poll.
Several polls can be in flight.

The wallet answers `Pay` with the id of a submitted transaction and nobody asks
for its receipt (`walletConnectClient.ts:95`). So the network's `Execute` or
`Revert` of a payment is a step of its own, in any order, before or after the
number of tasks is read. A history record carries the payment it was written
for and the id that was read, so that a stale id, or one read twice, is told
from the right one. `Unconfirmed` bounds the ids read while the own task is not
there, `untimely` remembers them and the ids read when another task was the
newest.

`FetchEvents` reads one page, the last `PageSize` of the contract's events
(100 in the code), of all tasks and kinds: a task's opening and its
`TaskCompleted` take a place each. `Fault` counts failed or unanswered calls
and restarts in the middle of the workflow, `Misread` failed status queries and
events the mirror node does not have yet. Whether the history page is open, and
which snapshot of the file it shows, is abstracted to "a poll may start
whenever a project is running".

## 3. Runs

| run | question | bounds | result |
|---|---|---|---|
| `escrow` | every call in any order: deposits and the balance accounted for to the coin, stages of a task, rewards paid once, promise implemented | 2 accounts, 2 tasks, amounts 0 and 3, 0 to 2 chunks | holds |
| `escrow_refund` | a cancelled task's deposit goes to its depositor | 2 accounts, 1 task | violated |
| `assignment` | chunks fit, every row trained by exactly one trainer, the loop computes `Share` | up to 6 rows of 1 to 3 bytes, chunks of 3, 1 failed upload, up to 3 trainers in any order | holds |
| `round_faults` | one round with joins, leaves, crashes, losses, failures; completion is honest, no chunk is claimed twice, the round ends if nothing disturbs it | 2 trainers, 3 chunks of 1 log, 2 commands each, channel of 2, 1 train, 2 faults | holds |
| `round_joins` | two rounds, joined and left in any order, `fed-learn` left, too, trainings started again: one round at a time, no chunk claimed twice for one train command, a missing chunk has its cause | 1 trainer, 2 rounds, 2 chunks, 4 commands, 2 trains each, 1 fault | holds |
| `round_weights` | what is rewarded are the chunk's weights | 2 trainers, 2 chunks, 1 fault | violated |
| `channel` | progress up to self-blocking, and none after it, of a full channel | 2 places, 2 senders, 2 commands each, up to 2 chunks of 2 logs | holds |
| `dashboard` | payments, history and polls of one user | 2 payments, 2 chunks, page of 3, 1 fault, 1 misread, 1 id read too early | holds |
| `dashboard_race` | a user's project is the task that user paid for | 2 users, 2 payments, no fault | violated |
| `mesh` | rosters are genuine; the client finds the trainer | client and trainer, 2 greetings of which 1 may be lost, 1 fault | holds |
| `mesh_partition` | assignments reach the trainers listed | client and 2 trainers, 1 greeting, no fault | violated |
| `ledger_client` | nothing applied twice, every node tried | 3 nodes, 4 attempts, a log and two claims | holds |

Five more configurations each violate one property, to be run by hand
(`tlc -config MCLedgerLog.cfg MCLedgerClient`):

| configuration | question | bounds |
|---|---|---|
| `MCRoundWrongTask.cfg` | weights are claimed from their round's task | 1 trainer, 2 rounds, 3 commands, no fault |
| `MCChannelStuck.cfg` | everything sent is executed | 3 places against 4 logs |
| `MCDashboardLate.cfg` | a lone user trains the task this payment opened | 2 payments, no fault, 1 id read too early |
| `MCDashboardPage.cfg` | a completed project has all the weights | 1 payment, 2 chunks, page of 2, no fault |
| `MCLedgerLog.cfg` | a success reported is one on the ledger | 2 nodes, 2 attempts, 1 log |

Why the bounds are enough. Six rows make up to six chunks, more than trainers,
and sizes 1 to 3 against a limit of 3 let a row fill a chunk exactly, alone or
with others, or not fit. Three chunks for two trainers make one trainer have
two, so that a failure can strike between them, and the other finish before.
Two faults are a failure and one while recovering from it. Two rounds are what
a wrong topic takes, and four commands a trainer that joins, leaves `fed-learn`
or a round, and joins again; in that run one trainer is enough, as its flags
and topics are its own. Two train commands are the dashboard's retry. The
channel's 100 places against about four logs for each of many chunks become two
places against a log per chunk next to users' commands in `TrainingRound`,
where the channel both overflows and does not, and two or three places against
four logs in `CommandChannel`. A page of three holds the two weights of a task
and its completion, and loses one of them to the next event; the other task's
events push all of them out. The deposit of 3 over two chunks leaves a
remainder. One trainer suffices to be missed by every order of the bootstrap's
loops, two to form an island. Four attempts are more than the three nodes, so
that a rotation comes round, and three calls let a later one start where the
first left the rotation. Where a safety property could depend on a bound all
the same, section 4 proves it for every value.

Deadlock is not checked: the bounds on commands, tasks and calls let every
model stop. That the program itself can stop is the subject of
`MCChannelStuck.cfg` and of the liveness properties.

**Fairness.** `round_faults` assumes that an executor that can run does (trio
schedules it, nothing else takes its commands) and that messages in flight are
delivered or lost; `TrainedRoundEnds` speaks of behaviours without faults,
`leave` and a second `train`, and excepts a trainer whose logs fill its own
channel, which is the hang of `MCChannelStuck.cfg`. Users owe nothing: they may
never join, train or leave. `channel` assumes fairness of the executor only.
`mesh` assumes that the loops of the bootstrap and of the nodes go on (each is
a `while` with a sleep, started once, that ends with the process) and that a
node goes on greeting; nodes need not start, join or stay. `dashboard` assumes
that the history page's timer fires and that each poll gets its answers; the
user need not pay, start or delete, and the network need not execute a payment.
`SettledIsReported` excepts a project whose events have left the page, since no
poll finds it any more. No liveness is claimed of `escrow`, `assignment` and
`ledger_client`: their callers owe them nothing, and the retry loop ends by its
count.

### What the counterexamples show

* `escrow_refund`: `cancelTask` deletes the slot a storage pointer refers to
  and then pays `t.depositor` (`fed-learn.sol:208`, `210`): the refund goes to
  the zero address, or the call reverts where the network refuses that
  transfer. The promise the contract makes of tasks, not of money, holds all
  the same.
* `MCRoundWrongTask.cfg`: join round 1, receive its assignment behind a queued
  `leave 1`, `join 2`; the executor then trains round 1's chunk and claims it
  from task 2 (`coordinator.py:418` uses the last topic of the list), although
  the topic is "dedicated to that training round" (`README.md:138`).
* `round_weights`: a failed download, training or upload yields `None` or the
  url before; `str(None)` is not empty, so it is submitted and rewarded.
* `MCChannelStuck.cfg`: the executor fills its own channel and waits for
  itself. In the code that takes about 25 chunks for one trainer, or fewer if
  commands are queued already.
* `dashboard_race`: the number of tasks is read two seconds after the payment;
  another payment in between makes both users own the later task.
* `MCDashboardLate.cfg`: the wallet's answer is not the network's. A
  `createTask` that is reverted, or executed after the two seconds, leaves the
  dashboard with the id of an older task, or 0, for which it opens and trains a
  round.
* `MCDashboardPage.cfg`: one page of the contract's events is read, so the
  oldest weights of a task that has more events are left out without a notice.
* `mesh_partition`: each of two trainers dials the other. Nobody in the round
  is connected to the client, the bootstrap is not in the round's topic and
  passes nothing on, and no node dials again: the client deals chunks to
  trainers that its messages do not reach.
* `MCLedgerLog.cfg`: `execute` returns any receipt, and `submit_hcs_message`
  prints a success without looking at it (`coordinator.py:231`).

Seen while modelling, without a run of their own:

* Contract: `createTask` says the deposit must be divisible by the number of
  chunks and does not require it; the remainder stays in the contract (`Dust`
  in `TaskBalanced` accounts for it).
* Round: one failure is enough for a round never to end. After an exception the
  rest of the assignment is dropped (`coordinator.py:595`), and nobody else is
  given the chunks of a trainer that crashed, missed the message or left. A
  second `train` command has every chunk dealt and paid again, so the task may
  settle before some chunk arrived (`MissingChunkHasCause` counts this cause).
  Without any fault it may also keep the round from ending: a trainer that
  finishes the second assignment first leaves the topic, and the first message
  is not read.
  After a finished assignment a trainer has left the topic but still counts as
  subscribed and must `leave` before it can join again. Who leaves `fed-learn`
  itself has the flags cleared and keeps the round's subscription
  (`OneRoundAtATime` says what holds then). A trainer encrypts with a key in
  the source (`client_public_key`) and not with the one it receives and stores
  (`client_pub_key`, `coordinator.py:356` and `384`).
* Channel: the logs of a training queue behind the assign command that sends
  them and appear after its "Completed" log, which does not use the channel.
* Mesh: the monitor publishes the summary of the moment, the flood loop
  compares with the last one it flooded itself; a mesh that returns to that
  state is not flooded again. Needs a node that leaves and rejoins within two
  seconds, hence outside the model.
* Ledger client: only a missing answer rotates to the next node; a node that
  answers BUSY is asked ten times. The SDK lists twelve nodes for the main
  network (`client/network.py:33`), so a call there may give up with nodes
  untried (`N <= MaxAttempts` in `GivesUpAfterAllNodes`). After a lost answer
  the next node may say DUPLICATE, which raises although the transaction is
  applied, so that an error does not mean that nothing happened.
* Dashboard: a project whose weights have left the page before a poll read them
  stays "Running" for ever. When an old id is read again, the history has two
  records of it and only the first, the newer, is ever updated
  (`historyHandlers.ts:22`), which shows a completed project as initialised.

## 4. Proofs

The theorems hold for every value of the constants that satisfies the named
assumption of the component's module (`EscrowAssumption`, `MeshAssumption`,
...), which TLC also evaluates in the runs. Hypotheses beyond that are part of
the statement and named below. Every proof of an invariant has one step per
action; the facts about sequences, sets and sums it needs are lemmas stated
once.

| module | theorems (property of a run) |
|---|---|
| `EscrowProofs` | `TypeCorrect`, `EveryTaskBalanced` (TaskBalanced), `AlwaysOpenWhileOwing` (OpenWhileOwing), `RewardsNeverLost` (RewardsPaidOrCredited), `ContractImplementsPromise` (ImplementsPromise), `EveryCoinAccounted` (BalanceAccounted); hence `ContractSolvent`, `TransfersNeverFallShort`, `WillingAccountsArePaid` |
| `AssignmentProofs` | `TypeCorrect`, `EveryChunkDealtOnce` (DealtOnce), `LoopDealsShares` (DealsShares), `RowsTrainedOnce` (EveryRowTrainedOnce), `EveryChunkFits` (ChunksFit); hence `NoChunkIsWasted` |
| `TrainingRoundProofs` | `TypeCorrect`, `OneRound` (OneRoundAtATime), `CompletedWasUploaded` (CompletedMeansUploaded), `NoChunkRewardedTwice` (ChunkRewardedOnce), `MissingChunksHaveCauses` (MissingChunkHasCause); around the findings: `WeightsStayInRound` (WeightsReachTheirRound), `EachLossIsAFault`, `RewardedWhileNothingFails` (RewardedForWeights) |
| `CommandChannelProofs` | `TypeCorrect`, `StuckForEver` (ParkedForEver) |
| `MeshProofs` | `TypeCorrect`, `RosterNeverInvented` (RosterIsGenuine); around the finding: `LoneTrainerIsReached` (BroadcastReachesRoster) |
| `LedgerClientProofs` | `TypeCorrect`, `NoTransactionTwice` (AppliedOnce), `AllNodesTried` (GivesUpAfterAllNodes) |
| `DashboardProofs` | `TypeCorrect`, `PaymentsRemembered` (NoPaymentForgotten), `CompletedStays` (CompletedIsFinal), `CompletedIsWhole` (CompletedHasEveryWeight), `ShowsOnlySubmitted`; around the finding: `LoneUserIsHeld` (HeldInEscrow) |
| `SumLemmas` | the lemmas on sums the first two rest on |

**Sums.** Money over all tasks and sizes over all rows of a chunk are sums of
the community module's `SumFunction`, a recursive function on the subsets of
the domain. What it computes is proved by the smallest counterexample instead
of induction: among the subsets for which a claim fails there is one without
a proper subset that fails (`SmallestSubset`, from the well-foundedness of
strict inclusion on finite sets), and taking one element from it leads to a
contradiction. The first such argument says that the recursion equation has a
solution, the number of cells of a diagram with `w[x]` cells in column `x`, and
only this one. From there: a sum is a natural number, changes with one value by
that value's difference, is additive, and bounds each pair of its terms.

**Escrow.** The inductive invariant is `TypeOK` together with `TaskLedger`:
each task slot is in one of four stages (unused, in progress, settled,
cancelled), and the stage fixes how many chunks remain, what was rewarded, what
a cancellation took out (`LedgerHolds`, a lemma). `TaskBalanced` alone is not
inductive, since nothing would tie the remaining chunks to the rewards paid.
`RewardsNeverLost` is a second, per-account, induction. `EveryCoinAccounted` is
a third, over the whole contract: with the ledger, each call changes one term
of the sums (or moves an amount from one to the other) by what it takes from
the balance. It is an equation because an inequality, solvency, is not
inductive: a transfer out of the surplus could break it later. That the set of
accounts is finite is part of `EscrowAssumption` for the sake of the sum. From
it follow that the contract can pay all it owes at once, that no single
transfer falls short, and that a reward is only turned into a credit when the
account refused it. `ContractImplementsPromise` maps every call to a step of
`TaskPromise` or a stutter, under the invariant.

**Assignment.** `EveryChunkDealtOnce` carries that the dealt chunks are exactly
`1..i`, each at one place: the new chunk `i + 1` is in no share yet.
`LoopDealsShares` says how many chunks each trainer has and which one is next,
by the quotient and remainder of `i`. `RowsTrainedOnce` puts the two levels
together: rows are placed once in the chunks (the split keeps it row by row, a
failed upload returns to the start), chunks once in the shares, hence rows once
with the trainers. `EveryChunkFits` follows the chunk being filled: its size is
the sum over its rows, a row is added only if the sum stays within the limit,
and a chunk is closed by a row that would not have fitted.

**TrainingRound.** `TypeCorrect` needs one fact of the contract's promise to be
carried along, `OwesWhileOpen` (a task that can be claimed owes something), for
the subtraction in a claim. `OneRound` has two cases per trainer. While it is
in `fed-learn` its list is `<<fed-learn>>` or `<<fed-learn, topic>>` and the
flag says which (`WithinRound`); once it left, the flag and the topic still
agree (`OutsideMesh`), which is all that is claimed of it.

*Rewards.* `CompletedWasUploaded` rests on `WorkedOff`: what a running assign
command has left is a tail of its share, and every chunk before it was counted.
`NoChunkRewardedTwice` is not inductive. The strengthening (`Apart`) says that
an assignment is in one place only (on the wire, at one place of a channel or
in an executor), that the shares of the messages of one train command are
disjoint (from `RoundRobin`), that of a message in play only the chunks behind
the trainer's place have been claimed, and that no message or claim is of a
train command yet to come. Claims are numbered records, so "not twice" is said
of events. `MissingChunksHaveCauses` adds a count: the claims made on a task
and what it owes make up the number of chunks. Hence a settled task was claimed
from `NumChunks` times, and since the claims of a first training of its own
round are of different chunks, each chunk that is missing leaves room for a
claim of another kind.

*Around the findings.* The two violated properties of the round are proved for
the behaviours that do not meet their cause, which shows that it is the cause.
`WeightsStayInRound`: while no user enters a `leave`, weights are claimed from
their own round, for any number of rounds. Every assignment on the wire, in a
channel or in an executor is of its trainer's topic (`AssignedInRound`), and
the topic is not given up: a finished assignment unsubscribes but leaves the
flags, which refuse another join. `EachLossIsAFault` bounds the damage of a
hidden failure: the chunks submitted without their own weights, together with
those that wait to be, are no more than the faults (`FaultsCover`), so that
each submission of an old url, or of none, has a failure of its own counted.
`RewardedWhileNothingFails` is its case of no fault.

**CommandChannel.** `StuckForEver` rests on the executor parking only in the
middle of an assign command, where it cannot receive.

**Mesh.** `RosterNeverInvented` carries the same statement through all the
copies of the summary: the local mesh, the flooded one and what the nodes have.
That a node leaves does not break it, because `ever` remembers; the role comes
from the greeting only. `LoneTrainerIsReached` is what is left of the violated
`BroadcastReachesRoster`: a connection joins a trainer and another node
(`LinksJoin`), which in a round of one trainer is the client.

**LedgerClient.** `NoTransactionTwice` rests on `TakenAsFrozen`: every id
the ledger has taken is the frozen id of its call.
`AllNodesTried` follows the rotation: after `k` requests without an answer the
nodes tried are the `k` from where it started (`MetFrom`, `Rotated`).

**Dashboard.** The inductive invariant is about payments, not ids, because an
id read may be anybody's: tasks are opened in the order of their ids and each
by one executed payment (`InOrder`, `Paid`), a payment has one record, in the
history of who paid (`FiledFor`). `PaymentsRemembered` follows a payment from
the wallet on: while it is pending its workflow waits for it, or has failed, or
has taken another id (`Awaited`). `CompletedStays` is stated for users without
such an id: a record is then of the task its payment opened, and until its
training has started no poll knows it (`TimelyFor`). `CompletedIsWhole` says
that a poll which was answered right knows a settled task, and that what it
read is all but what lies beyond the page (`ReadTruly`). `ShowsOnlySubmitted`
holds with wrong answers, too: what a poll in flight has found was submitted,
and the contract's count only grows. `LoneUserIsHeld` is what is left of the
violated `HeldInEscrow`: with one user, no failed call and every payment
executed when its id is read, the newest task is the user's own.

Only model-checked: the liveness properties (`TrainedRoundEnds`,
`ExecutedUnlessParked`, `SettledIsReported`, `TrainerIsFound`), because
liveness under fairness and `ENABLED` are out of the provers' reach. Every
invariant and action property of the passing runs is a theorem. Of the
properties with a counterexample, four are theorems under the hypothesis that
excludes its cause (`WeightsReachTheirRound`, `RewardedForWeights`,
`BroadcastReachesRoster`, `HeldInEscrow`); `EverySentExecuted` is one of
liveness, whose safety half is `StuckForEver`, and what `AllWeightsDelivered`
loses is bounded by `CompletedIsWhole`. For the other three there is no more
than their counterexample.

## 5. Not modelled

* The log subscription of the dashboard and topic queries: what a new
  subscription replays is decided by the Hedera SDK and the mirror node.
* The Akave client: wrappers of a command line, without state but the list of
  urls, whose last element and outcomes are in `TrainingRound`.
* The `query`, `publish`, `create-hcs` and `connect` commands of a node, which
  touch no state of a round. `query` sleeps in a loop without giving trio a
  turn (`coordinator.py:261`) and stops the whole node until it is interrupted,
  which for the others is the crash of `TrainingRound`.
* Encryption, the format of models and datasets, the training itself.
* The terminal client, which keeps no state; the wallet library (what it
  answers and when is in `Dashboard`), settings, windows and pages; logging.
* The rest of the vendored Hedera SDK: builders of transactions and queries,
  keys, and generated protobuf code. It is vendored twice (`hiero_sdk_python`
  and `p2p/hiero_sdk_python`) and makes up most of the repository's lines of
  Python. Builders and generated classes set fields and convert formats; a
  model of them would repeat them. The models cover the program's own logic,
  which is a small share of all lines.

## 6. Plan

1. `Mesh` with nodes that leave and rejoin and bootstraps that restart, for the
   difference between what was flooded last and what was published last.
2. The log store, once what a subscription delivers is pinned down.
