--------------------------- MODULE TrainingRound ---------------------------
(***************************************************************************)
(* A training round across the nodes: the dashboard pays for a task, the   *)
(* client node opens a pubsub topic named after the task and broadcasts    *)
(* the chunk assignments, trainer nodes join the topic, train their chunks *)
(* and claim a reward per chunk from the contract                          *)
(* (src/p2p/coordinator.py, src/p2p/machine_learning.py).                  *)
(*                                                                         *)
(* A trainer is one process: the receive loop of each subscription puts    *)
(* assignments, and the user puts commands, in one bounded channel that    *)
(* command_executor empties one command at a time; training a chunk puts   *)
(* log commands in the same channel, waiting for room when it is full.     *)
(* The contract is the promise it implements (TaskPromise, refined by      *)
(* Escrow); the assignments are the closed form the loop computes          *)
(* (Assignment).  Pubsub delivers a message to each subscriber at most     *)
(* once, late, in any order, or never.                                     *)
(***************************************************************************)
EXTENDS RoundRobin, Integers, Sequences, FiniteSets, SequencesExt

CONSTANTS Trainers,     \* trainer nodes
          Rounds,       \* task ids, which are the topic names
          FedLearn,     \* the topic every node joins at start-up
          LeaveTopics,  \* topics users give to the leave command
          NumChunks,    \* chunks of a dataset
          ChannelSize,  \* capacity of the memory channel (100 in the code)
          LogsPerChunk, \* log commands a trained chunk sends (4 in the code)
          MaxCommands,  \* bound: user commands per trainer
          MaxTrains,    \* bound: train commands per round
          MaxFaults,    \* bound: failures of storage, network, ledger, process
          NoUrl         \* "no weights were uploaded"

ASSUME RoundAssumption ==
  /\ IsFiniteSet(Trainers)
  /\ Rounds \subseteq Nat \ {0}
  /\ FedLearn \notin Rounds
  /\ LeaveTopics \subseteq Rounds \cup {FedLearn}
  /\ NumChunks \in Nat \ {0} /\ ChannelSize \in Nat \ {0} /\ LogsPerChunk \in Nat
  /\ MaxCommands \in Nat /\ MaxTrains \in Nat /\ MaxFaults \in Nat

VARIABLES
  phase, owed,        \* the contract, as the promise sees it
  roster,             \* client: trainers of each topic in its bootstrap mesh
  trains,             \* client: train commands executed per round
  wire,               \* assign messages published and not yet received
  subscribed,         \* trainer: pubsub subscriptions to round topics
  isSubscribed, trainingTopic, subscribedTopics,
  channel,            \* trainer: commands waiting for command_executor
  job,                \* trainer: the assign command being executed
  lastUrl,            \* trainer: akave_client.urls[-1]
  commands,           \* trainer: user commands entered
  faults,             \* failures so far
  submissions,        \* WeightsSubmitted events, with what they stand for
  completed           \* "Training on all assigned chunks ...: Completed" logs

contract == <<phase, owed>>
client   == <<roster, trains>>
member   == <<subscribed, isSubscribed, trainingTopic, subscribedTopics>>
history  == <<submissions, completed>>
vars == <<contract, client, wire, member, channel, job, lastUrl, commands, faults, history>>

Contract == INSTANCE TaskPromise WITH TaskIds <- Rounds, ChunkCounts <- {NumChunks}

Chunks == 1..NumChunks
NoTopic == 0
Idle == [state |-> "idle"]
Down == [state |-> "down"]
Running(n) == job[n].state # "down"

Init ==
  /\ Contract!Init
  /\ roster = [t \in Rounds |-> {}]
  /\ trains = [t \in Rounds |-> 0]
  /\ wire = {}
  /\ subscribed = [n \in Trainers |-> {}]
  /\ isSubscribed = [n \in Trainers |-> FALSE]
  /\ trainingTopic = [n \in Trainers |-> NoTopic]
  /\ subscribedTopics = [n \in Trainers |-> <<FedLearn>>]
  /\ channel = [n \in Trainers |-> <<>>]
  /\ job = [n \in Trainers |-> Idle]
  /\ lastUrl = [n \in Trainers |-> NoUrl]
  /\ commands = [n \in Trainers |-> 0]
  /\ faults = 0
  /\ submissions = {}
  /\ completed = {}

Fault == faults < MaxFaults /\ faults' = faults + 1

-----------------------------------------------------------------------------
(* The dashboard and the client node.                                      *)
OpenTask(t) ==
  /\ Contract!Open(t, NumChunks)
  /\ UNCHANGED <<client, wire, member, channel, job, lastUrl, commands, faults, history>>

CancelTask(t) ==
  /\ Contract!Cancel(t)
  /\ UNCHANGED <<client, wire, member, channel, job, lastUrl, commands, faults, history>>

(* A summary of the mesh reaches the client.  It may list trainers that    *)
(* have left since and lack some whose role or presence the bootstrap has  *)
(* not heard of yet (Mesh), none that was never in the round.              *)
MeshSummary(t) ==
  /\ \E listed \in SUBSET (roster[t] \cup {n \in Trainers : t \in subscribed[n]}) :
       roster' = [roster EXCEPT ![t] = listed]
  /\ roster' # roster
  /\ UNCHANGED <<contract, trains, wire, member, channel, job, lastUrl, commands,
                 faults, history>>

(* What the k-th of m trainers is asked to train. *)
AllButLast(k, m) == Share(k, m, NumChunks - 1)
OneTooMany(k, m) == Share(k, m, NumChunks + 1)
FirstForAll(k, m) == Share(1, m, NumChunks)
ShareOf(k, m) == Share(k, m, NumChunks)

Train(t) ==
  /\ trains[t] < MaxTrains
  /\ roster[t] # {}
  /\ \E nodes \in SetToSeqs(roster[t]) :
       wire' = wire \cup
         {[to |-> nodes[k], round |-> t, train |-> trains[t] + 1,
           share |-> ShareOf(k, Len(nodes))]
            : k \in {j \in 1..Len(nodes) : t \in subscribed[nodes[j]]}}
  /\ trains' = [trains EXCEPT ![t] = @ + 1]
  /\ UNCHANGED <<contract, roster, member, channel, job, lastUrl, commands, faults, history>>

Lose(m) ==
  /\ m \in wire
  /\ Fault
  /\ wire' = wire \ {m}
  /\ UNCHANGED <<contract, client, member, channel, job, lastUrl, commands, history>>

-----------------------------------------------------------------------------
(* A trainer's channel.                                                    *)
HasRoom(n) == Len(channel[n]) < ChannelSize

Enqueue(n, cmd) ==
  /\ Running(n)
  /\ HasRoom(n)
  /\ channel' = [channel EXCEPT ![n] = Append(@, cmd)]

UserCommand(n) ==
  /\ commands[n] < MaxCommands
  /\ commands' = [commands EXCEPT ![n] = @ + 1]
  /\ \/ \E t \in Rounds : phase[t] # "none" /\ Enqueue(n, [cmd |-> "join", topic |-> t])
     \/ \E t \in LeaveTopics : Enqueue(n, [cmd |-> "leave", topic |-> t])
  /\ UNCHANGED <<contract, client, wire, member, job, lastUrl, faults, history>>

(* receive_loop forwards the words of the message: the topic is not one.   *)
(* A message that arrives after the node unsubscribed is not read.         *)
Receive(m) ==
  /\ m \in wire
  /\ wire' = wire \ {m}
  /\ IF Running(m.to) /\ m.round \in subscribed[m.to]
       THEN Enqueue(m.to, [cmd |-> "assign", message |-> m])
       ELSE UNCHANGED channel
  /\ UNCHANGED <<contract, client, member, job, lastUrl, commands, faults, history>>

NextCommand(n, name) ==
  /\ job[n] = Idle
  /\ channel[n] # <<>>
  /\ Head(channel[n]).cmd = name
  /\ channel' = [channel EXCEPT ![n] = Tail(@)]

(* The refusal and the rest of the join (a random peer is dialled, the     *)
(* joining is announced) change nothing else this node keeps.              *)
JoinAlways(n) == TRUE
MayJoin(n) == ~isSubscribed[n]

Join(n) ==
  /\ NextCommand(n, "join")
  /\ LET t == Head(channel[n]).topic IN
     IF MayJoin(n)
       THEN /\ subscribed' = [subscribed EXCEPT ![n] = @ \cup {t}]
            /\ subscribedTopics' = [subscribedTopics EXCEPT ![n] = Append(@, t)]
            /\ isSubscribed' = [isSubscribed EXCEPT ![n] = TRUE]
            /\ trainingTopic' = [trainingTopic EXCEPT ![n] = t]
       ELSE UNCHANGED member
  /\ UNCHANGED <<contract, client, wire, job, lastUrl, commands, faults, history>>

(* list.remove raises when the topic is not in the list, before the flags  *)
(* are reset.                                                              *)
Leave(n) ==
  /\ NextCommand(n, "leave")
  /\ LET t == Head(channel[n]).topic IN
     /\ subscribed' = [subscribed EXCEPT ![n] = @ \ {t}]
     /\ IF Contains(subscribedTopics[n], t)
          THEN /\ subscribedTopics' = [subscribedTopics EXCEPT ![n] = RemoveFirst(@, t)]
               /\ isSubscribed' = [isSubscribed EXCEPT ![n] = FALSE]
               /\ trainingTopic' = [trainingTopic EXCEPT ![n] = NoTopic]
          ELSE UNCHANGED <<subscribedTopics, isSubscribed, trainingTopic>>
  /\ UNCHANGED <<contract, client, wire, job, lastUrl, commands, faults, history>>

-----------------------------------------------------------------------------
(* An assign command: train a chunk, publish its weights, and so on.       *)
Work(m, left) == [state |-> "train", message |-> m, left |-> left, logs |-> 0]

StartAssign(n) ==
  /\ NextCommand(n, "assign")
  /\ LET m == Head(channel[n]).message IN
     job' = [job EXCEPT ![n] = Work(m, m.share)]
  /\ UNCHANGED <<contract, client, wire, member, lastUrl, commands, faults, history>>

(* train_on_chunk and the two downloads in it send their logs through the  *)
(* channel of the executor that runs them.                                 *)
InChunk(n) == job[n].state = "train" /\ job[n].left # <<>>

SendLog(n) ==
  /\ InChunk(n) /\ job[n].logs < LogsPerChunk
  /\ Enqueue(n, [cmd |-> "log"])
  /\ job' = [job EXCEPT ![n].logs = @ + 1]
  /\ UNCHANGED <<contract, client, wire, member, lastUrl, commands, faults, history>>

(* submit_hcs_message: what becomes of the log is the ledger's (LedgerClient). *)
ExecuteLog(n) ==
  /\ NextCommand(n, "log")
  /\ UNCHANGED <<contract, client, wire, member, job, lastUrl, commands, faults, history>>

(* The trained chunk's weights are uploaded: the url of the fresh ones,    *)
(* the last url there is when the upload fails, None when the upload       *)
(* succeeds and its url cannot be signed.                                  *)
Trained(n, url) ==
  job' = [job EXCEPT ![n] = [state |-> "publish", message |-> job[n].message,
                             left |-> job[n].left, url |-> url]]

TrainChunk(n) ==
  /\ InChunk(n) /\ job[n].logs = LogsPerChunk
  /\ \E url \in {<<job[n].message.round, Head(job[n].left)>>, lastUrl[n], NoUrl} :
       /\ Trained(n, url)
       /\ lastUrl' = [lastUrl EXCEPT ![n] = url]
       /\ IF url = <<job[n].message.round, Head(job[n].left)>>
            THEN UNCHANGED faults ELSE Fault
  /\ UNCHANGED <<contract, client, wire, member, channel, commands, history>>

(* An exception in train_on_chunk (a download, the model, no url at all)   *)
(* is logged, too, and what is returned is None.                           *)
RaiseInChunk(n) ==
  /\ InChunk(n)
  /\ Fault
  /\ job' = [job EXCEPT ![n] = [state |-> "raised", message |-> job[n].message,
                                left |-> job[n].left]]
  /\ UNCHANGED <<contract, client, wire, member, channel, lastUrl, commands, history>>

LogException(n) ==
  /\ job[n].state = "raised"
  /\ Enqueue(n, [cmd |-> "log"])
  /\ Trained(n, NoUrl)
  /\ UNCHANGED <<contract, client, wire, member, lastUrl, commands, faults, history>>

(* publish_on_chain, for the task named by the last subscribed topic.  An  *)
(* exception (no task number, a failed transaction, an answer lost after   *)
(* the call was executed) ends the assign command; "None" does not.        *)
Proceed(w) == Work(w.message, Tail(w.left))
OnFailureGoOn(n, w) == Proceed(w)
OnFailureAgain(n, w) == w
OnFailure(n, w) == Idle

LastTopic(n) == IF subscribedTopics[n] = <<>> THEN NoTopic ELSE Last(subscribedTopics[n])

Claimable(task) == task \in Rounds /\ phase[task] \in {"untouched", "started"}

Claimed(n) ==
  LET w == job[n]
      task == LastTopic(n) IN
  /\ Claimable(task)
  /\ Contract!Claim(task)
  /\ submissions' = submissions \cup
       {[no |-> Cardinality(submissions) + 1, task |-> task,
         round |-> w.message.round, train |-> w.message.train,
         chunk |-> Head(w.left), by |-> n, weights |-> w.url]}

PublishWeights(n) ==
  /\ job[n].state = "publish"
  /\ Claimed(n)
  /\ \/ /\ job' = [job EXCEPT ![n] = Proceed(job[n])]
        /\ UNCHANGED faults
     \/ /\ Fault
        /\ job' = [job EXCEPT ![n] = OnFailure(n, job[n])]
  /\ UNCHANGED <<client, wire, member, channel, lastUrl, commands, completed>>

PublishFails(n) ==
  /\ job[n].state = "publish"
  /\ IF Claimable(LastTopic(n)) THEN Fault ELSE UNCHANGED faults
  /\ job' = [job EXCEPT ![n] = OnFailure(n, job[n])]
  /\ UNCHANGED <<contract, client, wire, member, channel, lastUrl, commands, history>>

(* The node leaves the topic but not the list, and stays "subscribed".     *)
FinishAssign(n) ==
  /\ job[n].state = "train" /\ job[n].left = <<>>
  /\ subscribed' = [subscribed EXCEPT ![n] = @ \ {trainingTopic[n]}]
  /\ completed' = completed \cup {[by |-> n, message |-> job[n].message]}
  /\ job' = [job EXCEPT ![n] = Idle]
  /\ UNCHANGED <<contract, client, wire, isSubscribed, trainingTopic, subscribedTopics,
                 channel, lastUrl, commands, faults, submissions>>

(* A crashed trainer that restarts has a new key pair, hence is another    *)
(* node; everything it kept was in memory.                                 *)
Crash(n) ==
  /\ Running(n)
  /\ Fault
  /\ job' = [job EXCEPT ![n] = Down]
  /\ channel' = [channel EXCEPT ![n] = <<>>]
  /\ subscribed' = [subscribed EXCEPT ![n] = {}]
  /\ UNCHANGED <<contract, client, wire, isSubscribed, trainingTopic, subscribedTopics,
                 lastUrl, commands, history>>

Execute(n) ==
  \/ Join(n) \/ Leave(n) \/ StartAssign(n) \/ ExecuteLog(n)
  \/ SendLog(n) \/ TrainChunk(n) \/ RaiseInChunk(n) \/ LogException(n)
  \/ PublishWeights(n) \/ PublishFails(n) \/ FinishAssign(n)

Next ==
  \/ \E t \in Rounds : OpenTask(t) \/ CancelTask(t) \/ MeshSummary(t) \/ Train(t)
  \/ \E m \in wire : Lose(m) \/ Receive(m)
  \/ \E n \in Trainers : UserCommand(n) \/ Execute(n) \/ Crash(n)

Spec == Init /\ [][Next]_vars

(* The node's tasks and the network go on while nothing fails: pubsub      *)
(* delivers, the executor takes its commands and runs them to the end.     *)
Fairness ==
  /\ \A n \in Trainers : WF_vars(Execute(n))
  /\ WF_vars(\E m \in wire : Receive(m))

FairSpec == Spec /\ Fairness

-----------------------------------------------------------------------------
Message == [to: Trainers, round: Rounds, train: 1..MaxTrains, share: Seq(Chunks)]
Url == (Rounds \X Chunks) \cup {NoUrl}
Command == [cmd: {"join"}, topic: Rounds] \cup [cmd: {"leave"}, topic: LeaveTopics]
             \cup [cmd: {"assign"}, message: Message] \cup [cmd: {"log"}]
Training == [state: {"train"}, message: Message, left: Seq(Chunks), logs: 0..LogsPerChunk]
Raised == [state: {"raised"}, message: Message, left: Seq(Chunks) \ {<<>>}]
Publishing == [state: {"publish"}, message: Message, left: Seq(Chunks) \ {<<>>}, url: Url]
Job == {Idle, Down} \cup Training \cup Raised \cup Publishing

(* What the nodes and the contract keep stays well formed; the channel     *)
(* never exceeds its capacity.                                             *)
TypeOK ==
  /\ phase \in [Rounds -> {"none", "untouched", "started", "settled", "cancelled"}]
  /\ owed \in [Rounds -> 0..NumChunks]
  /\ roster \in [Rounds -> SUBSET Trainers]
  /\ trains \in [Rounds -> 0..MaxTrains]
  /\ wire \subseteq Message
  /\ subscribed \in [Trainers -> SUBSET Rounds]
  /\ isSubscribed \in [Trainers -> BOOLEAN]
  /\ trainingTopic \in [Trainers -> Rounds \cup {NoTopic}]
  /\ subscribedTopics \in [Trainers -> Seq(Rounds \cup {FedLearn})]
  /\ channel \in [Trainers -> Seq(Command)]
  /\ \A n \in Trainers : Len(channel[n]) <= ChannelSize
  /\ job \in [Trainers -> Job]
  /\ lastUrl \in [Trainers -> Url]
  /\ commands \in [Trainers -> 0..MaxCommands]
  /\ faults \in 0..MaxFaults
  /\ IsFiniteSet(submissions)
  /\ submissions \subseteq
       [no: 1..Cardinality(submissions), task: Rounds, round: Rounds,
        train: 1..MaxTrains, chunk: Chunks, by: Trainers, weights: Url]
  /\ completed \subseteq [by: Trainers, message: Message]

(* coordinator.py:447-449: a trainer that still is in the fed-learn mesh   *)
(* is in one round at a time: the flag (the only guard of the join), the   *)
(* topic, the list of topics and the subscriptions agree across joins,     *)
(* leaves of any topic and finished assignments.  Who left fed-learn has   *)
(* the flag cleared while the round's subscription stays; the flag and the *)
(* topic agree even then.                                                  *)
OneRoundAtATime ==
  \A n \in Trainers :
    /\ isSubscribed[n] <=> trainingTopic[n] # NoTopic
    /\ Contains(subscribedTopics[n], FedLearn) =>
         /\ subscribed[n] \subseteq {trainingTopic[n]}
         /\ subscribedTopics[n] =
              IF isSubscribed[n] THEN <<FedLearn, trainingTopic[n]>> ELSE <<FedLearn>>

(* coordinator.py:329-422: a train command has each chunk rewarded at most *)
(* once, in one claim of one trainer, whatever is lost, fails or is        *)
(* started again and however joins, leaves and assignments interleave.     *)
ChunkRewardedOnce ==
  \A r, s \in submissions :
    r.round = s.round /\ r.train = s.train /\ r.chunk = s.chunk => r = s

(* fed-learn.sol:142-179: the contract settles a task on a number of       *)
(* claims and never sees which chunks they are for.  Each chunk of a       *)
(* settled task that nobody submitted has a cause: a claim made from       *)
(* another round's assignment, or for a training started again.            *)
Misplaced(t) == {s \in submissions : s.task = t /\ (s.round # t \/ s.train > 1)}
Missing(t) == Chunks \ {s.chunk : s \in {r \in submissions : r.task = t}}

MissingChunkHasCause ==
  \A t \in Rounds :
    phase[t] = "settled" => Cardinality(Missing(t)) <= Cardinality(Misplaced(t))

(* coordinator.py:430: a trainer logs "Training on all assigned chunks and *)
(* blockchain upload: Completed" only when the contract has counted each   *)
(* of the chunks it was assigned.                                          *)
CompletedMeansUploaded ==
  \A c \in completed : \A j \in DOMAIN c.message.share :
    \E s \in submissions : /\ s.by = c.by /\ s.train = c.message.train
                           /\ s.round = c.message.round
                           /\ s.chunk = c.message.share[j]

(* README.md:138: the topic is "dedicated to that training round": the     *)
(* weights of a round are claimed from that round's task.                  *)
WeightsReachTheirRound == \A s \in submissions : s.task = s.round

(* PaymentPhase.tsx:263-265: "Trainers are only rewarded upon successful   *)
(* model delivery": what a rewarded submission carries are that chunk's    *)
(* weights.                                                                *)
RewardedForWeights == \A s \in submissions : s.weights = <<s.round, s.chunk>>

(* When nothing fails, no user enters leave and no training is started     *)
(* again, the deposit of a round that is trained leaves the escrow: every  *)
(* assigned chunk is trained, submitted and counted, unless the depositor  *)
(* cancels first, or a trainer's logs fill the channel that only its       *)
(* executor empties (machine_learning.py:68, mcache.py:189).               *)
NobodyLeaves ==
  \A n \in Trainers : \A j \in DOMAIN channel[n] : channel[n][j].cmd # "leave"

Stuck(n) ==
  /\ \/ InChunk(n) /\ job[n].logs < LogsPerChunk
     \/ job[n].state = "raised"
  /\ ~HasRoom(n)

TrainedRoundEnds ==
  [](faults = 0 /\ NobodyLeaves /\ \A t \in Rounds : trains[t] <= 1) =>
    \A t \in Rounds :
      trains[t] > 0 ~> phase[t] \in {"settled", "cancelled"} \/ \E n \in Trainers : Stuck(n)
=============================================================================
