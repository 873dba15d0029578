------------------------ MODULE TrainingRoundProofs ------------------------
(***************************************************************************)
(* Theorems about the training round, for every number of trainers,        *)
(* rounds, chunks and train commands, every channel size, whatever users   *)
(* leave and whatever fails: a trainer is in one round at a time, one that *)
(* logs completion has had each chunk of its share counted, a train        *)
(* command has no chunk rewarded twice, and a chunk missing from a settled *)
(* task has a misplaced claim for it; weights only go to another round's   *)
(* task after a leave, and only a failure makes a chunk be rewarded        *)
(* without its weights.                                                    *)
(***************************************************************************)
EXTENDS TrainingRound, SequenceTheorems, FiniteSetTheorems,
        WellFoundedInduction, TLAPS

(* list.remove of the topic that was appended last. *)
LEMMA RemoveLastJoined ==
  ASSUME NEW f, NEW t, f # t
  PROVE  RemoveFirst(<<f, t>>, t) = <<f>>
<1>1. {k \in 1..2 : <<f, t>>[k] = t} = {2}
  OBVIOUS
<1>2. SelectInSeq(<<f, t>>, LAMBDA v : v = t) = 2
  BY <1>1 DEF SelectInSeq, Min
<1>3. \E k \in 1..Len(<<f, t>>) : <<f, t>>[k] = t
  <2>1. 2 \in 1..Len(<<f, t>>) /\ <<f, t>>[2] = t
    OBVIOUS
  <2> QED
    BY <2>1
<1>4. RemoveFirst(<<f, t>>, t) = RemoveAt(<<f, t>>, 2)
  BY <1>2, <1>3 DEF RemoveFirst
<1>5. RemoveAt(<<f, t>>, 2) = <<f>>
  <2> DEFINE s == <<f, t>>
  <2>1. s \in Seq({f, t}) /\ <<f>> \in Seq({f, t}) /\ Len(s) = 2
    OBVIOUS
  <2>2. SubSeq(s, 1, 1) = <<f>>
    <3>1. \A k \in 1..1 : s[k] \in {f, t}
      OBVIOUS
    <3>2. /\ SubSeq(s, 1, 1) \in Seq({f, t}) /\ Len(SubSeq(s, 1, 1)) = 1
          /\ SubSeq(s, 1, 1)[1] = s[1]
      <4> HIDE DEF s
      <4> QED
        BY <3>1, SubSeqProperties
    <3>3. s[1] = f /\ <<f>>[1] = f /\ Len(<<f>>) = 1
      OBVIOUS
    <3> HIDE DEF s
    <3>4. \A k \in 1..Len(SubSeq(s, 1, 1)) : SubSeq(s, 1, 1)[k] = <<f>>[k]
      BY <3>2, <3>3
    <3> QED
      BY <2>1, <3>2, <3>3, <3>4, SeqEqual
  <2>3. SubSeq(s, 3, 2) = <<>>
    BY <2>1, SubSeqEmpty
  <2>4. <<f>> \o <<>> = <<f>>
    BY <2>1, ConcatEmptySeq
  <2>5. RemoveAt(s, 2) = SubSeq(s, 1, 2 - 1) \o SubSeq(s, 2 + 1, 2)
    BY <2>1 DEF RemoveAt
  <2>6. 2 - 1 = 1 /\ 2 + 1 = 3
    OBVIOUS
  <2> HIDE DEF s
  <2>7. RemoveAt(s, 2) = <<f>>
    BY <2>2, <2>3, <2>4, <2>5, <2>6
  <2> QED
    BY <2>7 DEF s
<1> QED
  BY <1>4, <1>5

LEMMA AppendAtEnd ==
  ASSUME NEW S, NEW s \in Seq(S), NEW t \in S
  PROVE  /\ Append(s, t) \in Seq(S)
         /\ Len(Append(s, t)) = Len(s) + 1
         /\ Append(s, t)[Len(s) + 1] = t
<1>1. Append(s, t) \in Seq(S)
  OBVIOUS
<1>2. Len(Append(s, t)) = Len(s) + 1
  OBVIOUS
<1>3. Append(s, t)[Len(s) + 1] = t
  OBVIOUS
<1> QED
  BY <1>1, <1>2, <1>3

LEMMA AppendKeepsPlaces ==
  ASSUME NEW S, NEW s \in Seq(S), NEW t \in S
  PROVE  \A k \in 1..Len(s) : Append(s, t)[k] = s[k]
OBVIOUS

LEMMA AppendToOne ==
  ASSUME NEW f, NEW t
  PROVE  Append(<<f>>, t) = <<f, t>>
<1> DEFINE S == {f, t}
           s == <<f>>
           p == <<f, t>>
           r == Append(s, t)
<1>1. /\ s \in Seq(S) /\ t \in S /\ Len(s) = 1 /\ s[1] = f
      /\ p \in Seq(S) /\ Len(p) = 2 /\ p[1] = f /\ p[2] = t
  OBVIOUS
<1> HIDE DEF S, s, p
<1>2. /\ r \in Seq(S) /\ Len(r) = Len(s) + 1 /\ r[Len(s) + 1] = t
      /\ \A k \in 1..Len(s) : r[k] = s[k]
  <2>1. s \in Seq(S) /\ t \in S
    BY <1>1
  <2>2. r \in Seq(S) /\ Len(r) = Len(s) + 1 /\ r[Len(s) + 1] = t
    BY <2>1, AppendAtEnd, Zenon
  <2>3. \A k \in 1..Len(s) : r[k] = s[k]
    BY <2>1, AppendKeepsPlaces, Zenon
  <2> QED
    BY <2>2, <2>3
<1> HIDE DEF r
<1>3. \A k \in 1..Len(r) : r[k] = p[k]
  BY <1>1, <1>2
<1>4. r = p
  BY <1>1, <1>2, <1>3, SeqEqual
<1> QED
  BY <1>4 DEF r, s, p

LEMMA RemoveKeepsType ==
  ASSUME NEW S, NEW s \in Seq(S), NEW t
  PROVE  RemoveFirst(s, t) \in Seq(S)
<1> DEFINE I == {k \in 1..Len(s) : s[k] = t}
<1>1. CASE I = {}
  BY <1>1 DEF RemoveFirst
<1>2. CASE I # {}
  <2>1. PICK k : k = SelectInSeq(s, LAMBDA v : v = t)
    OBVIOUS
  <2>2. k \in I
    <3>1. k = Min(I)
      BY <1>2, <2>1 DEF SelectInSeq
    <3>2. I \subseteq Nat
      BY LenProperties
    <3>3. \E x \in I : \A y \in I : x <= y
      <4>1. OpToRel(<, Nat) = {ss \in Nat \X Nat : ss[1] < ss[2]}
        BY Zenon DEF OpToRel
      <4>2. IsWellFoundedOn({ss \in Nat \X Nat : ss[1] < ss[2]}, Nat)
        BY Zenon, <4>1, NatLessThanWellFounded
      <4>3. PICK x \in I : \A y \in I : ~(<<y, x>> \in {ss \in Nat \X Nat : ss[1] < ss[2]})
        BY <1>2, <3>2, <4>2, WFMin
      <4>4. x \in Nat
        BY <3>2
      <4> HIDE DEF I
      <4>5. ASSUME NEW y \in I PROVE x <= y
        <5>1. y \in Nat
          BY <3>2
        <5>2. ~(y < x)
          BY <4>3, <4>4, <5>1
        <5> QED
          BY <4>4, <5>1, <5>2
      <4> QED
        BY <4>5
    <3> QED
      BY <3>1, <3>3 DEF Min
  <2>3. k \in 1..Len(s) /\ Len(s) \in Nat
    BY <2>2
  <2>4. SubSeq(s, 1, k - 1) \in Seq(S) /\ SubSeq(s, k + 1, Len(s)) \in Seq(S)
    <3>1. /\ \A x \in 1..(k - 1) : s[x] \in S
          /\ \A x \in (k + 1)..Len(s) : s[x] \in S
      BY <2>3, ElementOfSeq
    <3> QED
      BY <2>3, <3>1, SubSeqProperties
  <2>5. RemoveAt(s, k) \in Seq(S)
    BY <2>4, ConcatProperties DEF RemoveAt
  <2> QED
    BY <1>2, <2>1, <2>5 DEF RemoveFirst
<1> QED
  BY <1>1, <1>2

(* list.remove of the topic that stands first. *)
LEMMA RemoveStart ==
  ASSUME NEW S, NEW f, NEW s \in Seq(S \cup {f}), Len(s) >= 1, s[1] = f,
         \A k \in 2..Len(s) : s[k] \in S
  PROVE  RemoveFirst(s, f) \in Seq(S)
<1> DEFINE I == {k \in 1..Len(s) : s[k] = f}
<1>1. Len(s) \in Nat
  BY LenProperties
<1>2. 1 \in I /\ \A y \in I : y \in Nat /\ 1 <= y
  BY <1>1
<1>3. Min(I) = 1
  <2> HIDE DEF I
  <2>1. \E x \in I : \A y \in I : x <= y
    BY <1>2
  <2>2. PICK x : x = Min(I) /\ x \in I /\ \A y \in I : x <= y
    BY <2>1 DEF Min
  <2> QED
    BY <1>2, <2>2
<1>4. SelectInSeq(s, LAMBDA v : v = f) = 1
  BY <1>2, <1>3 DEF SelectInSeq
<1>5. RemoveFirst(s, f) = RemoveAt(s, 1)
  BY <1>2, <1>4 DEF RemoveFirst
<1>6. SubSeq(s, 2, Len(s)) \in Seq(S)
  BY <1>1, SubSeqProperties
<1>7. SubSeq(s, 1, 0) = <<>> /\ <<>> \in Seq(S)
  BY SubSeqEmpty
<1>8. RemoveAt(s, 1) = SubSeq(s, 1, 0) \o SubSeq(s, 2, Len(s))
  BY DEF RemoveAt
<1>9. ASSUME NEW r, NEW q \in Seq(S), NEW l \in Seq(S), r = q \o l PROVE r \in Seq(S)
  BY <1>9, ConcatProperties
<1> HIDE DEF I
<1>10. RemoveAt(s, 1) \in Seq(S)
  BY <1>6, <1>7, <1>8, <1>9
<1> QED
  BY <1>5, <1>10

-----------------------------------------------------------------------------
(* A trainer's share consists of chunks of the manifest. *)
LEMMA ShareOfChunks ==
  ASSUME NEW m \in Nat, m > 0, NEW k \in 1..m
  PROVE  Share(k, m, NumChunks) \in Seq(Chunks)
<1> DEFINE d == NumChunks + m - k
<1> DEFINE q == d \div m
<1>1. NumChunks \in Nat /\ d \in Nat /\ d = NumChunks + m - k
  BY RoundAssumption
<1> HIDE DEF d
<1>2. q \in Nat /\ q * m <= d
  BY <1>1
<1> HIDE DEF q
<1>3. ASSUME NEW j \in 1..q PROVE k + (j - 1) * m \in Chunks
  <2>1. j * m <= q * m
    BY <1>2, <1>3
  <2>2. (j - 1) * m \in Nat /\ (j - 1) * m = j * m - m
    BY <1>2, <1>3
  <2>3. j * m \in Int /\ q * m \in Int
    BY <1>2, <1>3
  <2> QED
    BY <1>1, <1>2, <2>1, <2>2, <2>3 DEF Chunks
<1>4. Share(k, m, NumChunks) = [j \in 1..q |-> k + (j - 1) * m]
  BY DEF Share, q, d
<1> QED
  BY <1>2, <1>3, <1>4

(* The messages of a train command are well formed. *)
LEMMA TrainSendsMessages ==
  ASSUME TypeOK, NEW t \in Rounds, Train(t)
  PROVE  wire' \subseteq Message
<1> USE RoundAssumption
<1>1. PICK nodes \in SetToSeqs(roster[t]) :
        wire' = wire \cup
          {[to |-> nodes[k], round |-> t, train |-> trains[t] + 1,
            share |-> ShareOf(k, Len(nodes))]
             : k \in {j \in 1..Len(nodes) : t \in subscribed[nodes[j]]}}
  BY DEF Train
<1>2. roster[t] \subseteq Trainers /\ roster[t] # {} /\ IsFiniteSet(roster[t])
  BY FS_Subset DEF TypeOK, Train
<1>3. Cardinality(roster[t]) \in Nat /\ Cardinality(roster[t]) > 0
  BY <1>2, FS_CardinalityType, FS_EmptySet
<1>4. /\ nodes \in [1..Cardinality(roster[t]) -> roster[t]]
      /\ Len(nodes) = Cardinality(roster[t])
  BY <1>3 DEF SetToSeqs
<1>5. trains[t] + 1 \in 1..MaxTrains
  BY DEF TypeOK, Train
<1>6. ASSUME NEW k \in 1..Len(nodes)
      PROVE  [to |-> nodes[k], round |-> t, train |-> trains[t] + 1,
              share |-> ShareOf(k, Len(nodes))] \in Message
  <2>1. nodes[k] \in Trainers
    BY <1>2, <1>4
  <2>2. ShareOf(k, Len(nodes)) \in Seq(Chunks)
    BY <1>3, <1>4, ShareOfChunks DEF ShareOf
  <2> QED
    BY <1>5, <2>1, <2>2 DEF Message
<1> QED
  BY <1>1, <1>6 DEF TypeOK

(* What is known of a trainer's current job. *)
LEMMA JobTypes ==
  ASSUME TypeOK, NEW n \in Trainers
  PROVE  /\ job[n].state = "train" =>
              job[n].message \in Message /\ job[n].left \in Seq(Chunks)
              /\ job[n].logs \in 0..LogsPerChunk
              /\ job[n] \in Training
         /\ job[n].state = "raised" =>
              /\ job[n].message \in Message /\ job[n].left \in Seq(Chunks)
              /\ job[n].left # <<>>
         /\ job[n].state = "publish" =>
              /\ job[n].message \in Message /\ job[n].left \in Seq(Chunks)
              /\ job[n].left # <<>> /\ job[n].url \in Url
<1>1. job[n] \in Job
  BY DEF TypeOK
<1>2. CASE job[n] \in {Idle, Down}
  BY <1>2 DEF Idle, Down
<1>3. CASE job[n] \in Training
  BY <1>3 DEF Training
<1>4. CASE job[n] \in Raised
  BY <1>4 DEF Raised
<1>5. CASE job[n] \in Publishing
  BY <1>5 DEF Publishing
<1> QED
  BY <1>1, <1>2, <1>3, <1>4, <1>5 DEF Job

LEMMA WorkIsJob ==
  ASSUME NEW m \in Message, NEW left \in Seq(Chunks)
  PROVE  Work(m, left) \in Job
  BY RoundAssumption DEF Work, Job, Training

(* The command at the head of a channel is one of three kinds. *)
LEMMA HeadOfChannel ==
  ASSUME TypeOK, NEW n \in Trainers, channel[n] # <<>>
  PROVE  /\ Head(channel[n]).cmd = "join" => Head(channel[n]).topic \in Rounds
         /\ Head(channel[n]).cmd = "leave" => Head(channel[n]).topic \in LeaveTopics
         /\ Head(channel[n]).cmd = "assign" => Head(channel[n]).message \in Message
<1>1. channel[n] \in Seq(Command)
  BY DEF TypeOK
<1>2. Head(channel[n]) \in Command
  BY <1>1, HeadTailProperties
<1> QED
  BY <1>2 DEF Command

(* Taking a command from the channel or putting one in keeps it typed and *)
(* within its capacity.                                                   *)
LEMMA TakeCommand ==
  ASSUME TypeOK, NEW n \in Trainers, NEW name, NextCommand(n, name)
  PROVE  /\ channel' \in [Trainers -> Seq(Command)]
         /\ \A p \in Trainers : Len(channel'[p]) <= ChannelSize
<1>1. channel[n] \in Seq(Command) /\ channel[n] # <<>>
  BY DEF TypeOK, NextCommand
<1>2. Tail(channel[n]) \in Seq(Command) /\ Len(Tail(channel[n])) = Len(channel[n]) - 1
  BY <1>1, HeadTailProperties
<1>3. Len(channel[n]) \in Nat /\ Len(channel[n]) <= ChannelSize /\ ChannelSize \in Nat
  BY <1>1, RoundAssumption DEF TypeOK
<1>4. channel' = [channel EXCEPT ![n] = Tail(channel[n])]
  BY DEF NextCommand
<1> QED
  BY <1>2, <1>3, <1>4 DEF TypeOK

LEMMA PutCommand ==
  ASSUME TypeOK, NEW n \in Trainers, NEW c \in Command, Enqueue(n, c)
  PROVE  /\ channel' \in [Trainers -> Seq(Command)]
         /\ \A p \in Trainers : Len(channel'[p]) <= ChannelSize
<1>1. channel[n] \in Seq(Command)
  BY DEF TypeOK
<1>2. Append(channel[n], c) \in Seq(Command)
      /\ Len(Append(channel[n], c)) = Len(channel[n]) + 1
  BY <1>1, AppendProperties
<1>3. Len(channel[n]) \in Nat /\ Len(channel[n]) < ChannelSize /\ ChannelSize \in Nat
  BY <1>1, RoundAssumption DEF Enqueue, HasRoom
<1>4. channel' = [channel EXCEPT ![n] = Append(channel[n], c)]
  BY DEF Enqueue
<1> QED
  BY <1>2, <1>3, <1>4 DEF TypeOK

LEMMA JoinTypes ==
  ASSUME TypeOK, NEW n \in Trainers, Join(n)
  PROVE  TypeOK'
<1>1. /\ channel' \in [Trainers -> Seq(Command)]
      /\ \A p \in Trainers : Len(channel'[p]) <= ChannelSize
  BY TakeCommand DEF Join
<1>2. PICK t \in Rounds : t = Head(channel[n]).topic
  BY HeadOfChannel DEF Join, NextCommand
<1>3. /\ subscribed' \in [Trainers -> SUBSET Rounds]
      /\ isSubscribed' \in [Trainers -> BOOLEAN]
      /\ trainingTopic' \in [Trainers -> Rounds \cup {NoTopic}]
      /\ subscribedTopics' \in [Trainers -> Seq(Rounds \cup {FedLearn})]
  <2>1. CASE UNCHANGED member
    BY <2>1 DEF member, TypeOK
  <2>2. CASE /\ subscribed' = [subscribed EXCEPT ![n] = @ \cup {t}]
             /\ subscribedTopics' = [subscribedTopics EXCEPT ![n] = Append(@, t)]
             /\ isSubscribed' = [isSubscribed EXCEPT ![n] = TRUE]
             /\ trainingTopic' = [trainingTopic EXCEPT ![n] = t]
    <3>1. Append(subscribedTopics[n], t) \in Seq(Rounds \cup {FedLearn})
      BY AppendProperties DEF TypeOK
    <3> QED
      BY <2>2, <3>1 DEF TypeOK
  <2> QED
    BY <1>2, <2>1, <2>2 DEF Join
<1> QED
  BY <1>1, <1>3 DEF Join, contract, client, history, TypeOK

LEMMA LeaveTypes ==
  ASSUME TypeOK, NEW n \in Trainers, Leave(n)
  PROVE  TypeOK'
<1>1. /\ channel' \in [Trainers -> Seq(Command)]
      /\ \A p \in Trainers : Len(channel'[p]) <= ChannelSize
  BY TakeCommand DEF Leave
<1> DEFINE t == Head(channel[n]).topic
<1>2. subscribed' \in [Trainers -> SUBSET Rounds]
  BY DEF Leave, TypeOK
<1>3. /\ isSubscribed' \in [Trainers -> BOOLEAN]
      /\ trainingTopic' \in [Trainers -> Rounds \cup {NoTopic}]
  <2>1. CASE UNCHANGED <<isSubscribed, trainingTopic>>
    BY <2>1 DEF TypeOK
  <2>2. CASE /\ isSubscribed' = [isSubscribed EXCEPT ![n] = FALSE]
             /\ trainingTopic' = [trainingTopic EXCEPT ![n] = NoTopic]
    BY <2>2 DEF TypeOK
  <2> QED
    BY <2>1, <2>2 DEF Leave
<1>4. subscribedTopics' \in [Trainers -> Seq(Rounds \cup {FedLearn})]
  <2>1. CASE UNCHANGED subscribedTopics
    BY <2>1 DEF TypeOK
  <2>2. CASE subscribedTopics' = [subscribedTopics EXCEPT ![n] = RemoveFirst(@, t)]
    <3>1. subscribedTopics[n] \in Seq(Rounds \cup {FedLearn})
      BY DEF TypeOK
    <3>2. RemoveFirst(subscribedTopics[n], t) \in Seq(Rounds \cup {FedLearn})
      BY <3>1, RemoveKeepsType
    <3> QED
      BY <2>2, <3>2 DEF TypeOK
  <2> QED
    BY <2>1, <2>2 DEF Leave
<1> QED
  BY <1>1, <1>2, <1>3, <1>4 DEF Leave, contract, client, history, TypeOK

LEMMA ReceiveTypes ==
  ASSUME TypeOK, NEW m \in wire, Receive(m)
  PROVE  TypeOK'
<1>1. m \in Message /\ m.to \in Trainers
  BY DEF TypeOK, Message
<1>2. wire' \subseteq Message
  BY DEF Receive, TypeOK
<1>3. /\ channel' \in [Trainers -> Seq(Command)]
      /\ \A p \in Trainers : Len(channel'[p]) <= ChannelSize
  <2>1. CASE UNCHANGED channel
    BY <2>1 DEF TypeOK
  <2>2. CASE Enqueue(m.to, [cmd |-> "assign", message |-> m])
    <3>1. [cmd |-> "assign", message |-> m] \in Command
      BY <1>1 DEF Command
    <3> QED
      BY <1>1, <2>2, <3>1, PutCommand
  <2> QED
    BY <2>1, <2>2 DEF Receive
<1> QED
  BY <1>2, <1>3 DEF Receive, contract, client, member, history, TypeOK

LEMMA UserCommandTypes ==
  ASSUME TypeOK, NEW n \in Trainers, UserCommand(n)
  PROVE  TypeOK'
<1>1. /\ channel' \in [Trainers -> Seq(Command)]
      /\ \A p \in Trainers : Len(channel'[p]) <= ChannelSize
  <2>1. PICK c \in Command : Enqueue(n, c)
    <3>1. CASE \E t \in Rounds : Enqueue(n, [cmd |-> "join", topic |-> t])
      <4>1. PICK t \in Rounds : Enqueue(n, [cmd |-> "join", topic |-> t])
        BY <3>1
      <4>2. [cmd |-> "join", topic |-> t] \in Command
        BY DEF Command
      <4> QED
        BY <4>1, <4>2
    <3>2. CASE \E t \in LeaveTopics : Enqueue(n, [cmd |-> "leave", topic |-> t])
      <4>1. PICK t \in LeaveTopics : Enqueue(n, [cmd |-> "leave", topic |-> t])
        BY <3>2
      <4>2. [cmd |-> "leave", topic |-> t] \in Command
        BY DEF Command
      <4> QED
        BY <4>1, <4>2
    <3> QED
      BY <3>1, <3>2 DEF UserCommand
  <2> QED
    BY <2>1, PutCommand
<1>2. commands' \in [Trainers -> 0..MaxCommands]
  BY RoundAssumption DEF UserCommand, TypeOK
<1> QED
  BY <1>1, <1>2 DEF UserCommand, contract, client, member, history, TypeOK

LEMMA StartAssignTypes ==
  ASSUME TypeOK, NEW n \in Trainers, StartAssign(n)
  PROVE  TypeOK'
<1>1. /\ channel' \in [Trainers -> Seq(Command)]
      /\ \A p \in Trainers : Len(channel'[p]) <= ChannelSize
  BY TakeCommand DEF StartAssign
<1>2. PICK m \in Message : m = Head(channel[n]).message
  BY HeadOfChannel DEF StartAssign, NextCommand
<1>3. Work(m, m.share) \in Job
  BY WorkIsJob DEF Message
<1>4. job' \in [Trainers -> Job]
  BY <1>2, <1>3 DEF StartAssign, TypeOK
<1> QED
  BY <1>1, <1>4 DEF StartAssign, contract, client, member, history, TypeOK

LEMMA FaultTypes ==
  ASSUME TypeOK, Fault \/ UNCHANGED faults
  PROVE  faults' \in 0..MaxFaults
  BY RoundAssumption DEF Fault, TypeOK

LEMMA ExecuteLogTypes ==
  ASSUME TypeOK, NEW n \in Trainers, ExecuteLog(n)
  PROVE  TypeOK'
<1>1. /\ channel' \in [Trainers -> Seq(Command)]
      /\ \A p \in Trainers : Len(channel'[p]) <= ChannelSize
  BY TakeCommand DEF ExecuteLog
<1> QED
  BY <1>1 DEF ExecuteLog, contract, client, member, history, TypeOK

LEMMA PutLog ==
  ASSUME TypeOK, NEW n \in Trainers, Enqueue(n, [cmd |-> "log"])
  PROVE  /\ channel' \in [Trainers -> Seq(Command)]
         /\ \A p \in Trainers : Len(channel'[p]) <= ChannelSize
<1>1. [cmd |-> "log"] \in Command
  BY DEF Command
<1> QED
  BY <1>1, PutCommand

LEMMA SendLogTypes ==
  ASSUME TypeOK, NEW n \in Trainers, SendLog(n)
  PROVE  TypeOK'
<1>1. /\ channel' \in [Trainers -> Seq(Command)]
      /\ \A p \in Trainers : Len(channel'[p]) <= ChannelSize
  BY PutLog DEF SendLog
<1>2. job[n] \in Training /\ job[n].logs \in 0..LogsPerChunk /\ job[n].logs < LogsPerChunk
  BY JobTypes DEF SendLog, InChunk
<1>3. [job[n] EXCEPT !.logs = job[n].logs + 1] \in Training
  BY <1>2, RoundAssumption, SMTT(20) DEF Training
<1>4. job' = [job EXCEPT ![n] = [job[n] EXCEPT !.logs = job[n].logs + 1]]
  BY DEF SendLog
<1>5. job' \in [Trainers -> Job]
  BY <1>3, <1>4 DEF Job, TypeOK
<1> QED
  BY <1>1, <1>5 DEF SendLog, contract, client, member, history, TypeOK

LEMMA TrainedTypes ==
  ASSUME TypeOK, NEW n \in Trainers, NEW url \in Url, Trained(n, url),
         job[n].message \in Message, job[n].left \in Seq(Chunks), job[n].left # <<>>
  PROVE  job' \in [Trainers -> Job]
<1>1. [state |-> "publish", message |-> job[n].message, left |-> job[n].left,
       url |-> url] \in Job
  BY DEF Job, Publishing
<1> QED
  BY <1>1 DEF Trained, TypeOK

LEMMA TrainChunkTypes ==
  ASSUME TypeOK, NEW n \in Trainers, TrainChunk(n)
  PROVE  TypeOK'
<1> DEFINE w == job[n]
<1> DEFINE fresh == <<w.message.round, Head(w.left)>>
<1>1. w.message \in Message /\ w.left \in Seq(Chunks) /\ w.left # <<>>
  BY JobTypes DEF TrainChunk, InChunk
<1>2. w.message.round \in Rounds /\ Head(w.left) \in Chunks
  BY <1>1, HeadTailProperties DEF Message
<1>3. fresh \in Url /\ lastUrl[n] \in Url /\ NoUrl \in Url
  BY <1>2 DEF Url, TypeOK
<1>4. PICK url \in {fresh, lastUrl[n], NoUrl} :
        /\ Trained(n, url)
        /\ lastUrl' = [lastUrl EXCEPT ![n] = url]
        /\ IF url = fresh THEN UNCHANGED faults ELSE Fault
  BY DEF TrainChunk
<1>5. url \in Url
  BY <1>3
<1>6. lastUrl' \in [Trainers -> Url]
  BY <1>4, <1>5 DEF TypeOK
<1>7. job' \in [Trainers -> Job]
  BY <1>1, <1>4, <1>5, TrainedTypes
<1>8. faults' \in 0..MaxFaults
  BY <1>4, FaultTypes
<1> QED
  BY <1>6, <1>7, <1>8 DEF TrainChunk, contract, client, member, history, TypeOK

LEMMA RaiseInChunkTypes ==
  ASSUME TypeOK, NEW n \in Trainers, RaiseInChunk(n)
  PROVE  TypeOK'
<1>1. job[n].message \in Message /\ job[n].left \in Seq(Chunks) /\ job[n].left # <<>>
  BY JobTypes DEF RaiseInChunk, InChunk
<1>2. [state |-> "raised", message |-> job[n].message, left |-> job[n].left] \in Job
  BY <1>1 DEF Job, Raised
<1>3. job' \in [Trainers -> Job]
  BY <1>2 DEF RaiseInChunk, TypeOK
<1>4. faults' \in 0..MaxFaults
  BY FaultTypes DEF RaiseInChunk
<1> QED
  BY <1>3, <1>4 DEF RaiseInChunk, contract, client, member, history, TypeOK

LEMMA LogExceptionTypes ==
  ASSUME TypeOK, NEW n \in Trainers, LogException(n)
  PROVE  TypeOK'
<1>1. /\ channel' \in [Trainers -> Seq(Command)]
      /\ \A p \in Trainers : Len(channel'[p]) <= ChannelSize
  BY PutLog DEF LogException
<1>2. job[n].message \in Message /\ job[n].left \in Seq(Chunks) /\ job[n].left # <<>>
  BY JobTypes DEF LogException
<1>3. NoUrl \in Url /\ Trained(n, NoUrl)
  BY DEF Url, LogException
<1>4. job' \in [Trainers -> Job]
  BY <1>2, <1>3, TrainedTypes
<1> QED
  BY <1>1, <1>4 DEF LogException, contract, client, member, history, TypeOK

(* The claim that is made, numbered after those there were. *)
ClaimMade(n) ==
  [no |-> Cardinality(submissions) + 1, task |-> LastTopic(n),
   round |-> job[n].message.round, train |-> job[n].message.train,
   chunk |-> Head(job[n].left), by |-> n, weights |-> job[n].url]

LEMMA PublishWeightsTypes ==
  ASSUME TypeOK, Contract!OwesWhileOpen, NEW n \in Trainers, PublishWeights(n)
  PROVE  TypeOK'
<1> DEFINE w == job[n]
<1> DEFINE task == LastTopic(n)
<1>1. /\ w.message \in Message /\ w.left \in Seq(Chunks) /\ w.url \in Url
  BY JobTypes DEF PublishWeights
<1>2. task \in Rounds /\ Contract!Claim(task)
  BY DEF PublishWeights, Claimed, Claimable
<1>3. owed' \in [Rounds -> 0..NumChunks]
  <2>1. owed[task] > 0 /\ owed' = [owed EXCEPT ![task] = owed[task] - 1]
    BY <1>2 DEF Contract!Claim, Contract!OwesWhileOpen
  <2>2. owed[task] - 1 \in 0..NumChunks
    <3>1. owed[task] \in 0..NumChunks /\ NumChunks \in Nat /\ owed[task] > 0
      BY <1>2, <2>1, RoundAssumption DEF TypeOK
    <3> HIDE DEF task
    <3> QED
      BY <3>1
  <2> HIDE DEF task
  <2> QED
    BY <2>1, <2>2 DEF TypeOK
<1>4. phase' \in [Rounds -> {"none", "untouched", "started", "settled", "cancelled"}]
  BY <1>2 DEF Contract!Claim, TypeOK
<1>5. job' \in [Trainers -> Job]
  <2>1. CASE job' = [job EXCEPT ![n] = OnFailure(n, job[n])]
    BY <2>1 DEF OnFailure, Job, TypeOK
  <2>2. CASE job' = [job EXCEPT ![n] = Proceed(job[n])] /\ w.left # <<>>
    <3>1. Tail(w.left) \in Seq(Chunks)
      BY <1>1, <2>2, HeadTailProperties
    <3>2. Proceed(job[n]) \in Job
      BY <1>1, <3>1, WorkIsJob DEF Proceed
    <3> QED
      BY <2>2, <3>2 DEF TypeOK
  <2> QED
    BY <2>1, <2>2, JobTypes DEF PublishWeights
<1>6. /\ IsFiniteSet(submissions')
      /\ submissions' \subseteq
           [no: 1..Cardinality(submissions'), task: Rounds, round: Rounds,
            train: 1..MaxTrains, chunk: Chunks, by: Trainers, weights: Url]
  <2>1. Head(w.left) \in Chunks
    BY <1>1, JobTypes, HeadTailProperties DEF PublishWeights
  <2>2. w.message.round \in Rounds /\ w.message.train \in 1..MaxTrains
    BY <1>1 DEF Message
  <2> DEFINE s == ClaimMade(n)
             Subs == submissions
             c == Cardinality(submissions)
  <2>3. submissions' = Subs \cup {s}
    BY DEF PublishWeights, Claimed, ClaimMade
  <2>4. IsFiniteSet(Subs) /\ c = Cardinality(Subs)
    BY DEF TypeOK
  <2>5. c \in Nat
    BY <2>4, FS_CardinalityType
  <2>6. s.no = c + 1
    BY DEF ClaimMade
  <2>7. \A r \in Subs : r.no \in 1..c
    BY DEF TypeOK
  <2>8. s \notin Subs
    <3> HIDE DEF s, Subs, c
    <3> QED
      BY <2>5, <2>6, <2>7
  <2>9. IsFiniteSet(submissions') /\ Cardinality(submissions') = c + 1
    <3> HIDE DEF s, Subs, c
    <3> QED
      BY <2>3, <2>4, <2>8, FS_AddElement
  <2>10. s \in [no: 1..(c + 1), task: Rounds, round: Rounds,
                train: 1..MaxTrains, chunk: Chunks, by: Trainers, weights: Url]
    <3>1. c + 1 \in 1..(c + 1)
      <4> HIDE DEF c
      <4> QED
        BY <2>5
    <3> HIDE DEF task, c
    <3> QED
      BY <1>1, <1>2, <2>1, <2>2, <3>1 DEF ClaimMade, c, task
  <2>11. Subs \subseteq [no: 1..(c + 1), task: Rounds, round: Rounds,
                train: 1..MaxTrains, chunk: Chunks, by: Trainers, weights: Url]
    <3>1. 1..c \subseteq 1..(c + 1)
      <4> HIDE DEF c
      <4> QED
        BY <2>5
    <3>2. Subs \subseteq [no: 1..c, task: Rounds, round: Rounds,
                train: 1..MaxTrains, chunk: Chunks, by: Trainers, weights: Url]
      BY DEF TypeOK
    <3> HIDE DEF Subs, c
    <3> QED
      BY <3>1, <3>2
  <2> HIDE DEF s, Subs, c
  <2> QED
    BY <2>3, <2>9, <2>10, <2>11
<1>7. faults' \in 0..MaxFaults
  BY FaultTypes DEF PublishWeights
<1> QED
  BY <1>3, <1>4, <1>5, <1>6, <1>7 DEF PublishWeights, client, member, TypeOK

LEMMA PublishFailsTypes ==
  ASSUME TypeOK, NEW n \in Trainers, PublishFails(n)
  PROVE  TypeOK'
<1>1. faults' \in 0..MaxFaults
  <2>1. Fault \/ UNCHANGED faults
    BY DEF PublishFails
  <2> QED
    BY <2>1, FaultTypes
<1>2. job' \in [Trainers -> Job]
  BY DEF PublishFails, OnFailure, Job, TypeOK
<1> QED
  BY <1>1, <1>2 DEF PublishFails, contract, client, member, history, TypeOK

LEMMA FinishAssignTypes ==
  ASSUME TypeOK, NEW n \in Trainers, FinishAssign(n)
  PROVE  TypeOK'
<1>1. job[n].message \in Message
  BY JobTypes DEF FinishAssign
<1>2. subscribed' \in [Trainers -> SUBSET Rounds]
  BY DEF FinishAssign, TypeOK
<1>3. job' \in [Trainers -> Job]
  BY DEF FinishAssign, Job, TypeOK
<1>4. completed' \subseteq [by: Trainers, message: Message]
  BY <1>1 DEF FinishAssign, TypeOK
<1> QED
  BY <1>2, <1>3, <1>4 DEF FinishAssign, contract, client, TypeOK

LEMMA CrashTypes ==
  ASSUME TypeOK, NEW n \in Trainers, Crash(n)
  PROVE  TypeOK'
<1>1. faults' \in 0..MaxFaults
  BY FaultTypes DEF Crash
<1>2. <<>> \in Seq(Command) /\ Len(<<>>) = 0 /\ ChannelSize \in Nat
  BY RoundAssumption
<1>3. /\ channel' \in [Trainers -> Seq(Command)]
      /\ \A p \in Trainers : Len(channel'[p]) <= ChannelSize
  <2>1. channel' = [channel EXCEPT ![n] = <<>>]
    BY DEF Crash
  <2> QED
    BY <1>2, <2>1 DEF TypeOK
<1>4. subscribed' \in [Trainers -> SUBSET Rounds]
  BY DEF Crash, TypeOK
<1>5. job' \in [Trainers -> Job]
  BY DEF Crash, Job, TypeOK
<1> QED
  BY <1>1, <1>3, <1>4, <1>5 DEF Crash, contract, client, history, TypeOK

LEMMA OpenTaskTypes ==
  ASSUME TypeOK, NEW t \in Rounds, OpenTask(t)
  PROVE  TypeOK'
<1>1. owed' \in [Rounds -> 0..NumChunks]
  BY RoundAssumption DEF OpenTask, Contract!Open, TypeOK
<1>2. phase' \in [Rounds -> {"none", "untouched", "started", "settled", "cancelled"}]
  BY DEF OpenTask, Contract!Open, TypeOK
<1> QED
  BY <1>1, <1>2 DEF OpenTask, client, member, history, TypeOK

LEMMA CancelTaskTypes ==
  ASSUME TypeOK, NEW t \in Rounds, CancelTask(t)
  PROVE  TypeOK'
<1>1. owed' \in [Rounds -> 0..NumChunks]
  BY RoundAssumption DEF CancelTask, Contract!Cancel, TypeOK
<1>2. phase' \in [Rounds -> {"none", "untouched", "started", "settled", "cancelled"}]
  BY DEF CancelTask, Contract!Cancel, TypeOK
<1> QED
  BY <1>1, <1>2 DEF CancelTask, client, member, history, TypeOK

LEMMA MeshSummaryTypes ==
  ASSUME TypeOK, NEW t \in Rounds, MeshSummary(t)
  PROVE  TypeOK'
<1>1. roster' \in [Rounds -> SUBSET Trainers]
  BY DEF MeshSummary, TypeOK
<1> QED
  BY <1>1 DEF MeshSummary, contract, member, history, TypeOK

LEMMA TrainTypes ==
  ASSUME TypeOK, NEW t \in Rounds, Train(t)
  PROVE  TypeOK'
<1>1. wire' \subseteq Message
  BY TrainSendsMessages
<1>2. trains' \in [Rounds -> 0..MaxTrains]
  BY RoundAssumption DEF Train, TypeOK
<1> QED
  BY <1>1, <1>2 DEF Train, contract, member, history, TypeOK

LEMMA LoseTypes ==
  ASSUME TypeOK, NEW m \in wire, Lose(m)
  PROVE  TypeOK'
<1>1. faults' \in 0..MaxFaults
  BY FaultTypes DEF Lose
<1> QED
  BY <1>1 DEF Lose, contract, client, member, history, TypeOK

LEMMA InitTypes == Init => TypeOK /\ Contract!OwesWhileOpen
<1> SUFFICES ASSUME Init PROVE TypeOK
  BY DEF Init, Contract!Init, Contract!OwesWhileOpen
<1> USE RoundAssumption
<1>1. /\ phase \in [Rounds -> {"none", "untouched", "started", "settled", "cancelled"}]
      /\ owed \in [Rounds -> 0..NumChunks] /\ roster \in [Rounds -> SUBSET Trainers]
      /\ trains \in [Rounds -> 0..MaxTrains] /\ wire \subseteq Message
  BY DEF Init, Contract!Init
<1>2. /\ subscribed \in [Trainers -> SUBSET Rounds]
      /\ isSubscribed \in [Trainers -> BOOLEAN]
      /\ trainingTopic \in [Trainers -> Rounds \cup {NoTopic}]
      /\ subscribedTopics \in [Trainers -> Seq(Rounds \cup {FedLearn})]
  BY DEF Init
<1>3. /\ channel \in [Trainers -> Seq(Command)]
      /\ \A n \in Trainers : Len(channel[n]) <= ChannelSize
  BY DEF Init
<1>4. job \in [Trainers -> Job] /\ lastUrl \in [Trainers -> Url]
  BY DEF Init, Job, Url
<1>5. commands \in [Trainers -> 0..MaxCommands] /\ faults \in 0..MaxFaults
  BY DEF Init
<1>6. submissions = {} /\ completed = {} /\ IsFiniteSet(submissions)
  BY FS_EmptySet DEF Init
<1> QED
  BY <1>1, <1>2, <1>3, <1>4, <1>5, <1>6 DEF TypeOK

(* Only OpenTask, CancelTask and PublishWeights touch the contract, each   *)
(* with one of its steps.                                                  *)
LEMMA ContractTouched ==
  ASSUME [Next]_vars
  PROVE  \/ UNCHANGED contract
         \/ \E t \in Rounds : \/ Contract!Open(t, NumChunks) \/ Contract!Cancel(t)
                             \/ Contract!Claim(t)
<1>1. ASSUME NEW t \in Rounds, OpenTask(t) PROVE Contract!Open(t, NumChunks)
  BY <1>1 DEF OpenTask
<1>2. ASSUME NEW t \in Rounds, CancelTask(t) PROVE Contract!Cancel(t)
  BY <1>2 DEF CancelTask
<1>3. ASSUME NEW t \in Rounds, MeshSummary(t) \/ Train(t) PROVE UNCHANGED contract
  BY <1>3 DEF MeshSummary, Train
<1>4. ASSUME NEW m \in wire, Lose(m) \/ Receive(m) PROVE UNCHANGED contract
  BY <1>4 DEF Lose, Receive
<1>5. ASSUME NEW n \in Trainers,
             UserCommand(n) \/ Crash(n) \/ Join(n) \/ Leave(n) \/ StartAssign(n)
             \/ ExecuteLog(n)
      PROVE  UNCHANGED contract
  BY <1>5 DEF UserCommand, Crash, Join, Leave, StartAssign, ExecuteLog
<1>6. ASSUME NEW n \in Trainers,
             \/ SendLog(n) \/ TrainChunk(n) \/ RaiseInChunk(n) \/ LogException(n)
             \/ PublishFails(n) \/ FinishAssign(n)
      PROVE  UNCHANGED contract
  BY <1>6 DEF SendLog, TrainChunk, RaiseInChunk, LogException, PublishFails, FinishAssign
<1>7. ASSUME NEW n \in Trainers, PublishWeights(n)
      PROVE  \E t \in Rounds : Contract!Claim(t)
  BY <1>7 DEF PublishWeights, Claimed, Claimable
<1>8. CASE UNCHANGED vars
  BY <1>8 DEF vars, contract
<1> QED
  BY <1>1, <1>2, <1>3, <1>4, <1>5, <1>6, <1>7, <1>8 DEF Next, Execute

LEMMA PromiseKept ==
  ASSUME TypeOK, Contract!OwesWhileOpen, [Next]_vars
  PROVE  Contract!OwesWhileOpen'
<1>1. CASE UNCHANGED contract
  BY <1>1 DEF contract, Contract!OwesWhileOpen
<1>2. ASSUME NEW t \in Rounds, Contract!Open(t, NumChunks)
      PROVE  Contract!OwesWhileOpen'
  BY <1>2 DEF TypeOK, Contract!Open, Contract!OwesWhileOpen
<1>3. ASSUME NEW t \in Rounds, Contract!Cancel(t)
      PROVE  Contract!OwesWhileOpen'
  BY <1>3 DEF TypeOK, Contract!Cancel, Contract!OwesWhileOpen
<1>4. ASSUME NEW t \in Rounds, Contract!Claim(t)
      PROVE  Contract!OwesWhileOpen'
  BY <1>4, RoundAssumption DEF TypeOK, Contract!Claim, Contract!OwesWhileOpen
<1>5. \/ UNCHANGED contract
      \/ \E t \in Rounds : \/ Contract!Open(t, NumChunks) \/ Contract!Cancel(t)
                          \/ Contract!Claim(t)
  BY ContractTouched
<1> QED
  BY <1>1, <1>2, <1>3, <1>4, <1>5

LEMMA NextTypes ==
  TypeOK /\ Contract!OwesWhileOpen /\ [Next]_vars
    => TypeOK' /\ Contract!OwesWhileOpen'
<1> SUFFICES ASSUME TypeOK, Contract!OwesWhileOpen, [Next]_vars
             PROVE  TypeOK'
  BY PromiseKept
<1>1. CASE \E t \in Rounds : OpenTask(t) \/ CancelTask(t) \/ MeshSummary(t) \/ Train(t)
  BY <1>1, OpenTaskTypes, CancelTaskTypes, MeshSummaryTypes, TrainTypes
<1>2. CASE \E m \in wire : Lose(m) \/ Receive(m)
  BY <1>2, LoseTypes, ReceiveTypes
<1>3. CASE \E n \in Trainers : UserCommand(n) \/ Execute(n) \/ Crash(n)
  <2>1. PICK n \in Trainers : UserCommand(n) \/ Execute(n) \/ Crash(n)
    BY <1>3
  <2>2. CASE Execute(n)
    BY <2>2, JoinTypes, LeaveTypes, StartAssignTypes, ExecuteLogTypes, SendLogTypes,
       TrainChunkTypes, RaiseInChunkTypes, LogExceptionTypes, PublishWeightsTypes,
       PublishFailsTypes, FinishAssignTypes DEF Execute
  <2> QED
    BY <2>1, <2>2, UserCommandTypes, CrashTypes
<1>4. CASE UNCHANGED vars
  BY <1>4 DEF vars, contract, client, member, history, TypeOK
<1> QED
  BY <1>1, <1>2, <1>3, <1>4 DEF Next

(* What the trainers, the client and the contract keep stays well formed;  *)
(* no channel ever holds more than its capacity (the memory channel of     *)
(* coordinator.py:172), whatever is delivered, lost or fails.              *)
THEOREM TypeCorrect == Spec => []TypeOK
  BY InitTypes, NextTypes, PTL DEF Spec

-----------------------------------------------------------------------------
(* A trainer of the fed-learn mesh is in at most one round. *)
WithinRound(n) ==
  /\ isSubscribed[n] <=> trainingTopic[n] # NoTopic
  /\ subscribedTopics[n] =
       IF isSubscribed[n] THEN <<FedLearn, trainingTopic[n]>> ELSE <<FedLearn>>
  /\ subscribed[n] \subseteq {trainingTopic[n]}

(* What it says of a trainer outside, and inside, a round. *)
LEMMA OutsideRound ==
  ASSUME TypeOK, NEW n \in Trainers, WithinRound(n), ~isSubscribed[n]
  PROVE  /\ trainingTopic[n] = NoTopic /\ subscribedTopics[n] = <<FedLearn>>
         /\ subscribed[n] = {}
<1>1. trainingTopic[n] = NoTopic /\ subscribedTopics[n] = <<FedLearn>>
  BY DEF WithinRound
<1>2. subscribed[n] \subseteq Rounds /\ NoTopic \notin Rounds
  BY RoundAssumption DEF TypeOK, NoTopic
<1> QED
  BY <1>1, <1>2 DEF WithinRound

LEMMA InsideRound ==
  ASSUME TypeOK, NEW n \in Trainers, WithinRound(n), isSubscribed[n]
  PROVE  /\ trainingTopic[n] \in Rounds
         /\ subscribedTopics[n] = <<FedLearn, trainingTopic[n]>>
  BY DEF WithinRound, TypeOK

LEMMA JoinOne ==
  ASSUME TypeOK, NEW n \in Trainers, WithinRound(n), Join(n)
  PROVE  WithinRound(n)'
<1>1. PICK t \in Rounds : t = Head(channel[n]).topic
  BY HeadOfChannel DEF Join, NextCommand
<1>2. CASE UNCHANGED member
  BY <1>2 DEF member, WithinRound
<1>3. CASE /\ MayJoin(n)
           /\ subscribed' = [subscribed EXCEPT ![n] = @ \cup {t}]
           /\ subscribedTopics' = [subscribedTopics EXCEPT ![n] = Append(@, t)]
           /\ isSubscribed' = [isSubscribed EXCEPT ![n] = TRUE]
           /\ trainingTopic' = [trainingTopic EXCEPT ![n] = t]
  <2>1. subscribedTopics[n] = <<FedLearn>> /\ subscribed[n] = {}
    BY <1>3, OutsideRound DEF MayJoin
  <2>2. subscribed'[n] = {t} /\ isSubscribed'[n] = TRUE /\ trainingTopic'[n] = t
    BY <1>3, <2>1 DEF TypeOK
  <2>3. subscribedTopics'[n] = Append(subscribedTopics[n], t)
    BY <1>3 DEF TypeOK
  <2>4. Append(<<FedLearn>>, t) = <<FedLearn, t>>
    BY AppendToOne
  <2>5. t # NoTopic
    BY RoundAssumption DEF NoTopic
  <2> QED
    BY <2>1, <2>2, <2>3, <2>4, <2>5 DEF WithinRound
<1> QED
  BY <1>1, <1>2, <1>3 DEF Join

(* A user leaves the round, or names a topic that is not in the list. *)
LEMMA LeaveOne ==
  ASSUME TypeOK, NEW n \in Trainers, WithinRound(n), Leave(n),
         Head(channel[n]).topic # FedLearn
  PROVE  WithinRound(n)'
<1>1. PICK t \in Rounds : t = Head(channel[n]).topic /\ t # FedLearn /\ t # NoTopic
  <2>1. Head(channel[n]).topic \in LeaveTopics
    BY HeadOfChannel DEF Leave, NextCommand
  <2> QED
    BY <2>1, RoundAssumption DEF NoTopic
<1>2. subscribed'[n] = subscribed[n] \ {t}
  BY <1>1 DEF Leave, TypeOK
<1>3. CASE ~Contains(subscribedTopics[n], t)
  <2>1. UNCHANGED <<subscribedTopics, isSubscribed, trainingTopic>>
    BY <1>1, <1>3 DEF Leave
  <2> QED
    BY <1>2, <2>1 DEF WithinRound
<1>4. CASE Contains(subscribedTopics[n], t)
  <2>1. isSubscribed[n] /\ trainingTopic[n] = t
    <3>1. \E k \in 1..Len(subscribedTopics[n]) : subscribedTopics[n][k] = t
      BY <1>4 DEF Contains
    <3>2. ASSUME ~isSubscribed[n] PROVE FALSE
      BY <1>1, <3>1, <3>2, OutsideRound
    <3>3. PICK u \in Rounds : u = trainingTopic[n]
      BY <3>2, InsideRound
    <3>4. subscribedTopics[n] = <<FedLearn, u>>
      BY <3>2, <3>3, InsideRound
    <3>5. u = t
      BY <1>1, <3>1, <3>4
    <3> QED
      BY <3>2, <3>3, <3>5
  <2>2. /\ subscribedTopics' = [subscribedTopics EXCEPT ![n] = RemoveFirst(@, t)]
        /\ isSubscribed' = [isSubscribed EXCEPT ![n] = FALSE]
        /\ trainingTopic' = [trainingTopic EXCEPT ![n] = NoTopic]
    BY <1>1, <1>4 DEF Leave
  <2>3. subscribedTopics[n] = <<FedLearn, t>>
    BY <2>1, InsideRound
  <2>4. subscribedTopics'[n] = <<FedLearn>>
    BY <1>1, <2>2, <2>3, RemoveLastJoined DEF TypeOK
  <2>5. isSubscribed'[n] = FALSE /\ trainingTopic'[n] = NoTopic
    BY <2>2 DEF TypeOK
  <2>6. subscribed'[n] = {}
    BY <1>2, <2>1 DEF WithinRound
  <2> QED
    BY <2>4, <2>5, <2>6 DEF WithinRound
<1> QED
  BY <1>3, <1>4

(* Whoever left the fed-learn mesh: the flag and the topic still agree. *)
OutsideMesh(n) ==
  /\ isSubscribed[n] <=> trainingTopic[n] # NoTopic
  /\ subscribedTopics[n] \in Seq(Rounds)

InOneRound(n) == WithinRound(n) \/ OutsideMesh(n)

(* A user leaves the fed-learn mesh itself. *)
LEMMA LeaveMesh ==
  ASSUME TypeOK, NEW n \in Trainers, WithinRound(n), Leave(n),
         Head(channel[n]).topic = FedLearn
  PROVE  OutsideMesh(n)'
<1>1. /\ subscribedTopics[n] \in Seq(Rounds \cup {FedLearn})
      /\ Len(subscribedTopics[n]) >= 1 /\ subscribedTopics[n][1] = FedLearn
      /\ \A k \in 2..Len(subscribedTopics[n]) : subscribedTopics[n][k] \in Rounds
  <2>1. CASE isSubscribed[n]
    <3>1. PICK t \in Rounds : t = trainingTopic[n]
      BY <2>1, InsideRound
    <3>2. subscribedTopics[n] = <<FedLearn, t>>
      BY <2>1, <3>1, InsideRound
    <3> QED
      BY <3>2 DEF TypeOK
  <2>2. CASE ~isSubscribed[n]
    <3>1. subscribedTopics[n] = <<FedLearn>>
      BY <2>2, OutsideRound
    <3> QED
      BY <3>1 DEF TypeOK
  <2> QED
    BY <2>1, <2>2
<1>2. Contains(subscribedTopics[n], FedLearn)
  <2>1. Len(subscribedTopics[n]) \in Nat
    BY <1>1, LenProperties
  <2>2. 1 \in 1..Len(subscribedTopics[n])
    BY <1>1, <2>1
  <2> QED
    BY <1>1, <2>2 DEF Contains
<1>3. /\ subscribedTopics' = [subscribedTopics EXCEPT ![n] = RemoveFirst(@, FedLearn)]
      /\ isSubscribed' = [isSubscribed EXCEPT ![n] = FALSE]
      /\ trainingTopic' = [trainingTopic EXCEPT ![n] = NoTopic]
  BY <1>2 DEF Leave
<1>4. RemoveFirst(subscribedTopics[n], FedLearn) \in Seq(Rounds)
  BY <1>1, RemoveStart
<1> QED
  BY <1>3, <1>4 DEF TypeOK, OutsideMesh

LEMMA JoinOutside ==
  ASSUME TypeOK, NEW n \in Trainers, OutsideMesh(n), Join(n)
  PROVE  OutsideMesh(n)'
<1>1. PICK t \in Rounds : t = Head(channel[n]).topic
  BY HeadOfChannel DEF Join, NextCommand
<1>2. CASE UNCHANGED member
  BY <1>2 DEF member, OutsideMesh
<1>3. CASE /\ subscribedTopics' = [subscribedTopics EXCEPT ![n] = Append(@, t)]
           /\ isSubscribed' = [isSubscribed EXCEPT ![n] = TRUE]
           /\ trainingTopic' = [trainingTopic EXCEPT ![n] = t]
  <2>1. Append(subscribedTopics[n], t) \in Seq(Rounds)
    BY AppendProperties DEF OutsideMesh
  <2>2. t # NoTopic
    BY RoundAssumption DEF NoTopic
  <2> QED
    BY <1>3, <2>1, <2>2 DEF TypeOK, OutsideMesh
<1> QED
  BY <1>1, <1>2, <1>3 DEF Join

LEMMA LeaveOutside ==
  ASSUME TypeOK, NEW n \in Trainers, OutsideMesh(n), Leave(n)
  PROVE  OutsideMesh(n)'
<1> DEFINE t == Head(channel[n]).topic
<1>1. CASE UNCHANGED <<subscribedTopics, isSubscribed, trainingTopic>>
  BY <1>1 DEF OutsideMesh
<1>2. CASE /\ subscribedTopics' = [subscribedTopics EXCEPT ![n] = RemoveFirst(@, t)]
           /\ isSubscribed' = [isSubscribed EXCEPT ![n] = FALSE]
           /\ trainingTopic' = [trainingTopic EXCEPT ![n] = NoTopic]
  <2>1. RemoveFirst(subscribedTopics[n], t) \in Seq(Rounds)
    BY RemoveKeepsType DEF OutsideMesh
  <2> QED
    BY <1>2, <2>1 DEF TypeOK, OutsideMesh
<1> QED
  BY <1>1, <1>2 DEF Leave

(* A finished assignment and a crash only end subscriptions. *)
LEMMA LosesSubscriptions ==
  ASSUME NEW n \in Trainers, InOneRound(n),
         UNCHANGED <<isSubscribed, trainingTopic, subscribedTopics>>,
         subscribed'[n] \subseteq subscribed[n]
  PROVE  InOneRound(n)'
  BY DEF InOneRound, WithinRound, OutsideMesh

(* Training a chunk and publishing its weights change no membership. *)
LEMMA WorkKeepsMember ==
  ASSUME NEW n \in Trainers, Execute(n), ~Join(n), ~Leave(n), ~FinishAssign(n)
  PROVE  UNCHANGED member
  BY DEF Execute, StartAssign, ExecuteLog, SendLog, TrainChunk, RaiseInChunk,
         LogException, PublishWeights, PublishFails

(* A step of one trainer leaves what the others keep alone. *)
LEMMA OthersMember ==
  ASSUME TypeOK, NEW n \in Trainers, NEW p \in Trainers, n # p, Execute(n)
  PROVE  /\ subscribed'[p] = subscribed[p] /\ isSubscribed'[p] = isSubscribed[p]
         /\ trainingTopic'[p] = trainingTopic[p]
         /\ subscribedTopics'[p] = subscribedTopics[p]
<1>1. CASE Join(n)
  BY <1>1 DEF Join, member, TypeOK
<1>2. CASE Leave(n)
  BY <1>2 DEF Leave, TypeOK
<1>3. CASE FinishAssign(n)
  BY <1>3 DEF FinishAssign, TypeOK
<1>4. CASE UNCHANGED member
  BY <1>4 DEF member
<1> QED
  BY <1>1, <1>2, <1>3, <1>4, WorkKeepsMember

LEMMA OthersKeep ==
  ASSUME TypeOK, NEW n \in Trainers, NEW p \in Trainers, n # p, InOneRound(p), Execute(n)
  PROVE  InOneRound(p)'
  BY OthersMember DEF InOneRound, WithinRound, OutsideMesh

LEMMA ExecuteOne ==
  ASSUME TypeOK, NEW n \in Trainers, InOneRound(n), Execute(n)
  PROVE  InOneRound(n)'
<1>1. CASE FinishAssign(n)
  <2>1. subscribed'[n] \subseteq subscribed[n]
    BY <1>1 DEF FinishAssign, TypeOK
  <2> QED
    BY <1>1, <2>1, LosesSubscriptions DEF FinishAssign
<1>2. CASE UNCHANGED member
  BY <1>2 DEF member, InOneRound, WithinRound, OutsideMesh
<1>3. CASE Join(n)
  BY <1>3, JoinOne, JoinOutside DEF InOneRound
<1>4. CASE Leave(n)
  BY <1>4, LeaveOne, LeaveMesh, LeaveOutside DEF InOneRound
<1> QED
  BY <1>1, <1>2, <1>3, <1>4, WorkKeepsMember

AllInOneRound == \A n \in Trainers : InOneRound(n)

LEMMA OneRoundStep ==
  ASSUME TypeOK, AllInOneRound, [Next]_vars
  PROVE  AllInOneRound'
<1>1. SUFFICES ASSUME NEW p \in Trainers PROVE InOneRound(p)'
  BY DEF AllInOneRound
<1>2. InOneRound(p)
  BY DEF AllInOneRound
<1>3. CASE UNCHANGED member
  BY <1>2, <1>3 DEF member, InOneRound, WithinRound, OutsideMesh
<1>4. ASSUME NEW n \in Trainers, Execute(n) PROVE InOneRound(p)'
  <2>1. CASE n = p
    BY <1>2, <1>4, <2>1, ExecuteOne
  <2>2. CASE n # p
    BY <1>2, <1>4, <2>2, OthersKeep
  <2> QED
    BY <2>1, <2>2
<1>5. ASSUME NEW n \in Trainers, Crash(n) PROVE InOneRound(p)'
  <2>1. subscribed'[p] \subseteq subscribed[p]
    BY <1>5 DEF Crash, TypeOK
  <2> QED
    BY <1>2, <1>5, <2>1, LosesSubscriptions DEF Crash
<1> QED
  BY <1>3, <1>4, <1>5 DEF Next, OpenTask, CancelTask, MeshSummary, Train, Lose, Receive,
     UserCommand, vars

LEMMA AllInOneRoundHolds == Spec => []AllInOneRound
<1>1. Init => AllInOneRound
  BY RoundAssumption DEF Init, AllInOneRound, InOneRound, WithinRound, NoTopic
<1>2. TypeOK /\ AllInOneRound /\ [Next]_vars => AllInOneRound'
  BY OneRoundStep
<1> QED
  BY <1>1, <1>2, TypeCorrect, PTL DEF Spec

(* A trainer that still is in the fed-learn mesh is in one round at a      *)
(* time: the guard of cmd join (coordinator.py:449) suffices, for any      *)
(* number of rounds and commands, any channel size, whatever users leave   *)
(* and whatever fails; the flag and the topic agree without exception.     *)
THEOREM OneRound == Spec => []OneRoundAtATime
<1>1. AllInOneRound => OneRoundAtATime
  <2> SUFFICES ASSUME AllInOneRound, NEW n \in Trainers
               PROVE  /\ isSubscribed[n] <=> trainingTopic[n] # NoTopic
                      /\ Contains(subscribedTopics[n], FedLearn) => WithinRound(n)
    BY DEF OneRoundAtATime, WithinRound
  <2>1. CASE WithinRound(n)
    BY <2>1 DEF WithinRound
  <2>2. CASE OutsideMesh(n)
    <3>1. subscribedTopics[n] \in Seq(Rounds)
      BY <2>2 DEF OutsideMesh
    <3>2. \A k \in 1..Len(subscribedTopics[n]) : subscribedTopics[n][k] \in Rounds
      BY <3>1, ElementOfSeq
    <3>3. ~Contains(subscribedTopics[n], FedLearn)
      BY <3>2, RoundAssumption DEF Contains
    <3> QED
      BY <2>2, <3>3 DEF OutsideMesh
  <2> QED
    BY <2>1, <2>2 DEF AllInOneRound, InOneRound
<1> QED
  BY <1>1, AllInOneRoundHolds, PTL

-----------------------------------------------------------------------------
(* A submission of one of the first k chunks of message m by trainer n, in *)
(* the set subs.                                                           *)
CountedIn(subs, n, m, k) ==
  \A j \in 1..k : \E s \in subs : /\ s.by = n /\ s.train = m.train
                                  /\ s.round = m.round /\ s.chunk = m.share[j]

Busy(w) == w.state \in {"train", "raised", "publish"}
Behind(w) == Len(w.message.share) - Len(w.left)

(* What trainer n has left to do is a tail of its share, and the chunks    *)
(* before it have been counted.                                            *)
WorkedOffIn(subs, n, w) ==
  Busy(w) =>
    /\ Behind(w) \in Nat
    /\ \A j \in 1..Len(w.left) : w.left[j] = w.message.share[Behind(w) + j]
    /\ CountedIn(subs, n, w.message, Behind(w))

WorkedOff == \A n \in Trainers : WorkedOffIn(submissions, n, job[n])

LEMMA CountedGrows ==
  ASSUME NEW subs, NEW more, subs \subseteq more, NEW n, NEW m, NEW k,
         CountedIn(subs, n, m, k)
  PROVE  CountedIn(more, n, m, k)
  BY DEF CountedIn

(* Submissions are only added, and a job that does not change, or ends, is *)
(* still worked off.                                                       *)
LEMMA WorkedOffGrows ==
  ASSUME NEW subs, NEW more, subs \subseteq more, NEW n, NEW w,
         WorkedOffIn(subs, n, w)
  PROVE  WorkedOffIn(more, n, w)
  BY CountedGrows DEF WorkedOffIn

LEMMA NotBusy ==
  ASSUME NEW subs, NEW n, NEW w \in {Idle, Down}
  PROVE  WorkedOffIn(subs, n, w)
  BY DEF WorkedOffIn, Busy, Idle, Down

(* A chunk that was published, counted as the next of the share. *)
NextOfShare(w, s) ==
  /\ s.chunk = w.message.share[Behind(w) + 1]
  /\ Behind(w) + 1 \in 1..Len(w.message.share)
  /\ Behind(Proceed(w)) = Behind(w) + 1

LEMMA CountedOneMore ==
  ASSUME NEW subs, NEW n, NEW w, NEW s,
         w.left \in Seq(Chunks), w.left # <<>>, w.message.share \in Seq(Chunks),
         w.state = "publish", WorkedOffIn(subs, n, w),
         s.by = n, s.train = w.message.train, s.round = w.message.round,
         s.chunk = Head(w.left)
  PROVE  NextOfShare(w, s) /\ WorkedOffIn(subs \cup {s}, n, Proceed(w))
<1> DEFINE L == Len(w.left)
           b == Behind(w)
           p == Proceed(w)
<1>1. /\ L \in Nat /\ L > 0 /\ Len(w.message.share) \in Nat
      /\ b = Len(w.message.share) - L
  BY DEF Behind
<1>2. Busy(w)
  BY DEF Busy
<1>3. /\ b \in Nat /\ \A j \in 1..L : w.left[j] = w.message.share[b + j]
      /\ CountedIn(subs, n, w.message, b)
  BY <1>2 DEF WorkedOffIn
<1>4. Head(w.left) = w.left[1]
  OBVIOUS
<1> DEFINE S == Len(w.message.share)
<1>5. Tail(w.left) \in Seq(Chunks) /\ Len(Tail(w.left)) = L - 1
      /\ \A j \in 1..(L - 1) : Tail(w.left)[j] = w.left[j + 1]
  OBVIOUS
<1>6. /\ p.message = w.message /\ p.left = Tail(w.left)
      /\ Len(p.left) = L - 1
      /\ \A j \in 1..(L - 1) : p.left[j] = w.left[j + 1]
  BY <1>5 DEF Proceed, Work
<1>7. Behind(p) = S - (L - 1)
  BY <1>6 DEF Behind
<1> HIDE DEF L, b, p, S
<1>8. /\ L \in Nat /\ L > 0 /\ b \in Nat /\ S \in Nat
      /\ b = S - L
  BY <1>1, <1>3 DEF S
<1>9. s.chunk = w.message.share[b + 1]
  BY <1>8, <1>3, <1>4
<1>10. Behind(p) = b + 1
  BY <1>8, <1>7
<1>11. CountedIn(subs \cup {s}, n, w.message, b + 1)
  <2>1. ASSUME NEW j \in 1..(b + 1)
        PROVE  \E r \in subs \cup {s} : /\ r.by = n /\ r.train = w.message.train
                                        /\ r.round = w.message.round
                                        /\ r.chunk = w.message.share[j]
    <3>1. j \in 1..b \/ j = b + 1
      BY <1>8
    <3>2. CASE j \in 1..b
      BY <1>3, <3>2 DEF CountedIn
    <3>3. CASE j = b + 1
      BY <1>9, <3>3
    <3> QED
      BY <3>1, <3>2, <3>3
  <2> QED
    BY <2>1 DEF CountedIn
<1>12. ASSUME NEW j \in 1..Len(p.left)
      PROVE  p.left[j] = p.message.share[Behind(p) + j]
  <2>1. j \in 1..(L - 1) /\ j + 1 \in 1..L
    BY <1>8, <1>6
  <2>2. p.left[j] = w.message.share[b + (j + 1)]
    BY <1>3, <1>6, <2>1
  <2>3. b + (j + 1) = b + 1 + j
    BY <1>8, <2>1
  <2> QED
    BY <1>6, <1>10, <2>2, <2>3
<1>13. Behind(p) \in Nat
  BY <1>8, <1>10
<1>14. WorkedOffIn(subs \cup {s}, n, p)
  BY <1>6, <1>10, <1>11, <1>12, <1>13 DEF WorkedOffIn
<1>15. b + 1 \in 1..S
  BY <1>8
<1> QED
  BY <1>9, <1>10, <1>14, <1>15 DEF b, p, S, NextOfShare

(* Within a chunk a job goes on: the same message, the same chunks left. *)
ChunkStep(n) == SendLog(n) \/ TrainChunk(n) \/ RaiseInChunk(n) \/ LogException(n)

GoesOn(w, v) == Busy(v) /\ v.message = w.message /\ v.left = w.left

LEMMA TrainedGoesOn ==
  ASSUME NEW n \in Trainers, NEW url, Trained(n, url)
  PROVE  \E v : /\ job' = [job EXCEPT ![n] = v] /\ GoesOn(job[n], v)
                /\ v.state = "publish" /\ v.url = url
<1> DEFINE v == [state |-> "publish", message |-> job[n].message,
                 left |-> job[n].left, url |-> url]
<1>1. job' = [job EXCEPT ![n] = v]
  BY DEF Trained
<1>2. GoesOn(job[n], v) /\ v.state = "publish" /\ v.url = url
  BY DEF GoesOn, Busy
<1> QED
  BY <1>1, <1>2

LEMMA ChunkStepGoesOn ==
  ASSUME TypeOK, NEW n \in Trainers, ChunkStep(n)
  PROVE  /\ Busy(job[n]) /\ job[n].left # <<>>
         /\ \E v : job' = [job EXCEPT ![n] = v] /\ GoesOn(job[n], v)
         /\ UNCHANGED <<contract, client, wire, member, history>>
<1>1. CASE SendLog(n)
  <2> DEFINE v == [job[n] EXCEPT !.logs = job[n].logs + 1]
  <2>1. job' = [job EXCEPT ![n] = v]
    BY <1>1 DEF SendLog
  <2>2. job[n] \in Training /\ job[n].state = "train"
    BY <1>1, JobTypes DEF SendLog, InChunk
  <2>3. v.state = "train" /\ v.message = job[n].message /\ v.left = job[n].left
    BY <2>2 DEF Training
  <2> HIDE DEF v
  <2> QED
    BY <1>1, <2>1, <2>2, <2>3 DEF GoesOn, Busy, SendLog, InChunk
<1>2. CASE TrainChunk(n)
  <2>1. \E url : Trained(n, url)
    BY <1>2 DEF TrainChunk
  <2> QED
    BY <1>2, <2>1, TrainedGoesOn DEF TrainChunk, InChunk, Busy
<1>3. CASE RaiseInChunk(n)
  <2> DEFINE v == [state |-> "raised", message |-> job[n].message, left |-> job[n].left]
  <2>1. job' = [job EXCEPT ![n] = v]
    BY <1>3 DEF RaiseInChunk
  <2>2. GoesOn(job[n], v)
    BY DEF GoesOn, Busy
  <2> HIDE DEF v
  <2> QED
    BY <1>3, <2>1, <2>2 DEF RaiseInChunk, InChunk, Busy
<1>4. CASE LogException(n)
  <2>1. job[n].left # <<>>
    BY <1>4, JobTypes DEF LogException
  <2> QED
    BY <1>4, <2>1, TrainedGoesOn DEF LogException, Busy
<1> QED
  BY <1>1, <1>2, <1>3, <1>4 DEF ChunkStep

(* The jobs of a step: a trainer's job stays, ends, starts with the whole  *)
(* share, goes from training to publishing, or goes to the next chunk      *)
(* with its submission.                                                    *)
LEMMA WorkedOffStep ==
  ASSUME TypeOK, WorkedOff, [Next]_vars
  PROVE  WorkedOff' /\ submissions \subseteq submissions'
<1> USE DEF contract, client, member, history
<1>1. ASSUME submissions' = submissions,
             \A p \in Trainers : job'[p] = job[p] \/ job'[p] \in {Idle, Down}
      PROVE  WorkedOff' /\ submissions \subseteq submissions'
  <2>1. ASSUME NEW p \in Trainers PROVE WorkedOffIn(submissions', p, job'[p])
    BY <1>1, NotBusy DEF WorkedOff
  <2> QED
    BY <1>1, <2>1 DEF WorkedOff
<1>2. ASSUME submissions' = submissions, NEW n \in Trainers, NEW w,
             job' = [job EXCEPT ![n] = w], WorkedOffIn(submissions, n, w)
      PROVE  WorkedOff' /\ submissions \subseteq submissions'
  <2>1. ASSUME NEW p \in Trainers PROVE WorkedOffIn(submissions', p, job'[p])
    BY <1>2 DEF WorkedOff, TypeOK
  <2> QED
    BY <1>2, <2>1 DEF WorkedOff
<1>3. CASE UNCHANGED <<job, submissions>>
  BY <1>1, <1>3
<1>4. ASSUME NEW n \in Trainers, StartAssign(n)
      PROVE  WorkedOff' /\ submissions \subseteq submissions'
  <2>1. PICK m \in Message : m = Head(channel[n]).message
    BY <1>4, HeadOfChannel DEF StartAssign, NextCommand
  <2> DEFINE w == Work(m, m.share)
  <2>2. job' = [job EXCEPT ![n] = w] /\ submissions' = submissions
    BY <1>4, <2>1 DEF StartAssign
  <2>3. w.message = m /\ w.left = m.share /\ Len(m.share) \in Nat
    BY DEF Work, Message
  <2>4. Behind(w) = 0
    BY <2>3 DEF Behind
  <2>5. CountedIn(submissions, n, m, 0)
    BY DEF CountedIn
  <2>6. \A j \in 1..Len(w.left) : w.left[j] = w.message.share[Behind(w) + j]
    BY <2>3, <2>4
  <2> HIDE DEF w
  <2>7. WorkedOffIn(submissions, n, w)
    BY <2>3, <2>4, <2>5, <2>6 DEF WorkedOffIn
  <2> QED
    BY <1>2, <2>2, <2>7
<1>5. ASSUME NEW n \in Trainers, ChunkStep(n)
      PROVE  WorkedOff' /\ submissions \subseteq submissions'
  <2>1. PICK w : job' = [job EXCEPT ![n] = w] /\ GoesOn(job[n], w)
    BY <1>5, ChunkStepGoesOn
  <2>2. w.message = job[n].message /\ w.left = job[n].left /\ Behind(w) = Behind(job[n])
    BY <2>1 DEF Behind, GoesOn
  <2>3. Busy(job[n]) /\ WorkedOffIn(submissions, n, job[n])
    BY <1>5, ChunkStepGoesOn DEF WorkedOff
  <2>4. submissions' = submissions
    BY <1>5, ChunkStepGoesOn
  <2>5. WorkedOffIn(submissions, n, w)
    BY <2>2, <2>3 DEF WorkedOffIn
  <2> QED
    BY <1>2, <2>1, <2>4, <2>5
<1>6. ASSUME NEW n \in Trainers, PublishWeights(n)
      PROVE  WorkedOff' /\ submissions \subseteq submissions'
  <2> DEFINE w == job[n]
             s == ClaimMade(n)
  <2>1. submissions' = submissions \cup {s}
    BY <1>6 DEF PublishWeights, Claimed, ClaimMade
  <2>2. /\ w.state = "publish" /\ w.message \in Message /\ w.left \in Seq(Chunks)
        /\ w.left # <<>> /\ w.message.share \in Seq(Chunks)
    BY <1>6, JobTypes DEF PublishWeights, Message
  <2>3. s.by = n /\ s.train = w.message.train /\ s.round = w.message.round
        /\ s.chunk = Head(w.left)
    BY DEF ClaimMade
  <2>4. WorkedOffIn(submissions, n, w)
    BY DEF WorkedOff
  <2>5. PICK v \in {Idle, Proceed(w)} : job' = [job EXCEPT ![n] = v]
    BY <1>6 DEF PublishWeights, OnFailure
  <2> HIDE DEF w, s
  <2>6. WorkedOffIn(submissions \cup {s}, n, v)
    <3>1. CASE v = Idle
      BY <3>1, NotBusy
    <3>2. CASE v = Proceed(w)
      BY <2>2, <2>3, <2>4, <3>2, CountedOneMore
    <3> QED
      BY <3>1, <3>2
  <2>7. ASSUME NEW p \in Trainers PROVE WorkedOffIn(submissions', p, job'[p])
    <3>1. CASE p = n
      BY <2>1, <2>5, <2>6, <3>1 DEF TypeOK
    <3>2. CASE p # n
      <4>1. job'[p] = job[p]
        BY <2>5, <3>2 DEF TypeOK
      <4>2. WorkedOffIn(submissions, p, job[p])
        BY DEF WorkedOff
      <4> QED
        BY <2>1, <4>1, <4>2, WorkedOffGrows
    <3> QED
      BY <3>1, <3>2
  <2> QED
    BY <2>1, <2>7 DEF WorkedOff
<1>7. ASSUME NEW n \in Trainers, PublishFails(n) \/ FinishAssign(n) \/ Crash(n)
      PROVE  WorkedOff' /\ submissions \subseteq submissions'
  <2>1. /\ submissions' = submissions
        /\ job' = [job EXCEPT ![n] = Idle] \/ job' = [job EXCEPT ![n] = Down]
    BY <1>7 DEF PublishFails, FinishAssign, Crash, OnFailure
  <2>2. \A p \in Trainers : job'[p] = job[p] \/ job'[p] \in {Idle, Down}
    BY <2>1 DEF TypeOK
  <2> QED
    BY <1>1, <2>1, <2>2
<1>8. ASSUME NEW n \in Trainers, UserCommand(n) \/ Join(n) \/ Leave(n) \/ ExecuteLog(n)
      PROVE  UNCHANGED <<job, submissions>>
  BY <1>8 DEF UserCommand, Join, Leave, ExecuteLog
<1>9. ASSUME NEW t \in Rounds, OpenTask(t) \/ CancelTask(t) \/ MeshSummary(t) \/ Train(t)
      PROVE  UNCHANGED <<job, submissions>>
  BY <1>9 DEF OpenTask, CancelTask, MeshSummary, Train
<1>10. ASSUME NEW m \in wire, Lose(m) \/ Receive(m)
       PROVE  UNCHANGED <<job, submissions>>
  BY <1>10 DEF Lose, Receive
<1>11. CASE UNCHANGED vars
  BY <1>3, <1>11 DEF vars
<1> QED
  BY <1>3, <1>4, <1>5, <1>6, <1>7, <1>8, <1>9, <1>10, <1>11 DEF Next, Execute, ChunkStep

LEMMA WorkedOffHolds == Spec => []WorkedOff
<1>1. Init => WorkedOff
  BY NotBusy DEF Init, WorkedOff
<1>2. TypeOK /\ WorkedOff /\ [Next]_vars => WorkedOff'
  BY WorkedOffStep
<1> QED
  BY <1>1, <1>2, TypeCorrect, PTL DEF Spec

(* A trainer logs "Training on all assigned chunks ...: Completed"         *)
(* (coordinator.py:430) only when the contract has counted every chunk of  *)
(* its share, however many chunks it was given and whatever failed before. *)
THEOREM CompletedWasUploaded == Spec => []CompletedMeansUploaded
<1> USE DEF contract, client, member, history
<1>1. Init => CompletedMeansUploaded
  BY DEF Init, CompletedMeansUploaded
<1>2. TypeOK /\ WorkedOff /\ CompletedMeansUploaded /\ [Next]_vars
        => CompletedMeansUploaded'
  <2> SUFFICES ASSUME TypeOK, WorkedOff, CompletedMeansUploaded, [Next]_vars
               PROVE  CompletedMeansUploaded'
    OBVIOUS
  <2>1. submissions \subseteq submissions'
    BY WorkedOffStep
  <2>2. ASSUME NEW c \in completed, NEW j \in DOMAIN c.message.share
        PROVE  \E s \in submissions' : /\ s.by = c.by /\ s.train = c.message.train
                                       /\ s.round = c.message.round
                                       /\ s.chunk = c.message.share[j]
    BY <2>1, <2>2 DEF CompletedMeansUploaded
  <2>3. CASE completed' = completed
    BY <2>2, <2>3 DEF CompletedMeansUploaded
  <2>4. ASSUME NEW n \in Trainers, FinishAssign(n)
        PROVE  CompletedMeansUploaded'
    <3> DEFINE m == job[n].message
               c == [by |-> n, message |-> m]
    <3>1. completed' = completed \cup {c} /\ submissions' = submissions
      BY <2>4 DEF FinishAssign
    <3>2. m \in Message /\ job[n].left = <<>> /\ Busy(job[n])
      BY <2>4, JobTypes DEF FinishAssign, Busy
    <3>3. CountedIn(submissions, n, m, Len(m.share)) /\ DOMAIN m.share = 1..Len(m.share)
      <4>1. m.share \in Seq(Chunks)
        BY <3>2 DEF Message
      <4>2. Behind(job[n]) = Len(m.share)
        BY <3>2, <4>1 DEF Behind
      <4> QED
        BY <3>2, <4>1, <4>2 DEF WorkedOff, WorkedOffIn
    <3>4. c.by = n /\ c.message = m
      OBVIOUS
    <3> HIDE DEF m, c
    <3>5. \A j \in DOMAIN c.message.share :
            \E s \in submissions : /\ s.by = c.by /\ s.train = c.message.train
                                   /\ s.round = c.message.round
                                   /\ s.chunk = c.message.share[j]
      BY <3>3, <3>4 DEF CountedIn
    <3> QED
      BY <2>2, <3>1, <3>5 DEF CompletedMeansUploaded
  <2>5. completed' = completed \/ \E n \in Trainers : FinishAssign(n)
    BY DEF Next, Execute, OpenTask, CancelTask, MeshSummary, Train, Lose, Receive,
           UserCommand, Crash, Join, Leave, StartAssign, ExecuteLog, SendLog,
           TrainChunk, RaiseInChunk, LogException, PublishWeights, PublishFails, vars
  <2> QED
    BY <2>3, <2>4, <2>5
<1> QED
  BY <1>1, <1>2, TypeCorrect, WorkedOffHolds, PTL DEF Spec

-----------------------------------------------------------------------------
LEMMA MultipleApart ==
  ASSUME NEW m \in Nat, NEW i \in Nat, NEW j \in Nat, i < j
  PROVE  i * m + m <= j * m
<1>1. PICK c \in Nat : j = i + 1 + c
  <2>1. j - i - 1 \in Nat /\ j = i + 1 + (j - i - 1)
    OBVIOUS
  <2> QED
    BY <2>1
<1>2. j * m = i * m + m + c * m
  BY <1>1
<1>3. c * m \in Nat
  OBVIOUS
<1> QED
  BY <1>2, <1>3

(* The i-th chunk of the k-th share of m is the j-th of the l-th. *)
Overlap(k, i, l, j, m, n) ==
  /\ i \in 1..Len(Share(k, m, n)) /\ j \in 1..Len(Share(l, m, n))
  /\ Share(k, m, n)[i] = Share(l, m, n)[j]

(* Two places in the shares of two trainers hold different chunks. *)
LEMMA SharesApart ==
  ASSUME NEW m \in Nat, m > 0, NEW k \in 1..m, NEW l \in 1..m, NEW n \in Nat,
         NEW i \in Nat, NEW j \in Nat, Overlap(k, i, l, j, m, n)
  PROVE  k = l /\ i = j
<1>1. /\ i \in 1..Len(Share(k, m, n)) /\ j \in 1..Len(Share(l, m, n))
      /\ Share(k, m, n)[i] = Share(l, m, n)[j]
  BY DEF Overlap
<1>2. ASSUME NEW x \in 1..m
      PROVE  /\ Len(Share(x, m, n)) \in Nat
             /\ \A y \in 1..Len(Share(x, m, n)) : Share(x, m, n)[y] = x + (y - 1) * m
  <2> DEFINE d == n + m - x
             q == d \div m
  <2>1. d \in Nat
    OBVIOUS
  <2> HIDE DEF d
  <2>2. q \in Nat
    BY <2>1
  <2>3. Share(x, m, n) = [y \in 1..q |-> x + (y - 1) * m]
    BY DEF Share, q, d
  <2> HIDE DEF q
  <2> QED
    BY <2>2, <2>3
<1>3. i \in Nat \ {0} /\ j \in Nat \ {0}
  <2>1. i \in 1..Len(Share(k, m, n)) /\ j \in 1..Len(Share(l, m, n))
    BY <1>1
  <2>2. Len(Share(k, m, n)) \in Nat /\ Len(Share(l, m, n)) \in Nat
    BY <1>2
  <2> QED
    BY <2>1, <2>2
<1> DEFINE a == (i - 1) * m
           b == (j - 1) * m
<1>4. a \in Nat /\ b \in Nat
  BY <1>3
<1>5. k + a = l + b
  BY <1>1, <1>2
<1>6. i - 1 < j - 1 => a + m <= b
  BY <1>3, MultipleApart
<1>7. j - 1 < i - 1 => b + m <= a
  BY <1>3, MultipleApart
<1>8. i - 1 = j - 1 => a = b
  OBVIOUS
<1> HIDE DEF a, b
<1>9. i = j /\ a = b
  BY <1>3, <1>4, <1>5, <1>6, <1>7, <1>8
<1> QED
  BY <1>4, <1>5, <1>9

-----------------------------------------------------------------------------
(* Where a message can be: in the network (w), at one place of its         *)
(* trainer's channel (q), in its trainer's job (jobs).                     *)
Waiting(q, n, k, m) ==
  k \in 1..Len(q[n]) /\ q[n][k].cmd = "assign" /\ q[n][k].message = m

Working(jobs, n, m) == Busy(jobs[n]) /\ jobs[n].message = m

InPlay(w, q, jobs, m) ==
  \/ m \in w
  \/ \E n \in Trainers : (\E k \in Nat : Waiting(q, n, k, m)) \/ Working(jobs, n, m)

(* A message is in one place at most, and only its addressee has it. *)
OnePlace(w, q, jobs) ==
  \A m \in Message : \A n \in Trainers :
    /\ \A k \in Nat : Waiting(q, n, k, m) =>
         /\ m.to = n /\ m \notin w /\ ~Working(jobs, n, m)
         /\ \A j \in Nat : Waiting(q, n, j, m) => j = k
    /\ Working(jobs, n, m) => m.to = n /\ m \notin w

(* The shares of a train command's messages are disjoint, and repeat no chunk. *)
SameChunk(m, i, l, j) ==
  m.round = l.round /\ m.train = l.train
    /\ i \in 1..Len(m.share) /\ j \in 1..Len(l.share) /\ m.share[i] = l.share[j]

Disjoint(w, q, jobs) ==
  \A m, l \in Message : InPlay(w, q, jobs, m) /\ InPlay(w, q, jobs, l) =>
    \A i, j \in Nat : SameChunk(m, i, l, j) => m = l /\ i = j

(* Of a message in play only the chunks behind the one its trainer is      *)
(* working on have been submitted.                                         *)
ClaimOf(s, m, i) ==
  s.round = m.round /\ s.train = m.train /\ i \in 1..Len(m.share) /\ s.chunk = m.share[i]

Unclaimed(w, q, jobs, subs) ==
  \A m \in Message : InPlay(w, q, jobs, m) =>
    \A s \in subs : \A i \in Nat : ClaimOf(s, m, i) =>
      Working(jobs, m.to, m) /\ i <= Behind(jobs[m.to])

(* Messages and submissions are those of train commands given so far. *)
Commanded(w, q, jobs, subs, count) ==
  \A t \in Rounds :
    /\ \A m \in Message : InPlay(w, q, jobs, m) /\ m.round = t => m.train <= count[t]
    /\ \A s \in subs : s.round = t => s.train <= count[t]

Apart ==
  /\ OnePlace(wire, channel, job) /\ Disjoint(wire, channel, job)
  /\ Unclaimed(wire, channel, job, submissions)
  /\ Commanded(wire, channel, job, submissions, trains)
  /\ ChunkRewardedOnce

(* What most steps do to the messages: none appears, and a job that goes   *)
(* on stands where it stood.                                               *)
Kept(w, q, jobs, w2, q2, jobs2) ==
  \A m \in Message : InPlay(w2, q2, jobs2, m) =>
    /\ InPlay(w, q, jobs, m)
    /\ Working(jobs, m.to, m) =>
         Working(jobs2, m.to, m) /\ Behind(jobs2[m.to]) = Behind(jobs[m.to])

LEMMA KeptApart ==
  ASSUME NEW w, NEW q, NEW jobs, NEW w2, NEW q2, NEW jobs2, NEW subs, NEW count,
         Kept(w, q, jobs, w2, q2, jobs2),
         Disjoint(w, q, jobs), Unclaimed(w, q, jobs, subs),
         Commanded(w, q, jobs, subs, count)
  PROVE  /\ Disjoint(w2, q2, jobs2) /\ Unclaimed(w2, q2, jobs2, subs)
         /\ Commanded(w2, q2, jobs2, subs, count)
<1>1. Disjoint(w2, q2, jobs2)
  BY DEF Kept, Disjoint
<1>2. Unclaimed(w2, q2, jobs2, subs)
  BY DEF Kept, Unclaimed
<1>3. Commanded(w2, q2, jobs2, subs, count)
  BY DEF Kept, Commanded
<1> QED
  BY <1>1, <1>2, <1>3

(* The same for the state: a step that only moves or drops messages. *)
LEMMA MovedApart ==
  ASSUME Apart, UNCHANGED <<submissions, trains>>,
         OnePlace(wire', channel', job'),
         Kept(wire, channel, job, wire', channel', job')
  PROVE  Apart'
<1>1. /\ Disjoint(wire', channel', job') /\ Unclaimed(wire', channel', job', submissions)
      /\ Commanded(wire', channel', job', submissions, trains)
  BY KeptApart DEF Apart
<1>2. ChunkRewardedOnce'
  BY DEF Apart, ChunkRewardedOnce
<1> QED
  BY <1>1, <1>2 DEF Apart

(* Messages are dropped or move up in their queue, jobs end or stand. *)
LEMMA NothingNew ==
  ASSUME NEW w, NEW q, NEW jobs, NEW w2, NEW q2, NEW jobs2, NEW d \in [Trainers -> Nat],
         OnePlace(w, q, jobs), w2 \subseteq w,
         \A n \in Trainers : \A k \in Nat : \A m \in Message :
           Waiting(q2, n, k, m) => Waiting(q, n, k + d[n], m),
         \A n \in Trainers : \A m \in Message :
           Working(jobs2, n, m) => Working(jobs, n, m) /\ Behind(jobs2[n]) = Behind(jobs[n])
  PROVE  OnePlace(w2, q2, jobs2) /\ Kept(w, q, jobs, w2, q2, jobs2)
<1>1. ASSUME NEW m \in Message, NEW n \in Trainers, NEW k \in Nat, Waiting(q2, n, k, m)
      PROVE  /\ m.to = n /\ m \notin w2 /\ ~Working(jobs, n, m) /\ ~Working(jobs2, n, m)
             /\ \A j \in Nat : Waiting(q2, n, j, m) => j = k
             /\ InPlay(w, q, jobs, m)
  <2>1. d[n] \in Nat /\ k + d[n] \in Nat /\ Waiting(q, n, k + d[n], m)
    BY <1>1
  <2>2. m.to = n /\ m \notin w /\ ~Working(jobs, n, m)
    BY <2>1 DEF OnePlace
  <2>3. ASSUME NEW j \in Nat, Waiting(q2, n, j, m) PROVE j = k
    <3>1. j + d[n] \in Nat /\ Waiting(q, n, j + d[n], m)
      BY <2>1, <2>3
    <3>2. j + d[n] = k + d[n]
      BY <2>1, <3>1 DEF OnePlace
    <3> QED
      BY <2>1, <3>2
  <2>4. InPlay(w, q, jobs, m)
    BY <2>1 DEF InPlay
  <2> QED
    BY <2>2, <2>3, <2>4
<1>2. ASSUME NEW m \in Message, NEW n \in Trainers, Working(jobs2, n, m)
      PROVE  /\ m.to = n /\ m \notin w2 /\ Working(jobs, n, m)
             /\ Behind(jobs2[n]) = Behind(jobs[n])
  BY <1>2 DEF OnePlace
<1>3. OnePlace(w2, q2, jobs2)
  BY <1>1, <1>2 DEF OnePlace
<1>4. ASSUME NEW m \in Message, InPlay(w2, q2, jobs2, m)
      PROVE  /\ InPlay(w, q, jobs, m)
             /\ Working(jobs, m.to, m) =>
                  Working(jobs2, m.to, m) /\ Behind(jobs2[m.to]) = Behind(jobs[m.to])
  <2>1. m.to \in Trainers
    BY DEF Message
  <2>2. CASE m \in w2
    BY <2>1, <2>2 DEF InPlay, OnePlace
  <2>3. CASE \E n \in Trainers : \E k \in Nat : Waiting(q2, n, k, m)
    BY <1>1, <2>3
  <2>4. CASE \E n \in Trainers : Working(jobs2, n, m)
    BY <1>2, <2>4 DEF InPlay
  <2> QED
    BY <1>4, <2>2, <2>3, <2>4 DEF InPlay
<1> QED
  BY <1>3, <1>4 DEF Kept

(* Queues and jobs that did not change for a trainer. *)
LEMMA SamePlace ==
  ASSUME NEW q, NEW q2, NEW n, q2[n] = q[n], NEW k \in Nat, NEW m
  PROVE  Waiting(q2, n, k, m) <=> Waiting(q, n, k, m)
  BY DEF Waiting

LEMMA SameJob ==
  ASSUME NEW jobs, NEW jobs2, NEW n, jobs2[n] = jobs[n], NEW m
  PROVE  /\ Working(jobs2, n, m) <=> Working(jobs, n, m)
         /\ Behind(jobs2[n]) = Behind(jobs[n])
  BY DEF Working

LEMMA EndedJob ==
  ASSUME NEW jobs, NEW n, jobs[n] \in {Idle, Down}, NEW m
  PROVE  ~Working(jobs, n, m)
  BY DEF Working, Busy, Idle, Down

(* A command taken from the head of a queue. *)
LEMMA TakenPlace ==
  ASSUME NEW q, NEW q2, NEW n, q[n] \in Seq(Command), q[n] # <<>>, q2[n] = Tail(q[n]),
         NEW k \in Nat, NEW m, Waiting(q2, n, k, m)
  PROVE  Waiting(q, n, k + 1, m) /\ k # 0
<1>1. /\ Len(q[n]) \in Nat /\ Len(Tail(q[n])) = Len(q[n]) - 1
      /\ \A j \in 1..(Len(q[n]) - 1) : Tail(q[n])[j] = q[n][j + 1]
  OBVIOUS
<1>2. k \in 1..(Len(q[n]) - 1) /\ q2[n][k] = q[n][k + 1]
  BY <1>1 DEF Waiting
<1>3. k + 1 \in 1..Len(q[n]) /\ k # 0
  BY <1>1, <1>2
<1> QED
  BY <1>2, <1>3 DEF Waiting

(* A command put at the end of a queue. *)
LEMMA PutPlace ==
  ASSUME NEW q, NEW q2, NEW n, q[n] \in Seq(Command), NEW c \in Command,
         q2[n] = Append(q[n], c), NEW k \in Nat, NEW m, Waiting(q2, n, k, m)
  PROVE  \/ Waiting(q, n, k, m)
         \/ k = Len(q[n]) + 1 /\ c.cmd = "assign" /\ c.message = m
<1>1. /\ Len(q[n]) \in Nat /\ Len(Append(q[n], c)) = Len(q[n]) + 1
      /\ \A j \in 1..Len(q[n]) : Append(q[n], c)[j] = q[n][j]
      /\ Append(q[n], c)[Len(q[n]) + 1] = c
  OBVIOUS
<1>2. k \in 1..Len(q[n]) \/ k = Len(q[n]) + 1
  BY <1>1 DEF Waiting
<1> QED
  BY <1>1, <1>2 DEF Waiting

-----------------------------------------------------------------------------
(* Steps in which messages, at most, disappear. *)
LEMMA QuietApart ==
  ASSUME Apart, UNCHANGED <<submissions, trains>>, wire' \subseteq wire,
         NEW d \in [Trainers -> Nat],
         \A n \in Trainers : \A k \in Nat : \A m \in Message :
           Waiting(channel', n, k, m) => Waiting(channel, n, k + d[n], m),
         \A n \in Trainers : \A m \in Message : Working(job', n, m) =>
           Working(job, n, m) /\ Behind(job'[n]) = Behind(job[n])
  PROVE  Apart'
<1>1. /\ OnePlace(wire', channel', job')
      /\ Kept(wire, channel, job, wire', channel', job')
  BY NothingNew DEF Apart
<1> QED
  BY <1>1, MovedApart

(* The same, with the channels as they were. *)
LEMMA StillApart ==
  ASSUME Apart, UNCHANGED <<submissions, trains, channel>>, wire' \subseteq wire,
         \A n \in Trainers : \A m \in Message : Working(job', n, m) =>
           Working(job, n, m) /\ Behind(job'[n]) = Behind(job[n])
  PROVE  Apart'
<1> DEFINE d == [n \in Trainers |-> 0]
<1>1. d \in [Trainers -> Nat] /\ \A n \in Trainers : d[n] = 0
  OBVIOUS
<1> HIDE DEF d
<1>2. \A n \in Trainers : \A k \in Nat : \A m \in Message :
        Waiting(channel', n, k, m) => Waiting(channel, n, k + d[n], m)
  BY <1>1
<1> QED
  BY <1>1, <1>2, QuietApart

LEMMA UnchangedJobs ==
  ASSUME UNCHANGED job
  PROVE  \A n \in Trainers : \A m \in Message : Working(job', n, m) =>
           Working(job, n, m) /\ Behind(job'[n]) = Behind(job[n])
  OBVIOUS

LEMMA SameMessages ==
  ASSUME Apart, UNCHANGED <<wire, channel, job, submissions, trains>>
  PROVE  Apart'
  BY StillApart, UnchangedJobs

LEMMA LoseApart ==
  ASSUME Apart, NEW m \in wire, Lose(m)
  PROVE  Apart'
<1>1. /\ UNCHANGED <<submissions, trains, channel, job>> /\ wire' \subseteq wire
  BY DEF Lose, client, history
<1> QED
  BY <1>1, StillApart, UnchangedJobs

(* A job ends. *)
LEMMA EndApart ==
  ASSUME TypeOK, Apart, NEW n \in Trainers, PublishFails(n) \/ FinishAssign(n)
  PROVE  Apart'
<1>1. /\ UNCHANGED <<submissions, trains, channel, wire>>
      /\ job' = [job EXCEPT ![n] = Idle]
  BY DEF PublishFails, FinishAssign, OnFailure, client, history
<1>2. ASSUME NEW p \in Trainers, NEW m \in Message, Working(job', p, m)
      PROVE  Working(job, p, m) /\ Behind(job'[p]) = Behind(job[p])
  <2>1. CASE p = n
    <3>1. job'[p] \in {Idle, Down}
      BY <1>1, <2>1 DEF TypeOK
    <3> QED
      BY <1>2, <3>1, EndedJob
  <2>2. CASE p # n
    BY <1>1, <1>2, <2>2, SameJob DEF TypeOK
  <2> QED
    BY <2>1, <2>2
<1> QED
  BY <1>1, <1>2, StillApart

(* A step within a chunk: the job stands where it stood, and no more than  *)
(* a log enters the channel.                                               *)
LEMMA ChunkStepMoves ==
  ASSUME TypeOK, NEW n \in Trainers, ChunkStep(n), NEW p \in Trainers
  PROVE  /\ \A k \in Nat : \A m \in Message :
              Waiting(channel', p, k, m) => Waiting(channel, p, k, m)
         /\ \A m \in Message : Working(job', p, m) =>
              Working(job, p, m) /\ Behind(job'[p]) = Behind(job[p])
<1> DEFINE c == [cmd |-> "log"]
<1>1. UNCHANGED channel \/ channel' = [channel EXCEPT ![n] = Append(channel[n], c)]
  BY DEF ChunkStep, SendLog, TrainChunk, RaiseInChunk, LogException, Enqueue
<1>2. c \in Command /\ c.cmd # "assign"
  BY DEF Command
<1> HIDE DEF c
<1>3. ASSUME NEW k \in Nat, NEW m \in Message, Waiting(channel', p, k, m)
      PROVE  Waiting(channel, p, k, m)
  <2>1. CASE channel'[p] = channel[p]
    BY <1>3, <2>1, SamePlace
  <2>2. CASE channel'[p] = Append(channel[p], c)
    <3>1. channel[p] \in Seq(Command)
      BY DEF TypeOK
    <3> QED
      BY <1>2, <1>3, <2>2, <3>1, PutPlace
  <2> QED
    BY <1>1, <2>1, <2>2 DEF TypeOK
<1>4. PICK v : job' = [job EXCEPT ![n] = v] /\ GoesOn(job[n], v)
  BY ChunkStepGoesOn
<1>5. Busy(job[n])
  BY ChunkStepGoesOn
<1>6. ASSUME NEW m \in Message, Working(job', p, m)
      PROVE  Working(job, p, m) /\ Behind(job'[p]) = Behind(job[p])
  <2>1. CASE p = n
    <3>1. job'[p].message = job[p].message /\ job'[p].left = job[p].left
      BY <1>4, <2>1 DEF TypeOK, GoesOn
    <3> QED
      BY <1>5, <1>6, <2>1, <3>1 DEF Working, Behind
  <2>2. CASE p # n
    BY <1>4, <1>6, <2>2, SameJob DEF TypeOK
  <2> QED
    BY <2>1, <2>2
<1> QED
  BY <1>3, <1>6

LEMMA ChunkStepApart ==
  ASSUME TypeOK, Apart, NEW n \in Trainers, ChunkStep(n)
  PROVE  Apart'
<1>1. UNCHANGED <<submissions, trains, wire>>
  BY ChunkStepGoesOn DEF client, history
<1> DEFINE d == [p \in Trainers |-> 0]
<1>2. d \in [Trainers -> Nat] /\ \A p \in Trainers : d[p] = 0
  OBVIOUS
<1> HIDE DEF d
<1>3. ASSUME NEW p \in Trainers, NEW k \in Nat, NEW m \in Message,
             Waiting(channel', p, k, m)
      PROVE  Waiting(channel, p, k + d[p], m)
  <2>1. Waiting(channel, p, k, m) /\ k + d[p] = k
    BY <1>2, <1>3, ChunkStepMoves
  <2> QED
    BY <2>1
<1>4. \A p \in Trainers : \A m \in Message : Working(job', p, m) =>
        Working(job, p, m) /\ Behind(job'[p]) = Behind(job[p])
  BY ChunkStepMoves
<1> QED
  BY <1>1, <1>2, <1>3, <1>4, QuietApart

LEMMA CrashApart ==
  ASSUME TypeOK, Apart, NEW n \in Trainers, Crash(n)
  PROVE  Apart'
<1>1. /\ UNCHANGED <<submissions, trains, wire>>
      /\ job' = [job EXCEPT ![n] = Down] /\ channel' = [channel EXCEPT ![n] = <<>>]
  BY DEF Crash, client, history
<1>2. ASSUME NEW p \in Trainers, NEW m \in Message, Working(job', p, m)
      PROVE  Working(job, p, m) /\ Behind(job'[p]) = Behind(job[p])
  <2>1. CASE p = n
    <3>1. job'[p] \in {Idle, Down}
      BY <1>1, <2>1 DEF TypeOK
    <3> QED
      BY <1>2, <3>1, EndedJob
  <2>2. CASE p # n
    BY <1>1, <1>2, <2>2, SameJob DEF TypeOK
  <2> QED
    BY <2>1, <2>2
<1> DEFINE d == [p \in Trainers |-> 0]
<1>3. d \in [Trainers -> Nat] /\ \A p \in Trainers : d[p] = 0
  OBVIOUS
<1> HIDE DEF d
<1>4. ASSUME NEW p \in Trainers, NEW k \in Nat, NEW m \in Message,
             Waiting(channel', p, k, m)
      PROVE  Waiting(channel, p, k + d[p], m)
  <2>1. CASE p = n
    <3>1. channel'[p] = <<>>
      BY <1>1, <2>1 DEF TypeOK
    <3> QED
      BY <1>4, <3>1 DEF Waiting
  <2>2. CASE p # n
    <3>1. channel'[p] = channel[p]
      BY <1>1, <2>2 DEF TypeOK
    <3>2. Waiting(channel, p, k, m)
      BY <1>4, <3>1, SamePlace
    <3>3. k + d[p] = k
      BY <1>3
    <3> QED
      BY <3>2, <3>3
  <2> QED
    BY <2>1, <2>2
<1> QED
  BY <1>1, <1>2, <1>3, <1>4, QuietApart

(* A command that is not an assignment is entered. *)
LEMMA UserCommandApart ==
  ASSUME TypeOK, Apart, NEW n \in Trainers, UserCommand(n)
  PROVE  Apart'
<1>1. UNCHANGED <<submissions, trains, wire, job>>
  BY DEF UserCommand, client, history
<1>2. PICK c \in Command : Enqueue(n, c) /\ c.cmd # "assign"
  <2>1. CASE \E t \in Rounds : Enqueue(n, [cmd |-> "join", topic |-> t])
    <3>1. PICK t \in Rounds : Enqueue(n, [cmd |-> "join", topic |-> t])
      BY <2>1
    <3>2. [cmd |-> "join", topic |-> t] \in Command
      BY DEF Command
    <3> QED
      BY <3>1, <3>2
  <2>2. CASE \E t \in LeaveTopics : Enqueue(n, [cmd |-> "leave", topic |-> t])
    <3>1. PICK t \in LeaveTopics : Enqueue(n, [cmd |-> "leave", topic |-> t])
      BY <2>2
    <3>2. [cmd |-> "leave", topic |-> t] \in Command
      BY DEF Command
    <3> QED
      BY <3>1, <3>2
  <2> QED
    BY <2>1, <2>2 DEF UserCommand
<1>3. channel' = [channel EXCEPT ![n] = Append(channel[n], c)]
  BY <1>2 DEF Enqueue
<1> DEFINE d == [p \in Trainers |-> 0]
<1>4. d \in [Trainers -> Nat] /\ \A p \in Trainers : d[p] = 0
  OBVIOUS
<1> HIDE DEF d
<1>5. ASSUME NEW p \in Trainers, NEW k \in Nat, NEW m \in Message,
             Waiting(channel', p, k, m)
      PROVE  Waiting(channel, p, k + d[p], m)
  <2>1. CASE p = n
    <3>1. channel[p] \in Seq(Command) /\ channel'[p] = Append(channel[p], c)
      BY <1>3, <2>1 DEF TypeOK
    <3>2. Waiting(channel, p, k, m)
      BY <1>2, <1>5, <3>1, PutPlace
    <3> QED
      BY <1>4, <3>2
  <2>2. CASE p # n
    <3>1. channel'[p] = channel[p]
      BY <1>3, <2>2 DEF TypeOK
    <3>2. Waiting(channel, p, k, m)
      BY <1>5, <3>1, SamePlace
    <3>3. k + d[p] = k
      BY <1>4
    <3> QED
      BY <3>2, <3>3
  <2> QED
    BY <2>1, <2>2
<1>6. \A p \in Trainers : \A m \in Message : Working(job', p, m) =>
        Working(job, p, m) /\ Behind(job'[p]) = Behind(job[p])
  BY <1>1, UnchangedJobs
<1> QED
  BY <1>1, <1>4, <1>5, <1>6, QuietApart

(* A command that is not an assignment is executed. *)
LEMMA QuietCommandApart ==
  ASSUME TypeOK, Apart, NEW n \in Trainers, Join(n) \/ Leave(n) \/ ExecuteLog(n)
  PROVE  Apart'
<1>1. UNCHANGED <<submissions, trains, wire, job>>
  BY DEF Join, Leave, ExecuteLog, client, history
<1>2. /\ channel' = [channel EXCEPT ![n] = Tail(channel[n])] /\ channel[n] # <<>>
  BY DEF Join, Leave, ExecuteLog, NextCommand
<1> DEFINE d == [p \in Trainers |-> IF p = n THEN 1 ELSE 0]
<1>3. d \in [Trainers -> Nat] /\ d[n] = 1 /\ \A p \in Trainers : p # n => d[p] = 0
  OBVIOUS
<1> HIDE DEF d
<1>4. ASSUME NEW p \in Trainers, NEW k \in Nat, NEW m \in Message,
             Waiting(channel', p, k, m)
      PROVE  Waiting(channel, p, k + d[p], m)
  <2>1. CASE p = n
    <3>1. channel[p] \in Seq(Command) /\ channel'[p] = Tail(channel[p])
      BY <1>2, <2>1 DEF TypeOK
    <3>2. Waiting(channel, p, k + 1, m)
      BY <1>2, <1>4, <2>1, <3>1, TakenPlace
    <3> QED
      BY <1>3, <2>1, <3>2
  <2>2. CASE p # n
    <3>1. channel'[p] = channel[p]
      BY <1>2, <2>2 DEF TypeOK
    <3>2. Waiting(channel, p, k, m)
      BY <1>4, <3>1, SamePlace
    <3>3. k + d[p] = k
      BY <1>3, <2>2
    <3> QED
      BY <3>2, <3>3
  <2> QED
    BY <2>1, <2>2
<1>5. \A p \in Trainers : \A m \in Message : Working(job', p, m) =>
        Working(job, p, m) /\ Behind(job'[p]) = Behind(job[p])
  BY <1>1, UnchangedJobs
<1> QED
  BY <1>1, <1>3, <1>4, <1>5, QuietApart

(* A message goes from the network to the channel of its trainer, or the   *)
(* trainer is no longer there to read it.                                  *)
LEMMA ReceiveApart ==
  ASSUME TypeOK, Apart, NEW m0 \in wire, Receive(m0)
  PROVE  Apart'
<1>1. /\ UNCHANGED <<submissions, trains, job>> /\ wire' = wire \ {m0}
      /\ m0 \in Message /\ m0.to \in Trainers
  BY DEF Receive, client, history, TypeOK, Message
<1>2. CASE UNCHANGED channel
  BY <1>1, <1>2, StillApart, UnchangedJobs
<1>3. CASE Enqueue(m0.to, [cmd |-> "assign", message |-> m0])
  <2> DEFINE n == m0.to
             c == [cmd |-> "assign", message |-> m0]
             L == Len(channel[n])
  <2>1. /\ channel' = [channel EXCEPT ![n] = Append(channel[n], c)]
        /\ c \in Command /\ c.message = m0 /\ n \in Trainers
        /\ channel[n] \in Seq(Command)
    BY <1>1, <1>3 DEF Enqueue, Command, TypeOK
  <2>2. /\ \A k \in Nat : ~Waiting(channel, n, k, m0)
        /\ \A p \in Trainers : \A k \in Nat : ~Waiting(channel, p, k, m0)
        /\ \A p \in Trainers : ~Working(job, p, m0)
    BY <1>1, <2>1 DEF Apart, OnePlace
  <2> HIDE DEF n, c, L
  <2>3. ASSUME NEW p \in Trainers, NEW k \in Nat, NEW m \in Message,
               Waiting(channel', p, k, m)
        PROVE  \/ Waiting(channel, p, k, m) /\ m # m0
               \/ p = n /\ k = L + 1 /\ m = m0
    <3>1. CASE p = n
      <4>1. channel[p] \in Seq(Command) /\ channel'[p] = Append(channel[p], c)
        BY <2>1, <3>1 DEF TypeOK
      <4>2. c \in Command
        BY <2>1
      <4>3. \/ Waiting(channel, p, k, m)
            \/ k = Len(channel[p]) + 1 /\ c.cmd = "assign" /\ c.message = m
        BY <2>3, <4>1, <4>2, PutPlace
      <4>4. Waiting(channel, p, k, m) => m # m0
        BY <2>2
      <4>5. Len(channel[p]) = L
        BY <3>1 DEF L
      <4> QED
        BY <2>1, <3>1, <4>3, <4>4, <4>5
    <3>2. CASE p # n
      <4>1. channel'[p] = channel[p]
        BY <2>1, <3>2 DEF TypeOK
      <4>2. Waiting(channel, p, k, m)
        BY <2>3, <4>1, SamePlace
      <4> QED
        BY <2>2, <4>2
    <3> QED
      BY <3>1, <3>2
  <2>4. OnePlace(wire', channel', job')
    <3>1. ASSUME NEW m \in Message, NEW p \in Trainers, NEW k \in Nat,
                 Waiting(channel', p, k, m)
          PROVE  /\ m.to = p /\ m \notin wire' /\ ~Working(job', p, m)
                 /\ \A j \in Nat : Waiting(channel', p, j, m) => j = k
      <4>1. CASE Waiting(channel, p, k, m) /\ m # m0
        <5>1. /\ m.to = p /\ m \notin wire /\ ~Working(job, p, m)
              /\ \A j \in Nat : Waiting(channel, p, j, m) => j = k
          BY <4>1 DEF Apart, OnePlace
        <5> QED
          BY <1>1, <2>3, <4>1, <5>1
      <4>2. CASE p = n /\ k = L + 1 /\ m = m0
        <5>1. \A j \in Nat : Waiting(channel', p, j, m) => j = k
          BY <2>3, <4>2
        <5>2. m.to = p
          BY <4>2 DEF n
        <5> QED
          BY <1>1, <2>2, <4>2, <5>1, <5>2
      <4> QED
        BY <2>3, <3>1, <4>1, <4>2
    <3>2. ASSUME NEW m \in Message, NEW p \in Trainers, Working(job', p, m)
          PROVE  m.to = p /\ m \notin wire'
      BY <1>1, <3>2 DEF Apart, OnePlace
    <3> QED
      BY <3>1, <3>2 DEF OnePlace
  <2>5. Kept(wire, channel, job, wire', channel', job')
    <3>1. ASSUME NEW m \in Message, InPlay(wire', channel', job', m)
          PROVE  InPlay(wire, channel, job, m)
      <4>1. CASE m \in wire'
        BY <1>1, <4>1 DEF InPlay
      <4>2. CASE \E p \in Trainers : \E k \in Nat : Waiting(channel', p, k, m)
        BY <1>1, <2>3, <4>2 DEF InPlay
      <4>3. CASE \E p \in Trainers : Working(job', p, m)
        BY <1>1, <4>3 DEF InPlay
      <4> QED
        BY <3>1, <4>1, <4>2, <4>3 DEF InPlay
    <3> QED
      BY <1>1, <3>1 DEF Kept
  <2> QED
    BY <1>1, <2>4, <2>5, MovedApart
<1> QED
  BY <1>2, <1>3 DEF Receive

(* A message goes from the channel to the job. *)
LEMMA StartAssignApart ==
  ASSUME TypeOK, Apart, NEW n \in Trainers, StartAssign(n)
  PROVE  Apart'
<1> DEFINE m0 == Head(channel[n]).message
<1>1. /\ UNCHANGED <<submissions, trains, wire>>
      /\ job[n] \in {Idle, Down} /\ job' = [job EXCEPT ![n] = Work(m0, m0.share)]
      /\ channel' = [channel EXCEPT ![n] = Tail(channel[n])] /\ channel[n] # <<>>
  BY DEF StartAssign, NextCommand, client, history
<1>2. m0 \in Message
  BY HeadOfChannel DEF StartAssign, NextCommand
<1>3. channel[n] \in Seq(Command)
  BY DEF TypeOK
<1>4. Waiting(channel, n, 1, m0)
  <2>1. 1 \in 1..Len(channel[n]) /\ channel[n][1] = Head(channel[n])
    BY <1>1, <1>3
  <2>2. Head(channel[n]).cmd = "assign"
    BY DEF StartAssign, NextCommand
  <2> QED
    BY <2>1, <2>2 DEF Waiting
<1>5. /\ Working(job', n, m0) /\ \A m \in Message : Working(job', n, m) => m = m0
      /\ \A m \in Message : ~Working(job, n, m)
  <2>1. job'[n] = Work(m0, m0.share)
    BY <1>1 DEF TypeOK
  <2>2. job'[n].state = "train" /\ job'[n].message = m0
    BY <2>1 DEF Work
  <2>3. \A m \in Message : ~Working(job, n, m)
    BY <1>1, EndedJob
  <2> HIDE DEF m0
  <2>4. Working(job', n, m0) /\ \A m \in Message : Working(job', n, m) => m = m0
    BY <2>2 DEF Working, Busy
  <2> QED
    BY <2>3, <2>4
<1>6. /\ m0.to = n /\ m0 \notin wire
      /\ \A k \in Nat : Waiting(channel, n, k, m0) => k = 1
      /\ \A p \in Trainers : \A k \in Nat : Waiting(channel, p, k, m0) => p = n
      /\ \A p \in Trainers : ~Working(job, p, m0)
  BY <1>2, <1>4, <1>5 DEF Apart, OnePlace
<1> HIDE DEF m0
<1>7. ASSUME NEW p \in Trainers, NEW k \in Nat, NEW m \in Message,
             Waiting(channel', p, k, m)
      PROVE  /\ m # m0
             /\ p = n => Waiting(channel, p, k + 1, m)
             /\ p # n => Waiting(channel, p, k, m)
  <2>1. CASE p = n
    <3>1. channel[p] \in Seq(Command) /\ channel'[p] = Tail(channel[p])
      BY <1>1, <2>1 DEF TypeOK
    <3>2. Waiting(channel, p, k + 1, m) /\ k # 0
      BY <1>1, <1>7, <2>1, <3>1, TakenPlace
    <3>3. k + 1 \in Nat /\ k + 1 # 1
      BY <3>2
    <3> QED
      BY <1>6, <2>1, <3>2, <3>3
  <2>2. CASE p # n
    <3>1. channel'[p] = channel[p]
      BY <1>1, <2>2 DEF TypeOK
    <3>2. Waiting(channel, p, k, m)
      BY <1>7, <3>1, SamePlace
    <3> QED
      BY <1>6, <2>2, <3>2
  <2> QED
    BY <2>1, <2>2
<1>8. ASSUME NEW p \in Trainers, p # n, NEW m \in Message
      PROVE  /\ Working(job', p, m) <=> Working(job, p, m)
             /\ Behind(job'[p]) = Behind(job[p])
  BY <1>1, <1>8, SameJob DEF TypeOK
<1>9. OnePlace(wire', channel', job')
  <2>1. ASSUME NEW m \in Message, NEW p \in Trainers, NEW k \in Nat,
               Waiting(channel', p, k, m)
        PROVE  /\ m.to = p /\ m \notin wire' /\ ~Working(job', p, m)
               /\ \A j \in Nat : Waiting(channel', p, j, m) => j = k
    <3>1. CASE p = n
      <4>1. k + 1 \in Nat /\ Waiting(channel, p, k + 1, m) /\ m # m0
        BY <1>7, <2>1, <3>1
      <4>2. /\ m.to = p /\ m \notin wire
            /\ \A j \in Nat : Waiting(channel, p, j, m) => j = k + 1
        BY <4>1 DEF Apart, OnePlace
      <4>3. ASSUME NEW j \in Nat, Waiting(channel', p, j, m) PROVE j = k
        <5>1. j + 1 \in Nat /\ Waiting(channel, p, j + 1, m)
          BY <1>7, <3>1, <4>3
        <5>2. j + 1 = k + 1
          BY <4>2, <5>1
        <5> QED
          BY <5>2
      <4> QED
        BY <1>1, <1>5, <3>1, <4>1, <4>2, <4>3
    <3>2. CASE p # n
      <4>1. Waiting(channel, p, k, m)
        BY <1>7, <2>1, <3>2
      <4>2. /\ m.to = p /\ m \notin wire /\ ~Working(job, p, m)
            /\ \A j \in Nat : Waiting(channel, p, j, m) => j = k
        BY <4>1 DEF Apart, OnePlace
      <4> QED
        BY <1>1, <1>7, <1>8, <3>2, <4>2
    <3> QED
      BY <3>1, <3>2
  <2>2. ASSUME NEW m \in Message, NEW p \in Trainers, Working(job', p, m)
        PROVE  m.to = p /\ m \notin wire'
    <3>1. CASE p = n
      BY <1>1, <1>5, <1>6, <2>2, <3>1
    <3>2. CASE p # n
      BY <1>1, <1>8, <2>2, <3>2 DEF Apart, OnePlace
    <3> QED
      BY <3>1, <3>2
  <2> QED
    BY <2>1, <2>2 DEF OnePlace
<1>10. Kept(wire, channel, job, wire', channel', job')
  <2>1. ASSUME NEW m \in Message, InPlay(wire', channel', job', m)
        PROVE  InPlay(wire, channel, job, m)
    <3>1. CASE m \in wire'
      BY <1>1, <3>1 DEF InPlay
    <3>2. CASE \E p \in Trainers : \E k \in Nat : Waiting(channel', p, k, m)
      <4>1. PICK p \in Trainers : \E k \in Nat : Waiting(channel', p, k, m)
        BY <3>2
      <4>2. PICK k \in Nat : Waiting(channel', p, k, m)
        BY <4>1
      <4>3. k + 1 \in Nat /\ (Waiting(channel, p, k + 1, m) \/ Waiting(channel, p, k, m))
        BY <1>7, <4>2
      <4> QED
        BY <4>3 DEF InPlay
    <3>3. CASE \E p \in Trainers : Working(job', p, m)
      <4>1. PICK p \in Trainers : Working(job', p, m)
        BY <3>3
      <4>2. CASE p = n
        BY <1>4, <1>5, <4>1, <4>2 DEF InPlay
      <4>3. CASE p # n
        BY <1>8, <4>1, <4>3 DEF InPlay
      <4> QED
        BY <4>2, <4>3
    <3> QED
      BY <2>1, <3>1, <3>2, <3>3 DEF InPlay
  <2>2. ASSUME NEW m \in Message, Working(job, m.to, m)
        PROVE  Working(job', m.to, m) /\ Behind(job'[m.to]) = Behind(job[m.to])
    <3>1. m.to \in Trainers /\ m.to # n
      BY <1>5, <2>2 DEF Message
    <3> QED
      BY <1>8, <2>2, <3>1
  <2> QED
    BY <2>1, <2>2 DEF Kept
<1> QED
  BY <1>1, <1>9, <1>10, MovedApart

(* The chunk that is submitted is behind its trainer from then on: it was  *)
(* not submitted before, and no other message of the round has it.         *)
LEMMA PublishApart ==
  ASSUME TypeOK, WorkedOff, Apart, NEW n \in Trainers, PublishWeights(n)
  PROVE  Apart'
<1> DEFINE w == job[n]
           m0 == w.message
           i0 == Behind(w) + 1
           s0 == ClaimMade(n)
<1>1. /\ UNCHANGED <<trains, wire, channel>> /\ submissions' = submissions \cup {s0}
  BY DEF PublishWeights, Claimed, ClaimMade, client
<1>2. PICK v \in {Idle, Proceed(w)} : job' = [job EXCEPT ![n] = v]
  BY DEF PublishWeights, OnFailure
<1>3. /\ w.state = "publish" /\ m0 \in Message /\ w.left \in Seq(Chunks)
      /\ w.left # <<>> /\ w.message.share \in Seq(Chunks)
  BY JobTypes DEF PublishWeights, Message
<1>4. WorkedOffIn(submissions, n, w) /\ Behind(w) \in Nat
  BY <1>3 DEF WorkedOff, WorkedOffIn, Busy
<1>5. /\ s0.round = m0.round /\ s0.by = n /\ s0.train = m0.train
      /\ s0.chunk = Head(w.left)
  BY DEF ClaimMade
<1>6. job'[n] = v /\ \A p \in Trainers : p # n => job'[p] = job[p]
  BY <1>2 DEF TypeOK
<1>7. Working(job, n, m0)
  BY <1>3 DEF Working, Busy
<1>8. Proceed(w).message = m0
  BY DEF Proceed, Work
<1> HIDE DEF s0
<1>9. /\ s0.chunk = m0.share[i0] /\ i0 \in 1..Len(m0.share) /\ Behind(Proceed(w)) = i0
  <2>1. /\ w.left \in Seq(Chunks) /\ w.left # <<>> /\ w.message.share \in Seq(Chunks)
        /\ w.state = "publish" /\ WorkedOffIn(submissions, n, w)
        /\ s0.by = n /\ s0.train = w.message.train /\ s0.round = w.message.round
        /\ s0.chunk = Head(w.left)
    BY <1>3, <1>4, <1>5
  <2> HIDE DEF w
  <2>2. NextOfShare(w, s0)
    BY <2>1, CountedOneMore
  <2> QED
    BY <2>2 DEF NextOfShare
<1>10. Behind(job[n]) = i0 - 1 /\ i0 \in Nat
  BY <1>4
<1> HIDE DEF m0, i0, w
<1>11. ASSUME NEW p \in Trainers, NEW m \in Message, Working(job', p, m)
       PROVE  Working(job, p, m)
  <2>1. CASE p = n
    <3>1. CASE v = Idle
      BY <1>6, <1>11, <2>1, <3>1, EndedJob
    <3>2. CASE v = Proceed(w)
      <4>1. m = m0
        BY <1>6, <1>8, <1>11, <2>1, <3>2 DEF Working
      <4> QED
        BY <1>7, <2>1, <4>1
    <3> QED
      BY <3>1, <3>2
  <2>2. CASE p # n
    BY <1>6, <1>11, <2>2, SameJob
  <2> QED
    BY <2>1, <2>2
<1>12. /\ m0.to = n /\ m0 \notin wire
       /\ \A p \in Trainers : \A k \in Nat : ~Waiting(channel, p, k, m0)
       /\ \A m \in Message : Working(job, n, m) => m = m0
       /\ \A p \in Trainers : Working(job, p, m0) => p = n
       /\ InPlay(wire, channel, job, m0)
  <2>1. m0.to = n /\ m0 \notin wire
    BY <1>3, <1>7 DEF Apart, OnePlace
  <2>2. \A p \in Trainers : \A k \in Nat : ~Waiting(channel, p, k, m0)
    BY <1>3, <1>7, <2>1 DEF Apart, OnePlace
  <2>3. \A m \in Message : Working(job, n, m) => m = m0
    BY <1>7 DEF Working
  <2>4. \A p \in Trainers : Working(job, p, m0) => p = n
    BY <1>3, <2>1 DEF Apart, OnePlace
  <2>5. InPlay(wire, channel, job, m0)
    BY <1>7 DEF InPlay
  <2> QED
    BY <2>1, <2>2, <2>3, <2>4, <2>5
<1>13. OnePlace(wire', channel', job')
  BY <1>1, <1>11 DEF Apart, OnePlace
<1>14. ASSUME NEW m \in Message, InPlay(wire', channel', job', m)
       PROVE  InPlay(wire, channel, job, m)
  BY <1>1, <1>11, <1>14 DEF InPlay
<1>15. Disjoint(wire', channel', job')
  BY <1>14 DEF Apart, Disjoint
<1>16. ASSUME InPlay(wire', channel', job', m0)
       PROVE  Working(job', n, m0) /\ Behind(job'[n]) = i0
  <2>1. PICK p \in Trainers : Working(job', p, m0)
    BY <1>1, <1>12, <1>16 DEF InPlay
  <2>2. Working(job', n, m0)
    BY <1>3, <1>11, <1>12, <2>1
  <2>3. v # Idle
    BY <1>6, <2>2, EndedJob
  <2> QED
    BY <1>6, <1>9, <2>2, <2>3
<1>17. Unclaimed(wire', channel', job', submissions')
  <2>1. ASSUME NEW m \in Message, InPlay(wire', channel', job', m),
               NEW s \in submissions', NEW i \in Nat, ClaimOf(s, m, i)
        PROVE  Working(job', m.to, m) /\ i <= Behind(job'[m.to])
    <3>1. m.to \in Trainers /\ InPlay(wire, channel, job, m)
      BY <1>14, <2>1 DEF Message
    <3>2. CASE s \in submissions
      <4>1. Working(job, m.to, m) /\ i <= Behind(job[m.to])
        BY <2>1, <3>1, <3>2 DEF Apart, Unclaimed
      <4>2. CASE m.to = n
        <5>1. m = m0
          BY <1>12, <4>1, <4>2
        <5>2. Working(job', n, m0) /\ Behind(job'[n]) = i0
          BY <1>16, <2>1, <5>1
        <5>3. i <= i0
          BY <1>10, <4>1, <4>2
        <5> QED
          BY <4>2, <5>1, <5>2, <5>3
      <4>3. CASE m.to # n
        <5>1. job'[m.to] = job[m.to]
          BY <1>6, <3>1, <4>3
        <5> QED
          BY <4>1, <5>1, SameJob
      <4> QED
        BY <4>2, <4>3
    <3>3. CASE s = s0
      <4>1. SameChunk(m, i, m0, i0)
        BY <1>5, <1>9, <2>1, <3>3 DEF SameChunk, ClaimOf
      <4>2. m = m0 /\ i = i0
        BY <1>3, <1>10, <1>12, <3>1, <4>1 DEF Apart, Disjoint
      <4>3. Working(job', n, m0) /\ Behind(job'[n]) = i0
        BY <1>16, <2>1, <4>2
      <4> QED
        BY <1>10, <1>12, <4>2, <4>3
    <3> QED
      BY <1>1, <3>2, <3>3
  <2> QED
    BY <2>1 DEF Unclaimed
<1>18. Commanded(wire', channel', job', submissions', trains')
  <2>1. ASSUME NEW t \in Rounds, s0.round = t PROVE s0.train <= trains[t]
    BY <1>3, <1>5, <1>12, <2>1 DEF Apart, Commanded
  <2> QED
    BY <1>1, <1>14, <2>1 DEF Apart, Commanded
<1>19. ChunkRewardedOnce'
  <2>1. ASSUME NEW s \in submissions,
               s.round = s0.round, s.train = s0.train, s.chunk = s0.chunk
        PROVE  FALSE
    <3>1. ClaimOf(s, m0, i0)
      BY <1>5, <1>9, <2>1 DEF ClaimOf
    <3>2. i0 <= Behind(job[n])
      BY <1>3, <1>10, <1>12, <3>1 DEF Apart, Unclaimed
    <3> QED
      BY <1>10, <3>2
  <2> QED
    BY <1>1, <2>1 DEF Apart, ChunkRewardedOnce
<1> QED
  BY <1>13, <1>15, <1>17, <1>18, <1>19 DEF Apart

-----------------------------------------------------------------------------
(* The messages of a train command are disjoint, and new. *)
LEMMA TrainApart ==
  ASSUME TypeOK, Apart, NEW t \in Rounds, Train(t)
  PROVE  Apart'
<1> USE RoundAssumption
<1> DEFINE new == wire' \ wire
<1>1. /\ trains' = [trains EXCEPT ![t] = trains[t] + 1] /\ trains[t] \in Nat
      /\ UNCHANGED <<channel, job, submissions>>
  BY DEF Train, history, TypeOK
<1>2. PICK nodes \in SetToSeqs(roster[t]) :
        wire' = wire \cup
          {[to |-> nodes[k], round |-> t, train |-> trains[t] + 1,
            share |-> ShareOf(k, Len(nodes))]
             : k \in {j \in 1..Len(nodes) : t \in subscribed[nodes[j]]}}
  BY DEF Train
<1>3. ASSUME NEW m \in new
      PROVE  /\ m.round = t /\ m.train = trains[t] + 1
             /\ \E k \in 1..Len(nodes) : m = [to |-> nodes[k], round |-> t,
                  train |-> trains[t] + 1, share |-> ShareOf(k, Len(nodes))]
  BY <1>2
<1>4. wire' = wire \cup new
  BY <1>2
<1>5. Len(nodes) \in Nat
  <2>1. IsFiniteSet(roster[t])
    BY FS_Subset DEF TypeOK
  <2>2. Cardinality(roster[t]) \in Nat
    BY <2>1, FS_CardinalityType
  <2>3. nodes \in [1..Cardinality(roster[t]) -> roster[t]]
    BY DEF SetToSeqs
  <2> QED
    BY <2>2, <2>3
<1> HIDE DEF new
<1>6. ASSUME NEW m \in Message, InPlay(wire, channel, job, m)
      PROVE  m \notin new /\ (m.round = t => m.train # trains[t] + 1)
  <2>1. m.train \in Nat /\ (m.round = t => m.train <= trains[t])
    BY <1>6 DEF Apart, Commanded, Message
  <2> QED
    BY <1>1, <1>3, <2>1
<1>7. ASSUME NEW m \in Message, InPlay(wire', channel', job', m)
      PROVE  m \in new \/ InPlay(wire, channel, job, m)
  BY <1>1, <1>4, <1>7 DEF InPlay
<1>8. ASSUME NEW m \in new, NEW l \in new, NEW i \in Nat, NEW j \in Nat,
             SameChunk(m, i, l, j)
      PROVE  m = l /\ i = j
  <2>1. PICK k \in 1..Len(nodes) : m = [to |-> nodes[k], round |-> t,
          train |-> trains[t] + 1, share |-> ShareOf(k, Len(nodes))]
    BY <1>3
  <2>2. PICK x \in 1..Len(nodes) : l = [to |-> nodes[x], round |-> t,
          train |-> trains[t] + 1, share |-> ShareOf(x, Len(nodes))]
    BY <1>3
  <2>3. /\ m.share = Share(k, Len(nodes), NumChunks)
        /\ l.share = Share(x, Len(nodes), NumChunks)
    BY <2>1, <2>2 DEF ShareOf
  <2>4. Len(nodes) > 0 /\ NumChunks \in Nat
    BY <1>5, <2>1
  <2>5. Overlap(k, i, x, j, Len(nodes), NumChunks)
    BY <1>8, <2>3 DEF SameChunk, Overlap
  <2>6. k = x /\ i = j
    BY <1>5, <2>4, <2>5, SharesApart
  <2> QED
    BY <2>1, <2>2, <2>6
<1>9. OnePlace(wire', channel', job')
  <2>1. ASSUME NEW m \in Message, NEW p \in Trainers, NEW k \in Nat,
               Waiting(channel', p, k, m)
        PROVE  /\ m.to = p /\ m \notin wire' /\ ~Working(job', p, m)
               /\ \A j \in Nat : Waiting(channel', p, j, m) => j = k
    <3>1. InPlay(wire, channel, job, m)
      BY <1>1, <2>1 DEF InPlay
    <3>2. m \notin new
      BY <1>6, <3>1
    <3> QED
      BY <1>1, <1>4, <2>1, <3>2 DEF Apart, OnePlace
  <2>2. ASSUME NEW m \in Message, NEW p \in Trainers, Working(job', p, m)
        PROVE  m.to = p /\ m \notin wire'
    <3>1. InPlay(wire, channel, job, m)
      BY <1>1, <2>2 DEF InPlay
    <3>2. m \notin new
      BY <1>6, <3>1
    <3> QED
      BY <1>1, <1>4, <2>2, <3>2 DEF Apart, OnePlace
  <2> QED
    BY <2>1, <2>2 DEF OnePlace
<1>10. Disjoint(wire', channel', job')
  <2>1. ASSUME NEW m \in Message, NEW l \in Message, NEW i \in Nat, NEW j \in Nat,
               InPlay(wire', channel', job', m), InPlay(wire', channel', job', l),
               SameChunk(m, i, l, j)
        PROVE  m = l /\ i = j
    <3>1. m.round = l.round /\ m.train = l.train
      BY <2>1 DEF SameChunk
    <3>2. CASE m \in new /\ l \in new
      BY <1>8, <2>1, <3>2
    <3>3. CASE m \notin new /\ l \notin new
      BY <1>7, <2>1, <3>3 DEF Apart, Disjoint
    <3>4. CASE m \in new /\ l \notin new
      BY <1>3, <1>6, <1>7, <2>1, <3>1, <3>4
    <3>5. CASE m \notin new /\ l \in new
      BY <1>3, <1>6, <1>7, <2>1, <3>1, <3>5
    <3> QED
      BY <3>2, <3>3, <3>4, <3>5
  <2> QED
    BY <2>1 DEF Disjoint
<1>11. Unclaimed(wire', channel', job', submissions')
  <2>1. ASSUME NEW m \in Message, InPlay(wire', channel', job', m),
               NEW s \in submissions, NEW i \in Nat, ClaimOf(s, m, i)
        PROVE  Working(job, m.to, m) /\ i <= Behind(job[m.to])
    <3>1. s.round = t => s.train <= trains[t]
      BY DEF Apart, Commanded
    <3>2. s.train \in Nat
      BY DEF TypeOK
    <3>3. ASSUME m \in new PROVE FALSE
      <4>1. s.round = t /\ s.train = trains[t] + 1
        BY <1>3, <2>1, <3>3 DEF ClaimOf
      <4> QED
        BY <1>1, <3>1, <3>2, <4>1
    <3>4. InPlay(wire, channel, job, m)
      BY <1>7, <2>1, <3>3
    <3> QED
      BY <2>1, <3>4 DEF Apart, Unclaimed
  <2> QED
    BY <1>1, <2>1 DEF Unclaimed
<1>12. Commanded(wire', channel', job', submissions', trains')
  <2>1. ASSUME NEW u \in Rounds
        PROVE  trains[u] \in Nat /\ trains'[u] \in Nat /\ trains[u] <= trains'[u]
    BY <1>1 DEF TypeOK
  <2>2. trains'[t] = trains[t] + 1
    BY <1>1 DEF TypeOK
  <2>3. ASSUME NEW u \in Rounds, NEW m \in Message, InPlay(wire', channel', job', m),
               m.round = u
        PROVE  m.train <= trains'[u]
    <3>1. CASE m \in new
      BY <1>1, <1>3, <2>2, <2>3, <3>1
    <3>2. CASE InPlay(wire, channel, job, m)
      <4>1. m.train <= trains[u] /\ m.train \in Nat
        BY <2>3, <3>2 DEF Apart, Commanded, Message
      <4> QED
        BY <2>1, <4>1
    <3> QED
      BY <1>7, <2>3, <3>1, <3>2
  <2>4. ASSUME NEW u \in Rounds, NEW s \in submissions, s.round = u
        PROVE  s.train <= trains'[u]
    <3>1. s.train <= trains[u]
      BY <2>4 DEF Apart, Commanded
    <3>2. s.train \in 1..MaxTrains /\ MaxTrains \in Nat
      BY DEF TypeOK
    <3> QED
      BY <2>1, <3>1, <3>2
  <2> QED
    BY <1>1, <2>3, <2>4 DEF Commanded
<1>13. ChunkRewardedOnce'
  BY <1>1 DEF Apart, ChunkRewardedOnce
<1> QED
  BY <1>9, <1>10, <1>11, <1>12, <1>13 DEF Apart

LEMMA InitApart == Init => Apart
<1> SUFFICES ASSUME Init PROVE Apart
  OBVIOUS
<1>1. \A m \in Message : ~InPlay(wire, channel, job, m)
  <2>1. ASSUME NEW m \in Message, NEW n \in Trainers, NEW k \in Nat
        PROVE  ~Waiting(channel, n, k, m)
    BY DEF Init, Waiting
  <2>2. ASSUME NEW m \in Message, NEW n \in Trainers
        PROVE  ~Working(job, n, m)
    BY EndedJob DEF Init
  <2> QED
    BY <2>1, <2>2 DEF InPlay, Init
<1>2. OnePlace(wire, channel, job)
  BY <1>1 DEF OnePlace, InPlay
<1>3. submissions = {}
  BY DEF Init
<1> QED
  BY <1>1, <1>2, <1>3 DEF Apart, Disjoint, Unclaimed, Commanded, ChunkRewardedOnce

LEMMA NextApart ==
  ASSUME TypeOK, WorkedOff, Apart, [Next]_vars
  PROVE  Apart'
<1> USE DEF contract, client, history
<1>1. ASSUME NEW t \in Rounds, OpenTask(t) \/ CancelTask(t) \/ MeshSummary(t)
      PROVE  Apart'
  BY <1>1, SameMessages DEF OpenTask, CancelTask, MeshSummary
<1>2. ASSUME NEW n \in Trainers, Execute(n)
      PROVE  Apart'
  BY <1>2, QuietCommandApart, StartAssignApart, ChunkStepApart, PublishApart, EndApart
     DEF Execute, ChunkStep
<1>3. CASE UNCHANGED vars
  BY <1>3, SameMessages DEF vars
<1> QED
  BY <1>1, <1>2, <1>3, TrainApart, LoseApart, ReceiveApart, UserCommandApart, CrashApart
     DEF Next

LEMMA ApartHolds == Spec => []Apart
<1>1. TypeOK /\ WorkedOff /\ Apart /\ [Next]_vars => Apart'
  BY NextApart
<1> QED
  BY <1>1, InitApart, TypeCorrect, WorkedOffHolds, PTL DEF Spec

(* No train command has a chunk rewarded twice (the contract itself would  *)
(* pay it again, fed-learn.sol:142-179), however many commands, trainers   *)
(* and chunks there are, and whatever is lost, fails or is executed        *)
(* without an answer: submissions are numbered, so a claim made twice      *)
(* would be two.                                                           *)
THEOREM NoChunkRewardedTwice == Spec => []ChunkRewardedOnce
<1>1. Apart => ChunkRewardedOnce
  BY DEF Apart
<1> QED
  BY <1>1, ApartHolds, PTL
-----------------------------------------------------------------------------
(* The task a trainer claims from is the topic it joined last              *)
(* (coordinator.py:418), not the round of the assignment.  While nobody    *)
(* enters leave the two agree: a trainer joins one round at most, it is    *)
(* sent assignments of that round only, and it keeps that topic for good.  *)
HasMessage(q, jobs, n, m) ==
  (\E k \in Nat : Waiting(q, n, k, m)) \/ Working(jobs, n, m)

OfItsRound(w, q, jobs, topic) ==
  /\ \A m \in w : m.round = topic[m.to]
  /\ \A n \in Trainers : \A m \in Message :
       HasMessage(q, jobs, n, m) => m.to = n /\ m.round = topic[n]

AssignedInRound == OfItsRound(wire, channel, job, trainingTopic)

(* The round whose task a trainer claims from is that of its assignment. *)
ClaimsOwnRound ==
  \A n \in Trainers :
    job[n].state = "publish" /\ LastTopic(n) \in Rounds
      => LastTopic(n) = job[n].message.round

(* No step of a trainer brings it a message it did not have. *)
LEMMA ExecuteBringsNone ==
  ASSUME TypeOK, NEW n \in Trainers, Execute(n), NEW m \in Message,
         HasMessage(channel', job', n, m)
  PROVE  HasMessage(channel, job, n, m)
<1>1. channel[n] \in Seq(Command)
  BY DEF TypeOK
<1>2. ASSUME NEW name, NextCommand(n, name), NEW k \in Nat, Waiting(channel', n, k, m)
      PROVE  HasMessage(channel, job, n, m)
  <2>1. channel[n] # <<>> /\ channel'[n] = Tail(channel[n])
    BY <1>2 DEF NextCommand, TypeOK
  <2>2. Waiting(channel, n, k + 1, m)
    BY <1>1, <1>2, <2>1, TakenPlace
  <2> QED
    BY <2>2 DEF HasMessage
<1>3. CASE Join(n) \/ Leave(n) \/ ExecuteLog(n)
  <2>1. job' = job /\ \E name : NextCommand(n, name)
    BY <1>3 DEF Join, Leave, ExecuteLog
  <2> QED
    BY <1>2, <2>1 DEF HasMessage
<1>4. CASE StartAssign(n)
  <2>1. /\ channel[n] # <<>> /\ Head(channel[n]).cmd = "assign"
        /\ job'[n] = Work(Head(channel[n]).message, Head(channel[n]).message.share)
    BY <1>4 DEF StartAssign, NextCommand, TypeOK
  <2>2. CASE Working(job', n, m)
    <3>1. m = Head(channel[n]).message
      BY <2>1, <2>2 DEF Working, Work
    <3>2. 1 \in 1..Len(channel[n]) /\ channel[n][1] = Head(channel[n])
      BY <1>1, <2>1
    <3>3. Waiting(channel, n, 1, m)
      BY <2>1, <3>1, <3>2 DEF Waiting
    <3> QED
      BY <3>3 DEF HasMessage
  <2>3. CASE ~Working(job', n, m)
    BY <1>2, <1>4, <2>3 DEF StartAssign, HasMessage
  <2> QED
    BY <2>2, <2>3
<1>5. CASE PublishWeights(n) \/ PublishFails(n) \/ FinishAssign(n)
  <2>1. channel' = channel
    BY <1>5 DEF PublishWeights, PublishFails, FinishAssign
  <2>2. Busy(job[n])
    BY <1>5 DEF PublishWeights, PublishFails, FinishAssign, Busy
  <2>3. job'[n] = Idle \/ job'[n].message = job[n].message
    BY <1>5 DEF PublishWeights, PublishFails, FinishAssign, OnFailure,
                Proceed, Work, TypeOK
  <2>4. Working(job', n, m) => Working(job, n, m)
    BY <2>2, <2>3 DEF Working, Busy, Idle
  <2> QED
    BY <2>1, <2>4 DEF HasMessage
<1>6. CASE ChunkStep(n)
  BY <1>6, ChunkStepMoves DEF HasMessage
<1> QED
  BY <1>3, <1>4, <1>5, <1>6 DEF Execute, ChunkStep

LEMMA OthersBringNone ==
  ASSUME TypeOK, NEW n \in Trainers, UserCommand(n) \/ Crash(n), NEW m \in Message,
         HasMessage(channel', job', n, m)
  PROVE  HasMessage(channel, job, n, m)
<1>1. CASE UserCommand(n)
  <2>1. PICK c \in Command : c.cmd # "assign" /\ Enqueue(n, c)
    <3>1. CASE \E t \in Rounds : Enqueue(n, [cmd |-> "join", topic |-> t])
      BY <3>1 DEF Command
    <3>2. CASE \E t \in LeaveTopics : Enqueue(n, [cmd |-> "leave", topic |-> t])
      BY <3>2 DEF Command
    <3> QED
      BY <1>1, <3>1, <3>2 DEF UserCommand
  <2>2. channel[n] \in Seq(Command) /\ channel'[n] = Append(channel[n], c)
    BY <2>1 DEF Enqueue, TypeOK
  <2>3. job' = job
    BY <1>1 DEF UserCommand
  <2>4. ASSUME NEW k \in Nat, Waiting(channel', n, k, m) PROVE Waiting(channel, n, k, m)
    BY <2>1, <2>2, <2>4, PutPlace
  <2> QED
    BY <2>3, <2>4 DEF HasMessage
<1>2. CASE Crash(n)
  <2>1. channel'[n] = <<>> /\ job'[n] = Down
    BY <1>2 DEF Crash, TypeOK
  <2> QED
    BY <2>1 DEF HasMessage, Waiting, Working, Busy, Down
<1> QED
  BY <1>1, <1>2

(* A trainer's step changes nothing of the other trainers'. *)
LEMMA OthersHaveTheirs ==
  ASSUME TypeOK, NEW n \in Trainers, Execute(n) \/ UserCommand(n) \/ Crash(n),
         NEW p \in Trainers, p # n, NEW m \in Message, HasMessage(channel', job', p, m)
  PROVE  HasMessage(channel, job, p, m)
<1>1. CASE ChunkStep(n)
  BY <1>1, ChunkStepMoves DEF HasMessage
<1>2. CASE ~ChunkStep(n)
  <2>1. channel'[p] = channel[p]
    BY <1>2 DEF Execute, ChunkStep, UserCommand, Crash, Enqueue, Join, Leave, StartAssign,
       ExecuteLog, NextCommand, PublishWeights, PublishFails, FinishAssign, TypeOK
  <2>2. job'[p] = job[p]
    BY <1>2 DEF Execute, ChunkStep, UserCommand, Crash, Join, Leave, StartAssign,
       ExecuteLog, PublishWeights, PublishFails, FinishAssign, TypeOK
  <2> QED
    BY <2>1, <2>2 DEF HasMessage, Waiting, Working
<1> QED
  BY <1>1, <1>2

LEMMA TrainerBringsNone ==
  ASSUME TypeOK, NEW n \in Trainers, Execute(n) \/ UserCommand(n) \/ Crash(n),
         NEW p \in Trainers, NEW m \in Message, HasMessage(channel', job', p, m)
  PROVE  HasMessage(channel, job, p, m)
<1>1. CASE p = n
  BY <1>1, ExecuteBringsNone, OthersBringNone
<1>2. CASE p # n
  BY <1>2, OthersHaveTheirs
<1> QED
  BY <1>1, <1>2

(* While nobody leaves, nobody leaves the fed-learn mesh. *)
AllWithin == \A n \in Trainers : WithinRound(n)

LEMMA NobodyLeft ==
  ASSUME TypeOK, LeaveTopics = {}, NEW n \in Trainers
  PROVE  ~Leave(n)
<1> SUFFICES ASSUME Leave(n) PROVE FALSE
  OBVIOUS
<1>1. Head(channel[n]).topic \in LeaveTopics
  BY HeadOfChannel DEF Leave, NextCommand
<1> QED
  BY <1>1

LEMMA WithinStep ==
  ASSUME TypeOK, LeaveTopics = {}, AllWithin, [Next]_vars
  PROVE  AllWithin'
<1>1. SUFFICES ASSUME NEW p \in Trainers PROVE WithinRound(p)'
  BY DEF AllWithin
<1>2. WithinRound(p)
  BY DEF AllWithin
<1>3. CASE UNCHANGED member
  BY <1>2, <1>3 DEF member, WithinRound
<1>4. ASSUME UNCHANGED <<isSubscribed, trainingTopic, subscribedTopics>>,
             subscribed'[p] \subseteq subscribed[p]
      PROVE  WithinRound(p)'
  BY <1>2, <1>4 DEF WithinRound
<1>5. ASSUME NEW n \in Trainers, Execute(n) PROVE WithinRound(p)'
  <2>1. CASE n # p
    BY <1>2, <1>5, <2>1, OthersMember DEF WithinRound
  <2>2. CASE n = p /\ Join(n)
    BY <1>2, <2>2, JoinOne
  <2>3. CASE n = p /\ FinishAssign(n)
    BY <1>4, <2>3 DEF FinishAssign, TypeOK
  <2> QED
    BY <1>3, <1>5, <2>1, <2>2, <2>3, NobodyLeft, WorkKeepsMember
<1>6. ASSUME NEW n \in Trainers, Crash(n) PROVE WithinRound(p)'
  BY <1>4, <1>6 DEF Crash, TypeOK
<1> QED
  BY <1>3, <1>5, <1>6 DEF Next, OpenTask, CancelTask, MeshSummary, Train, Lose, Receive,
     UserCommand, vars

LEMMA AllWithinHolds ==
  ASSUME LeaveTopics = {}
  PROVE  Spec => []AllWithin
<1>1. Init => AllWithin
  BY RoundAssumption DEF Init, AllWithin, WithinRound, NoTopic
<1>2. TypeOK /\ AllWithin /\ [Next]_vars => AllWithin'
  BY WithinStep
<1> QED
  BY <1>1, <1>2, TypeCorrect, PTL DEF Spec

(* Nobody leaves, so a trainer that joins was in no round and has nothing. *)
LEMMA TopicIsKept ==
  ASSUME TypeOK, LeaveTopics = {}, AllWithin, NEW n \in Trainers,
         Execute(n) \/ UserCommand(n) \/ Crash(n), NEW p \in Trainers
  PROVE  trainingTopic'[p] = trainingTopic[p] \/ trainingTopic[p] = NoTopic
<1>1. CASE UNCHANGED trainingTopic
  BY <1>1
<1>2. CASE Join(n)
  <2>1. CASE p = n /\ MayJoin(n)
    BY <2>1 DEF MayJoin, AllWithin, WithinRound
  <2>2. CASE p # n
    BY <1>2, <2>2 DEF Join, member, TypeOK
  <2>3. CASE ~MayJoin(n)
    BY <1>2, <2>3 DEF Join, member
  <2> QED
    BY <2>1, <2>2, <2>3
<1> QED
  BY <1>1, <1>2, NobodyLeft, WorkKeepsMember DEF FinishAssign, UserCommand, Crash, member

LEMMA TrainerStaysInRound ==
  ASSUME TypeOK, LeaveTopics = {}, AllWithin, AssignedInRound, NEW n \in Trainers,
         Execute(n) \/ UserCommand(n) \/ Crash(n)
  PROVE  AssignedInRound'
<1>1. wire' = wire
  BY DEF Execute, UserCommand, Crash, Join, Leave, StartAssign, ExecuteLog, SendLog,
         TrainChunk, RaiseInChunk, LogException, PublishWeights, PublishFails, FinishAssign
<1>2. ASSUME NEW m \in Message PROVE m.round \in Rounds /\ m.round # NoTopic /\ m.to \in Trainers
  BY RoundAssumption DEF Message, NoTopic
<1>3. ASSUME NEW m \in wire' PROVE m.round = trainingTopic'[m.to]
  <2>1. m \in wire /\ m \in Message /\ m.round = trainingTopic[m.to]
    BY <1>1, <1>3 DEF AssignedInRound, OfItsRound, TypeOK
  <2> QED
    BY <1>2, <2>1, TopicIsKept
<1>4. ASSUME NEW p \in Trainers, NEW m \in Message, HasMessage(channel', job', p, m)
      PROVE  m.to = p /\ m.round = trainingTopic'[p]
  <2>1. HasMessage(channel, job, p, m)
    BY <1>4, TrainerBringsNone
  <2>2. m.to = p /\ m.round = trainingTopic[p]
    BY <2>1 DEF AssignedInRound, OfItsRound
  <2> QED
    BY <1>2, <2>2, TopicIsKept
<1> QED
  BY <1>3, <1>4 DEF AssignedInRound, OfItsRound

(* A message that is received was of its trainer's round on the way. *)
LEMMA ReceiveStaysInRound ==
  ASSUME TypeOK, AssignedInRound, NEW m \in wire, Receive(m)
  PROVE  AssignedInRound'
<1>1. /\ wire' = wire \ {m} /\ job' = job /\ trainingTopic' = trainingTopic
      /\ m \in Message /\ m.to \in Trainers /\ m.round = trainingTopic[m.to]
  BY DEF Receive, member, TypeOK, AssignedInRound, OfItsRound, Message
<1>2. ASSUME NEW p \in Trainers, NEW l \in Message, HasMessage(channel', job', p, l)
      PROVE  l.to = p /\ l.round = trainingTopic[p]
  <2>1. CASE HasMessage(channel, job, p, l)
    BY <2>1 DEF AssignedInRound, OfItsRound
  <2>2. CASE ~HasMessage(channel, job, p, l)
    <3>1. PICK k \in Nat : Waiting(channel', p, k, l)
      BY <1>1, <1>2, <2>2 DEF HasMessage
    <3>2. ~Waiting(channel, p, k, l)
      BY <2>2 DEF HasMessage
    <3>3. Enqueue(m.to, [cmd |-> "assign", message |-> m])
      BY <3>1, <3>2 DEF Receive
    <3>4. p = m.to
      BY <3>1, <3>2, <3>3, SamePlace DEF Enqueue, TypeOK
    <3>5. /\ channel[p] \in Seq(Command) /\ [cmd |-> "assign", message |-> m] \in Command
          /\ channel'[p] = Append(channel[p], [cmd |-> "assign", message |-> m])
      BY <1>1, <3>3, <3>4 DEF Enqueue, TypeOK, Command
    <3>6. l = m
      <4> DEFINE c == [cmd |-> "assign", message |-> m]
      <4>1. c.message = m /\ c \in Command
        BY <3>5
      <4>2. channel[p] \in Seq(Command) /\ channel'[p] = Append(channel[p], c)
        BY <3>5
      <4> HIDE DEF c
      <4>3. c \in Command
        BY <4>1
      <4>4. \/ Waiting(channel, p, k, l)
            \/ k = Len(channel[p]) + 1 /\ c.cmd = "assign" /\ c.message = l
        BY <3>1, <4>2, <4>3, PutPlace
      <4> QED
        BY <3>2, <4>1, <4>4
    <3> QED
      BY <1>1, <3>4, <3>6
  <2> QED
    BY <2>1, <2>2
<1> QED
  BY <1>1, <1>2 DEF AssignedInRound, OfItsRound

(* The client publishes to subscribers of the round's topic only. *)
LEMMA TrainStaysInRound ==
  ASSUME TypeOK, AllWithin, AssignedInRound, NEW t \in Rounds, Train(t)
  PROVE  AssignedInRound'
<1>1. PICK nodes \in SetToSeqs(roster[t]) :
        wire' = wire \cup
          {[to |-> nodes[k], round |-> t, train |-> trains[t] + 1,
            share |-> ShareOf(k, Len(nodes))]
             : k \in {j \in 1..Len(nodes) : t \in subscribed[nodes[j]]}}
  BY DEF Train
<1>2. /\ channel' = channel /\ job' = job /\ trainingTopic' = trainingTopic
      /\ wire' \subseteq Message
  BY TrainSendsMessages DEF Train, member
<1>3. ASSUME NEW m \in wire' PROVE m.round = trainingTopic[m.to]
  <2>1. CASE m \in wire
    BY <2>1 DEF AssignedInRound, OfItsRound
  <2>2. CASE m \notin wire
    <3>1. PICK k \in 1..Len(nodes) : /\ t \in subscribed[nodes[k]]
                                     /\ m.to = nodes[k] /\ m.round = t
      BY <1>1, <1>3, <2>2
    <3>2. m.to \in Trainers
      BY <1>2, <1>3 DEF Message
    <3>3. subscribed[m.to] \subseteq {trainingTopic[m.to]}
      BY <3>2 DEF AllWithin, WithinRound
    <3> QED
      BY <3>1, <3>3
  <2> QED
    BY <2>1, <2>2
<1> QED
  BY <1>2, <1>3 DEF AssignedInRound, OfItsRound

LEMMA AssignedInRoundHolds ==
  ASSUME LeaveTopics = {}
  PROVE  Spec => []AssignedInRound
<1> USE DEF contract, client, member, history
<1>1. Init => AssignedInRound
  <2> SUFFICES ASSUME Init PROVE AssignedInRound
    OBVIOUS
  <2>1. wire = {} /\ \A n \in Trainers : channel[n] = <<>> /\ job[n] = Idle
    BY DEF Init
  <2>2. \A n \in Trainers : \A m : ~HasMessage(channel, job, n, m)
    BY <2>1, EndedJob DEF HasMessage, Waiting
  <2> QED
    BY <2>1, <2>2 DEF AssignedInRound, OfItsRound
<1>2. TypeOK /\ AllWithin /\ AssignedInRound /\ [Next]_vars => AssignedInRound'
  <2> SUFFICES ASSUME TypeOK, AllWithin, AssignedInRound, [Next]_vars
               PROVE  AssignedInRound'
    OBVIOUS
  <2>1. ASSUME NEW n \in Trainers, UserCommand(n) \/ Execute(n) \/ Crash(n)
        PROVE  AssignedInRound'
    BY <2>1, TrainerStaysInRound
  <2>2. ASSUME NEW m \in wire, Receive(m) PROVE AssignedInRound'
    BY <2>2, ReceiveStaysInRound
  <2>3. ASSUME NEW t \in Rounds, Train(t) PROVE AssignedInRound'
    BY <2>3, TrainStaysInRound
  <2>4. ASSUME wire' \subseteq wire, UNCHANGED <<channel, job, trainingTopic>>
        PROVE  AssignedInRound'
    BY <2>4 DEF AssignedInRound, OfItsRound
  <2>5. ASSUME NEW t \in Rounds, OpenTask(t) \/ CancelTask(t) \/ MeshSummary(t)
        PROVE  AssignedInRound'
    BY <2>4, <2>5 DEF OpenTask, CancelTask, MeshSummary
  <2>6. ASSUME NEW m \in wire, Lose(m) PROVE AssignedInRound'
    BY <2>4, <2>6 DEF Lose
  <2>7. CASE UNCHANGED vars
    BY <2>4, <2>7 DEF vars
  <2> QED
    BY <2>1, <2>2, <2>3, <2>5, <2>6, <2>7 DEF Next
<1>3. Spec => []AllWithin
  BY AllWithinHolds
<1> QED
  BY <1>1, <1>2, <1>3, TypeCorrect, PTL DEF Spec

LEMMA KeptRoundIsClaimed ==
  TypeOK /\ AllWithin /\ AssignedInRound => ClaimsOwnRound
<1> SUFFICES ASSUME TypeOK, AllWithin, AssignedInRound,
                    NEW n \in Trainers, job[n].state = "publish"
             PROVE  LastTopic(n) = job[n].message.round
  BY DEF ClaimsOwnRound
<1> DEFINE m == job[n].message
<1>1. m \in Message /\ Working(job, n, m)
  BY JobTypes DEF Working, Busy
<1>2. m.round = trainingTopic[n]
  BY <1>1 DEF AssignedInRound, OfItsRound, HasMessage
<1>3. m.round # NoTopic
  BY <1>1, RoundAssumption DEF Message, NoTopic
<1>4. subscribedTopics[n] = <<FedLearn, m.round>>
  BY <1>2, <1>3 DEF AllWithin, WithinRound
<1> HIDE DEF m
<1>5. LastTopic(n) = m.round
  BY <1>4 DEF LastTopic, Last
<1> QED
  BY <1>5 DEF m

LEMMA OwnRoundClaimed ==
  ASSUME LeaveTopics = {}
  PROVE  Spec => []ClaimsOwnRound
<1>1. Spec => []AllWithin
  BY AllWithinHolds
<1>2. Spec => []AssignedInRound
  BY AssignedInRoundHolds
<1> QED
  BY <1>1, <1>2, KeptRoundIsClaimed, TypeCorrect, PTL

(* The counterexample of MCRoundWrongTask.cfg needs a leave: while no user *)
(* enters one, weights are claimed from the task of their own round, for   *)
(* any number of rounds and trainers and whatever fails                    *)
(* (coordinator.py:418).                                                   *)
THEOREM WeightsStayInRound ==
  ASSUME LeaveTopics = {}
  PROVE  Spec => []WeightsReachTheirRound
<1> USE DEF contract, client, member, history
<1>1. Init => WeightsReachTheirRound
  BY DEF Init, WeightsReachTheirRound
<1>2. TypeOK /\ ClaimsOwnRound /\ WeightsReachTheirRound /\ [Next]_vars
        => WeightsReachTheirRound'
  <2> SUFFICES ASSUME TypeOK, ClaimsOwnRound, WeightsReachTheirRound, [Next]_vars
               PROVE  WeightsReachTheirRound'
    OBVIOUS
  <2>1. ASSUME NEW n \in Trainers, PublishWeights(n) PROVE WeightsReachTheirRound'
    <3>1. LastTopic(n) \in Rounds /\ LastTopic(n) = job[n].message.round
      BY <2>1 DEF PublishWeights, Claimed, Claimable, ClaimsOwnRound
    <3>2. PICK s0 : s0.task = s0.round /\ submissions' = submissions \cup {s0}
      <4>1. ClaimMade(n).task = ClaimMade(n).round
        BY <3>1 DEF ClaimMade
      <4>2. submissions' = submissions \cup {ClaimMade(n)}
        BY <2>1 DEF PublishWeights, Claimed, ClaimMade
      <4> QED
        BY <4>1, <4>2
    <3> QED
      BY <3>2 DEF WeightsReachTheirRound
  <2>2. CASE UNCHANGED submissions
    BY <2>2 DEF WeightsReachTheirRound
  <2> QED
    BY <2>1, <2>2 DEF Next, Execute, OpenTask, CancelTask, MeshSummary, Train, Lose,
         Receive, UserCommand, Crash, Join, Leave, StartAssign, ExecuteLog, SendLog,
         TrainChunk, RaiseInChunk, LogException, PublishFails, FinishAssign, vars
<1>3. Spec => []ClaimsOwnRound
  BY OwnRoundClaimed
<1> QED
  BY <1>1, <1>2, <1>3, TypeCorrect, PTL DEF Spec

-----------------------------------------------------------------------------
(* Submissions that do not carry the weights of their chunk, and jobs      *)
(* about to make one.  Each costs a failure of its own.                    *)
NotOwnWeights(subs) == {s \in subs : s.weights # <<s.round, s.chunk>>}

Tainted(w) ==
  \/ w.state = "raised"
  \/ w.state = "publish" /\ w.url # <<w.message.round, Head(w.left)>>
TaintedJobs(jobs) == {n \in Trainers : Tainted(jobs[n])}

FaultsCover ==
  /\ IsFiniteSet(NotOwnWeights(submissions))
  /\ Cardinality(NotOwnWeights(submissions)) + Cardinality(TaintedJobs(job)) <= faults

LEMMA TaintedFinite ==
  ASSUME NEW jobs
  PROVE  IsFiniteSet(TaintedJobs(jobs)) /\ Cardinality(TaintedJobs(jobs)) \in Nat
<1>1. TaintedJobs(jobs) \in SUBSET Trainers
  BY DEF TaintedJobs
<1>2. IsFiniteSet(TaintedJobs(jobs))
  BY <1>1, RoundAssumption, FS_Subset
<1> QED
  BY <1>2, FS_CardinalityType

(* A step that adds no such submission and no such job. *)
LEMMA NothingTainted ==
  ASSUME TypeOK, TypeOK', FaultsCover, faults <= faults',
         NotOwnWeights(submissions') \subseteq NotOwnWeights(submissions),
         TaintedJobs(job') \subseteq TaintedJobs(job)
  PROVE  FaultsCover'
<1> DEFINE a == Cardinality(NotOwnWeights(submissions))
           b == Cardinality(NotOwnWeights(submissions'))
           c == Cardinality(TaintedJobs(job))
           d == Cardinality(TaintedJobs(job'))
<1>1. IsFiniteSet(NotOwnWeights(submissions')) /\ a \in Nat /\ b \in Nat /\ b <= a
  BY FS_Subset, FS_CardinalityType DEF FaultsCover
<1>2. c \in Nat /\ d \in Nat /\ d <= c
  BY TaintedFinite, FS_Subset
<1>3. faults \in Nat /\ faults' \in Nat
  BY DEF TypeOK
<1>4. a + c <= faults
  BY DEF FaultsCover
<1>5. b + d <= faults'
  <2> HIDE DEF a, b, c, d
  <2> QED
    BY <1>1, <1>2, <1>3, <1>4
<1> QED
  BY <1>1, <1>5 DEF FaultsCover

(* Jobs of a step of one trainer. *)
LEMMA OneJobTainted ==
  ASSUME TypeOK, NEW n \in Trainers, \A p \in Trainers \ {n} : job'[p] = job[p]
  PROVE  /\ Tainted(job'[n]) => TaintedJobs(job') \subseteq TaintedJobs(job) \cup {n}
         /\ ~Tainted(job'[n]) => TaintedJobs(job') \subseteq TaintedJobs(job) \ {n}
  BY DEF TaintedJobs

(* A failure pays for one more tainted job. *)
LEMMA FaultCovers ==
  ASSUME TypeOK, FaultsCover, NEW n \in Trainers, Fault,
         submissions' = submissions, \A p \in Trainers \ {n} : job'[p] = job[p]
  PROVE  FaultsCover'
<1> DEFINE a == Cardinality(NotOwnWeights(submissions))
           c == Cardinality(TaintedJobs(job))
           d == Cardinality(TaintedJobs(job'))
<1>1. TaintedJobs(job') \subseteq TaintedJobs(job) \cup {n}
  BY OneJobTainted
<1>2. /\ IsFiniteSet(TaintedJobs(job) \cup {n})
      /\ Cardinality(TaintedJobs(job) \cup {n}) <= c + 1
      /\ Cardinality(TaintedJobs(job) \cup {n}) \in Nat
  <2>1. c \in Nat /\ IsFiniteSet(TaintedJobs(job))
    BY TaintedFinite
  <2>2. /\ IsFiniteSet(TaintedJobs(job) \cup {n})
        /\ Cardinality(TaintedJobs(job) \cup {n}) \in {c, c + 1}
    BY <2>1, FS_AddElement
  <2> HIDE DEF c
  <2> QED
    BY <2>1, <2>2
<1>3. d <= Cardinality(TaintedJobs(job) \cup {n})
  BY <1>1, <1>2, FS_Subset
<1>4. c \in Nat /\ d \in Nat /\ a \in Nat /\ faults \in Nat
  BY TaintedFinite, FS_CardinalityType DEF FaultsCover, TypeOK
<1>5. a + c <= faults /\ faults' = faults + 1
  BY DEF Fault, FaultsCover
<1>6. a + d <= faults'
  <2> HIDE DEF a, c, d
  <2> QED
    BY <1>2, <1>3, <1>4, <1>5
<1> QED
  BY <1>6 DEF FaultsCover

(* train_on_chunk returns another url, or None, or raises, only when       *)
(* something fails; one that raised is tainted already.                    *)
LEMMA ChunkStepCovered ==
  ASSUME TypeOK, TypeOK', FaultsCover, NEW n \in Trainers, ChunkStep(n)
  PROVE  FaultsCover'
<1>1. submissions' = submissions
  BY ChunkStepGoesOn DEF history
<1>2. \A p \in Trainers \ {n} : job'[p] = job[p]
  BY ChunkStepGoesOn DEF TypeOK
<1>3. faults \in Nat /\ (Fault \/ UNCHANGED faults => faults <= faults')
  BY DEF TypeOK, Fault
<1>4. ASSUME UNCHANGED faults, Tainted(job'[n]) => Tainted(job[n])
      PROVE  FaultsCover'
  <2>1. TaintedJobs(job') \subseteq TaintedJobs(job)
    BY <1>2, <1>4 DEF TaintedJobs
  <2>2. faults <= faults'
    BY <1>3, <1>4
  <2> QED
    BY <1>1, <2>1, <2>2, NothingTainted
<1>5. CASE SendLog(n)
  <2>1. job[n] \in Training /\ job[n].state = "train"
    BY <1>5, JobTypes DEF SendLog, InChunk
  <2>2. job'[n] = [job[n] EXCEPT !.logs = job[n].logs + 1]
    BY <1>5 DEF SendLog, TypeOK
  <2>3. job'[n].state = "train"
    BY <2>1, <2>2 DEF Training
  <2>4. ~Tainted(job'[n])
    BY <2>3 DEF Tainted
  <2> QED
    BY <1>4, <1>5, <2>4 DEF SendLog
<1>6. CASE TrainChunk(n)
  <2>1. PICK url : /\ Trained(n, url)
                   /\ \/ UNCHANGED faults /\ url = <<job[n].message.round, Head(job[n].left)>>
                      \/ Fault
    BY <1>6 DEF TrainChunk
  <2>2. CASE Fault
    BY <1>1, <1>2, <2>2, FaultCovers
  <2>3. CASE UNCHANGED faults /\ url = <<job[n].message.round, Head(job[n].left)>>
    <3>1. job'[n] = [state |-> "publish", message |-> job[n].message,
                     left |-> job[n].left, url |-> url]
      BY <2>1 DEF Trained, TypeOK
    <3>2. ~Tainted(job'[n])
      BY <2>3, <3>1 DEF Tainted
    <3> QED
      BY <1>4, <2>3, <3>2
  <2> QED
    BY <2>1, <2>2, <2>3
<1>7. CASE RaiseInChunk(n)
  <2>1. Fault
    BY <1>7 DEF RaiseInChunk
  <2> QED
    BY <1>1, <1>2, <2>1, FaultCovers
<1>8. CASE LogException(n)
  <2>1. Tainted(job[n]) /\ UNCHANGED faults
    BY <1>8 DEF LogException, Tainted
  <2> QED
    BY <1>4, <2>1
<1> QED
  BY <1>5, <1>6, <1>7, <1>8 DEF ChunkStep

(* The submission of a tainted job takes over its failure. *)
LEMMA PublishCovered ==
  ASSUME TypeOK, TypeOK', FaultsCover, NEW n \in Trainers, PublishWeights(n)
  PROVE  FaultsCover'
<1> DEFINE s0 == ClaimMade(n)
<1>1. submissions' = submissions \cup {s0}
  BY DEF PublishWeights, Claimed, ClaimMade
<1>2. job[n].state = "publish"
  BY DEF PublishWeights
<1>3. \A p \in Trainers \ {n} : job'[p] = job[p]
  BY DEF PublishWeights, TypeOK
<1>4. ~Tainted(job'[n])
  BY DEF PublishWeights, OnFailure, Proceed, Work, Idle, Tainted, TypeOK
<1>5. TaintedJobs(job') \subseteq TaintedJobs(job) \ {n}
  BY <1>3, <1>4, OneJobTainted
<1>6. faults \in Nat /\ faults' \in Nat /\ faults <= faults'
  BY DEF PublishWeights, Fault, TypeOK
<1>7. CASE ~Tainted(job[n])
  <2>1. s0.weights = <<s0.round, s0.chunk>>
    BY <1>2, <1>7 DEF Tainted, ClaimMade
  <2> HIDE DEF s0
  <2>2. NotOwnWeights(submissions') \subseteq NotOwnWeights(submissions)
    BY <1>1, <2>1 DEF NotOwnWeights
  <2> QED
    BY <1>5, <1>6, <2>2, NothingTainted
<1>8. CASE Tainted(job[n])
  <2> DEFINE old == NotOwnWeights(submissions)
             new == NotOwnWeights(submissions')
             a == Cardinality(old)
             b == Cardinality(new)
             c == Cardinality(TaintedJobs(job))
             d == Cardinality(TaintedJobs(job'))
  <2>1. new \subseteq old \cup {s0}
    <3> HIDE DEF s0
    <3> QED
      BY <1>1 DEF NotOwnWeights
  <2>2. IsFiniteSet(old) /\ a \in Nat /\ a + c <= faults
    BY FS_CardinalityType DEF FaultsCover
  <2>3. IsFiniteSet(old \cup {s0}) /\ Cardinality(old \cup {s0}) \in {a, a + 1}
    <3> HIDE DEF s0, old
    <3> QED
      BY <2>2, FS_AddElement
  <2>4. /\ IsFiniteSet(new) /\ b \in Nat
        /\ b <= Cardinality(old \cup {s0})
    <3> HIDE DEF s0, old, new
    <3> QED
      BY <2>1, <2>3, FS_Subset, FS_CardinalityType
  <2>5. c \in Nat /\ d \in Nat /\ d <= c - 1
    <3>1. n \in TaintedJobs(job)
      BY <1>8 DEF TaintedJobs
    <3>2. /\ IsFiniteSet(TaintedJobs(job) \ {n})
          /\ Cardinality(TaintedJobs(job) \ {n}) = c - 1
      BY <3>1, TaintedFinite, FS_RemoveElement
    <3> QED
      BY <1>5, <3>2, TaintedFinite, FS_Subset
  <2>6. b <= a + 1
    <3> HIDE DEF s0, old, a, b
    <3> QED
      BY <2>2, <2>3, <2>4
  <2>7. b + d <= faults'
    <3> HIDE DEF s0, old, new, a, b, c, d
    <3> QED
      BY <1>6, <2>2, <2>4, <2>5, <2>6
  <2> QED
    BY <2>4, <2>7 DEF FaultsCover
<1> QED
  BY <1>7, <1>8

LEMMA FaultsCoverStep ==
  ASSUME TypeOK, TypeOK', FaultsCover, [Next]_vars
  PROVE  FaultsCover'
<1> USE DEF contract, client, member, history
<1>1. faults \in Nat
  BY DEF TypeOK
<1>2. ASSUME UNCHANGED <<submissions, job>>, faults' = faults \/ Fault
      PROVE  FaultsCover'
  <2>1. faults <= faults'
    BY <1>1, <1>2 DEF Fault
  <2> QED
    BY <1>2, <2>1, NothingTainted
<1>3. ASSUME NEW n \in Trainers, NEW w, ~Tainted(w), job' = [job EXCEPT ![n] = w],
             UNCHANGED submissions, faults' = faults \/ Fault
      PROVE  FaultsCover'
  <2>1. job'[n] = w /\ \A p \in Trainers \ {n} : job'[p] = job[p]
    BY <1>3 DEF TypeOK
  <2>2. TaintedJobs(job') \subseteq TaintedJobs(job)
    <3>1. ASSUME NEW p \in Trainers, Tainted(job'[p]) PROVE Tainted(job[p])
      BY <1>3, <2>1, <3>1
    <3> QED
      BY <3>1 DEF TaintedJobs
  <2>3. faults <= faults'
    BY <1>1, <1>3 DEF Fault
  <2> QED
    BY <1>3, <2>2, <2>3, NothingTainted
<1>4. ~Tainted(Idle) /\ ~Tainted(Down)
  BY DEF Tainted, Idle, Down
<1>5. ASSUME NEW n \in Trainers, StartAssign(n) PROVE FaultsCover'
  <2> DEFINE m == Head(channel[n]).message
             w == Work(m, m.share)
  <2>1. job' = [job EXCEPT ![n] = w] /\ UNCHANGED <<submissions, faults>>
    BY <1>5 DEF StartAssign
  <2>2. w.state = "train"
    BY DEF Work
  <2> HIDE DEF w
  <2>3. ~Tainted(w)
    BY <2>2 DEF Tainted
  <2> QED
    BY <1>3, <2>1, <2>3
<1>6. ASSUME NEW n \in Trainers, PublishFails(n) \/ FinishAssign(n) PROVE FaultsCover'
  <2>1. /\ job' = [job EXCEPT ![n] = Idle]
        /\ UNCHANGED submissions /\ (faults' = faults \/ Fault)
    BY <1>6 DEF PublishFails, FinishAssign, OnFailure
  <2> QED
    BY <1>3, <1>4, <2>1
<1>7. ASSUME NEW n \in Trainers, Crash(n) PROVE FaultsCover'
  <2>1. job' = [job EXCEPT ![n] = Down] /\ UNCHANGED submissions /\ Fault
    BY <1>7 DEF Crash
  <2> QED
    BY <1>3, <1>4, <2>1
<1>8. ASSUME NEW n \in Trainers, Join(n) \/ Leave(n) \/ ExecuteLog(n) \/ UserCommand(n)
      PROVE  FaultsCover'
  BY <1>2, <1>8 DEF Join, Leave, ExecuteLog, UserCommand
<1>9. ASSUME NEW t \in Rounds, OpenTask(t) \/ CancelTask(t) \/ MeshSummary(t) \/ Train(t)
      PROVE  FaultsCover'
  BY <1>2, <1>9 DEF OpenTask, CancelTask, MeshSummary, Train
<1>10. ASSUME NEW m \in wire, Lose(m) \/ Receive(m) PROVE FaultsCover'
  BY <1>2, <1>10 DEF Lose, Receive
<1>11. CASE UNCHANGED vars
  BY <1>2, <1>11 DEF vars
<1> QED
  BY <1>5, <1>6, <1>7, <1>8, <1>9, <1>10, <1>11, ChunkStepCovered, PublishCovered
     DEF Next, Execute, ChunkStep

LEMMA FaultsCoverHolds == Spec => []FaultsCover
<1>1. Init => FaultsCover
  <2> SUFFICES ASSUME Init PROVE FaultsCover
    OBVIOUS
  <2>1. NotOwnWeights(submissions) = {} /\ TaintedJobs(job) = {} /\ faults = 0
    BY DEF Init, NotOwnWeights, TaintedJobs, Tainted, Idle
  <2> QED
    BY <2>1, FS_EmptySet DEF FaultsCover
<1>2. TypeOK /\ TypeOK' /\ FaultsCover /\ [Next]_vars => FaultsCover'
  BY FaultsCoverStep
<1> QED
  BY <1>1, <1>2, TypeCorrect, PTL DEF Spec

(* train_on_chunk hides its failures (machine_learning.py:87-98), so chunks *)
(* are rewarded without their weights (the run round_weights); but no more  *)
(* of them than there were failures: one failure never spoils two chunks,   *)
(* although the url it leaves behind is that of an earlier chunk.           *)
LossesAreFaults == Cardinality(NotOwnWeights(submissions)) <= faults

THEOREM EachLossIsAFault == Spec => []LossesAreFaults
<1>1. TypeOK /\ FaultsCover => LossesAreFaults
  <2> SUFFICES ASSUME TypeOK, FaultsCover PROVE LossesAreFaults
    OBVIOUS
  <2>1. Cardinality(NotOwnWeights(submissions)) \in Nat
    BY FS_CardinalityType DEF FaultsCover
  <2>2. Cardinality(TaintedJobs(job)) \in Nat /\ faults \in Nat
    BY TaintedFinite DEF TypeOK
  <2> QED
    BY <2>1, <2>2 DEF FaultsCover, LossesAreFaults
<1> QED
  BY <1>1, TypeCorrect, FaultsCoverHolds, PTL

(* In particular trainers are rewarded for weights while nothing fails. *)
THEOREM RewardedWhileNothingFails == Spec => [](faults = 0 => RewardedForWeights)
<1>1. FaultsCover /\ LossesAreFaults => (faults = 0 => RewardedForWeights)
  <2> SUFFICES ASSUME FaultsCover, LossesAreFaults, faults = 0 PROVE RewardedForWeights
    OBVIOUS
  <2>1. IsFiniteSet(NotOwnWeights(submissions))
    BY DEF FaultsCover
  <2>2. Cardinality(NotOwnWeights(submissions)) \in Nat
    BY <2>1, FS_CardinalityType
  <2>3. Cardinality(NotOwnWeights(submissions)) = 0
    BY <2>2 DEF LossesAreFaults
  <2>4. NotOwnWeights(submissions) = {}
    BY <2>1, <2>3, FS_EmptySet
  <2> QED
    BY <2>4 DEF NotOwnWeights, RewardedForWeights
<1> QED
  BY <1>1, FaultsCoverHolds, EachLossIsAFault, PTL

-----------------------------------------------------------------------------
(* The claims of a task and what it owes add up to the chunks it was       *)
(* opened for.                                                             *)
ClaimsOf(subs, t) == {s \in subs : s.task = t}

AccountOf(stage, owes, claims) ==
  /\ stage = "none" => claims = {}
  /\ stage \in {"untouched", "started", "settled"} => Cardinality(claims) + owes = NumChunks
  /\ stage = "settled" => owes = 0

Accounted == \A t \in Rounds : AccountOf(phase[t], owed[t], ClaimsOf(submissions, t))

(* The account of one task moves, those of the others stand. *)
LEMMA OneAccountMoves ==
  ASSUME Accounted, NEW t \in Rounds,
         AccountOf(phase'[t], owed'[t], ClaimsOf(submissions', t)),
         \A u \in Rounds \ {t} : /\ phase'[u] = phase[u] /\ owed'[u] = owed[u]
                                 /\ ClaimsOf(submissions', u) = ClaimsOf(submissions, u)
  PROVE  Accounted'
<1>1. ASSUME NEW u \in Rounds \ {t}
      PROVE  AccountOf(phase'[u], owed'[u], ClaimsOf(submissions', u))
  BY <1>1 DEF Accounted
<1> QED
  BY <1>1 DEF Accounted

(* A claim has a number of its own, so it is one more. *)
LEMMA ClaimIsNew ==
  ASSUME TypeOK, NEW n \in Trainers
  PROVE  ClaimMade(n) \notin submissions
<1> DEFINE c == Cardinality(submissions)
           s == ClaimMade(n)
<1>1. c \in Nat
  BY FS_CardinalityType DEF TypeOK
<1>2. s.no = c + 1
  BY DEF ClaimMade
<1>3. \A r \in submissions : r.no \in 1..c
  BY DEF TypeOK
<1> HIDE DEF c, s
<1>4. s \notin submissions
  BY <1>1, <1>2, <1>3
<1> QED
  BY <1>4 DEF s

LEMMA ClaimAccounted ==
  ASSUME TypeOK, Accounted, NEW n \in Trainers, Claimed(n)
  PROVE  Accounted'
<1> DEFINE r == LastTopic(n)
           s0 == ClaimMade(n)
<1>1. /\ r \in Rounds /\ phase[r] \in {"untouched", "started"}
      /\ owed' = [owed EXCEPT ![r] = owed[r] - 1]
      /\ phase' = [phase EXCEPT ![r] = IF owed[r] = 1 THEN "settled" ELSE "started"]
  BY DEF Claimed, Claimable, Contract!Claim
<1>2. submissions' = submissions \cup {s0}
  BY DEF Claimed, ClaimMade
<1>3. s0.task = r /\ s0 \notin submissions
  BY ClaimIsNew DEF ClaimMade
<1> HIDE DEF s0, r
<1> DEFINE old == ClaimsOf(submissions, r)
           new == ClaimsOf(submissions', r)
<1>4. new = old \cup {s0} /\ s0 \notin old
  BY <1>2, <1>3 DEF ClaimsOf
<1>5. IsFiniteSet(old) /\ Cardinality(old) \in Nat
  <2>1. old \in SUBSET submissions
    BY DEF ClaimsOf
  <2>2. IsFiniteSet(old)
    BY <2>1, FS_Subset DEF TypeOK
  <2> QED
    BY <2>2, FS_CardinalityType
<1>6. Cardinality(old) + owed[r] = NumChunks
  BY <1>1 DEF Accounted, AccountOf
<1>7. /\ owed[r] \in Nat /\ owed'[r] = owed[r] - 1
      /\ phase'[r] = IF owed[r] = 1 THEN "settled" ELSE "started"
  BY <1>1 DEF TypeOK
<1> HIDE DEF old, new
<1>8. Cardinality(new) = Cardinality(old) + 1
  BY <1>4, <1>5, FS_AddElement
<1>9. Cardinality(new) + owed'[r] = NumChunks
  BY <1>5, <1>6, <1>7, <1>8
<1>10. phase'[r] # "none" /\ (phase'[r] = "settled" => owed'[r] = 0)
  BY <1>7
<1>11. AccountOf(phase'[r], owed'[r], ClaimsOf(submissions', r))
  BY <1>9, <1>10 DEF AccountOf, new
<1>12. ASSUME NEW u \in Rounds \ {r}
       PROVE  /\ phase'[u] = phase[u] /\ owed'[u] = owed[u]
              /\ ClaimsOf(submissions', u) = ClaimsOf(submissions, u)
  <2>1. phase'[u] = phase[u] /\ owed'[u] = owed[u]
    BY <1>1, <1>12 DEF TypeOK
  <2>2. ClaimsOf(submissions', u) = ClaimsOf(submissions, u)
    BY <1>2, <1>3, <1>12 DEF ClaimsOf
  <2> QED
    BY <2>1, <2>2
<1> QED
  BY <1>1, <1>11, <1>12, OneAccountMoves

LEMMA NextAccounted ==
  ASSUME TypeOK, Accounted, [Next]_vars
  PROVE  Accounted'
<1> USE DEF contract, client, history
<1>1. ASSUME UNCHANGED <<phase, owed, submissions>>
      PROVE  Accounted'
  BY <1>1 DEF Accounted
<1>2. ASSUME NEW t \in Rounds, OpenTask(t)
      PROVE  Accounted'
  <2>1. /\ phase[t] = "none" /\ phase'[t] = "untouched" /\ owed'[t] = NumChunks
        /\ submissions' = submissions
    BY <1>2 DEF OpenTask, Contract!Open, TypeOK
  <2>2. Cardinality(ClaimsOf(submissions, t)) = 0
    BY <2>1, FS_EmptySet DEF Accounted, AccountOf
  <2>3. AccountOf(phase'[t], owed'[t], ClaimsOf(submissions', t))
    BY <2>1, <2>2, RoundAssumption DEF AccountOf
  <2>4. \A u \in Rounds \ {t} : phase'[u] = phase[u] /\ owed'[u] = owed[u]
    BY <1>2 DEF OpenTask, Contract!Open, TypeOK
  <2> QED
    BY <2>1, <2>3, <2>4, OneAccountMoves
<1>3. ASSUME NEW t \in Rounds, CancelTask(t)
      PROVE  Accounted'
  <2>1. phase'[t] = "cancelled"
    BY <1>3 DEF CancelTask, Contract!Cancel, TypeOK
  <2>2. AccountOf(phase'[t], owed'[t], ClaimsOf(submissions', t))
    BY <2>1 DEF AccountOf
  <2>3. /\ submissions' = submissions
        /\ \A u \in Rounds \ {t} : phase'[u] = phase[u] /\ owed'[u] = owed[u]
    BY <1>3 DEF CancelTask, Contract!Cancel, TypeOK
  <2> QED
    BY <2>2, <2>3, OneAccountMoves
<1>4. ASSUME NEW t \in Rounds, MeshSummary(t) \/ Train(t)
      PROVE  Accounted'
  BY <1>1, <1>4 DEF MeshSummary, Train
<1>5. ASSUME NEW m \in wire, Lose(m) \/ Receive(m)
      PROVE  Accounted'
  BY <1>1, <1>5 DEF Lose, Receive
<1>6. ASSUME NEW n \in Trainers, UserCommand(n) \/ Crash(n)
      PROVE  Accounted'
  BY <1>1, <1>6 DEF UserCommand, Crash
<1>7. ASSUME NEW n \in Trainers,
             \/ Join(n) \/ Leave(n) \/ StartAssign(n) \/ ExecuteLog(n)
             \/ PublishFails(n) \/ FinishAssign(n)
      PROVE  Accounted'
  BY <1>1, <1>7 DEF Join, Leave, StartAssign, ExecuteLog, PublishFails, FinishAssign
<1>8. ASSUME NEW n \in Trainers, ChunkStep(n)
      PROVE  Accounted'
  BY <1>1, <1>8, ChunkStepGoesOn
<1>9. ASSUME NEW n \in Trainers, PublishWeights(n)
      PROVE  Accounted'
  BY <1>9, ClaimAccounted DEF PublishWeights
<1>10. CASE UNCHANGED vars
  BY <1>1, <1>10 DEF vars
<1> QED
  BY <1>2, <1>3, <1>4, <1>5, <1>6, <1>7, <1>8, <1>9, <1>10 DEF Next, Execute, ChunkStep

LEMMA AccountedHolds == Spec => []Accounted
<1>1. Init => Accounted
  BY DEF Init, Contract!Init, Accounted, AccountOf, ClaimsOf
<1>2. TypeOK /\ Accounted /\ [Next]_vars => Accounted'
  BY NextAccounted
<1> QED
  BY <1>1, <1>2, TypeCorrect, PTL DEF Spec

(* The claims that are not misplaced are for different chunks, so a chunk  *)
(* is missing only for a misplaced claim.                                  *)
LEMMA EnoughClaims ==
  ASSUME TypeOK, ChunkRewardedOnce, NEW t \in Rounds,
         Cardinality(ClaimsOf(submissions, t)) = NumChunks
  PROVE  Cardinality(Missing(t)) <= Cardinality(Misplaced(t))
<1> DEFINE all == ClaimsOf(submissions, t)
           placed == all \ Misplaced(t)
           chunks == {s.chunk : s \in all}
           f == [s \in placed |-> s.chunk]
<1>1. IsFiniteSet(all) /\ Misplaced(t) \subseteq all
  <2>1. all \in SUBSET submissions
    BY DEF ClaimsOf
  <2> QED
    BY <2>1, FS_Subset DEF TypeOK, Misplaced, ClaimsOf
<1>2. /\ IsFiniteSet(Chunks) /\ Cardinality(Chunks) = NumChunks
      /\ NumChunks \in Nat
  BY RoundAssumption, FS_Interval DEF Chunks
<1>3. chunks \subseteq Chunks /\ Missing(t) = Chunks \ chunks
  BY DEF TypeOK, ClaimsOf, Missing
<1>4. \A s \in placed : s \in submissions /\ s.round = t /\ s.train = 1
  <2>1. ASSUME NEW s \in placed PROVE s \in submissions /\ s.round = t /\ s.train = 1
    <3>1. /\ s \in submissions /\ s.task = t /\ s.round = t /\ ~(s.train > 1)
      BY DEF ClaimsOf, Misplaced
    <3>2. s.train \in Nat /\ s.train >= 1
      BY <3>1 DEF TypeOK
    <3> QED
      BY <3>1, <3>2
  <2> QED
    BY <2>1
<1>5. f \in Injection(placed, chunks)
  <2>1. f \in [placed -> chunks]
    OBVIOUS
  <2>2. ASSUME NEW r \in placed, NEW s \in placed, f[r] = f[s] PROVE r = s
    <3>1. r.chunk = s.chunk
      BY <2>2
    <3> QED
      BY <1>4, <3>1 DEF ChunkRewardedOnce
  <2> HIDE DEF f, placed, chunks
  <2> QED
    BY <2>1, <2>2 DEF Injection, IsInjective
<1> DEFINE a == Cardinality(all)
           b == Cardinality(Misplaced(t))
           d == Cardinality(chunks)
           e == Cardinality(placed)
<1>6. IsFiniteSet(chunks) /\ d \in Nat /\ Cardinality(Missing(t)) = NumChunks - d
  <2>1. chunks \in SUBSET Chunks
    BY <1>3
  <2> HIDE DEF chunks
  <2>2. IsFiniteSet(chunks)
    BY <1>2, <2>1, FS_Subset
  <2>3. Cardinality(Chunks \ chunks) = Cardinality(Chunks) - Cardinality(Chunks \cap chunks)
    BY <1>2, FS_Difference
  <2>4. Chunks \cap chunks = chunks
    BY <2>1
  <2> QED
    BY <1>2, <1>3, <2>2, <2>3, <2>4, FS_CardinalityType
<1>7. b \in Nat /\ e = a - b
  <2>1. Misplaced(t) \in SUBSET all
    BY <1>1
  <2> HIDE DEF all
  <2>2. IsFiniteSet(Misplaced(t))
    BY <1>1, <2>1, FS_Subset
  <2>3. e = Cardinality(all) - Cardinality(all \cap Misplaced(t))
    BY <1>1, FS_Difference
  <2>4. all \cap Misplaced(t) = Misplaced(t)
    BY <2>1
  <2> QED
    BY <2>2, <2>3, <2>4, FS_CardinalityType
<1>8. e <= d
  <2> HIDE DEF placed, chunks, f
  <2> QED
    BY <1>5, <1>6, FS_Injection
<1>9. a = NumChunks
  OBVIOUS
<1> HIDE DEF a, b, d, e
<1>10. NumChunks - d <= b
  BY <1>2, <1>6, <1>7, <1>8, <1>9
<1> QED
  BY <1>6, <1>10 DEF b

(* The contract settles a task when it has counted as many claims as there *)
(* are chunks (fed-learn.sol:164-178); for each chunk that nobody          *)
(* submitted there is a claim that came from another round's assignment or *)
(* from a repeated train command, for any number of rounds, trainers,      *)
(* chunks and train commands, and whatever leaves, losses and failures     *)
(* there are.                                                              *)
THEOREM MissingChunksHaveCauses == Spec => []MissingChunkHasCause
<1>1. TypeOK /\ Accounted /\ ChunkRewardedOnce => MissingChunkHasCause
  <2> SUFFICES ASSUME TypeOK, Accounted, ChunkRewardedOnce, NEW t \in Rounds,
                      phase[t] = "settled"
               PROVE  Cardinality(Missing(t)) <= Cardinality(Misplaced(t))
    BY DEF MissingChunkHasCause
  <2>1. /\ Cardinality(ClaimsOf(submissions, t)) + owed[t] = NumChunks /\ owed[t] = 0
        /\ IsFiniteSet(submissions)
    BY DEF Accounted, AccountOf, TypeOK
  <2>2. ClaimsOf(submissions, t) \in SUBSET submissions
    BY DEF ClaimsOf
  <2>3. IsFiniteSet(ClaimsOf(submissions, t))
    BY <2>1, <2>2, FS_Subset
  <2>4. Cardinality(ClaimsOf(submissions, t)) \in Nat
    BY <2>3, FS_CardinalityType
  <2>5. Cardinality(ClaimsOf(submissions, t)) = NumChunks
    BY <2>1, <2>4
  <2> QED
    BY <2>5, EnoughClaims
<1> QED
  BY <1>1, AccountedHolds, NoChunkRewardedTwice, TypeCorrect, PTL
=============================================================================
