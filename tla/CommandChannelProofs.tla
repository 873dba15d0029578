------------------------ MODULE CommandChannelProofs ------------------------
(***************************************************************************)
(* For every capacity and any number of senders: the channel keeps within  *)
(* its bound, each sender waits at most once, and an executor that waits   *)
(* on its own channel waits for ever.                                      *)
(***************************************************************************)
EXTENDS CommandChannel, TLAPS

Waiter == [by: Tasks \cup {Executor}, command: Command]

-----------------------------------------------------------------------------
(* What a command may be.                                                  *)
LEMMA IdleIsNoExecution == Idle \notin Execution
<1> SUFFICES ASSUME Idle \in Execution PROVE FALSE
  OBVIOUS
<1>1. Idle \in [assign: AssignCommand, chunk: 1..(MaxChunks + 1), log: 1..MaxLogs]
  BY DEF Execution
<1>2. DOMAIN Idle = {"assign", "chunk", "log"} /\ DOMAIN Idle = {"assign"}
  BY <1>1 DEF Idle
<1> QED
  BY <1>2

LEMMA StartedIsRun ==
  ASSUME NEW c \in Command
  PROVE  Started(c) \in {Idle} \cup Execution
<1>1. CASE c.cmd = "assign"
  <2>1. c \in AssignCommand
    BY <1>1 DEF Command
  <2>2. c.chunks \in 0..MaxChunks
    BY <2>1 DEF AssignCommand
  <2>3. /\ 1 \in 1..(MaxChunks + 1) /\ 1 \in 1..MaxLogs
        /\ 1 <= c.chunks + 1
    BY <2>2, ChannelAssumption
  <2> QED
    BY <1>1, <2>1, <2>3 DEF Started, Execution
<1>2. CASE c.cmd # "assign"
  BY <1>2 DEF Started
<1> QED
  BY <1>1, <1>2

LEMMA AfterLogIsRun ==
  ASSUME NEW r \in Execution, r.chunk <= r.assign.chunks
  PROVE  AfterLog(r) \subseteq Execution
<1>1. /\ r.assign \in AssignCommand /\ r.chunk \in 1..(MaxChunks + 1)
      /\ r.log \in 1..MaxLogs /\ r.assign.chunks \in 0..MaxChunks
      /\ r = [assign |-> r.assign, chunk |-> r.chunk, log |-> r.log]
  BY DEF Execution, AssignCommand
<1>2. r.chunk + 1 \in 1..(MaxChunks + 1) /\ r.chunk + 1 <= r.assign.chunks + 1
  BY <1>1, ChannelAssumption
<1>3. NextChunk(r) = [assign |-> r.assign, chunk |-> r.chunk + 1, log |-> 1]
  <2>1. [r EXCEPT !.chunk = @ + 1] = [assign |-> r.assign, chunk |-> r.chunk + 1, log |-> r.log]
    BY <1>1
  <2>2. NextChunk(r) = [[r EXCEPT !.chunk = @ + 1] EXCEPT !.log = 1]
    BY DEF NextChunk
  <2> QED
    BY <2>1, <2>2
<1>4. 1 \in 1..MaxLogs
  BY ChannelAssumption
<1>5. NextChunk(r) \in Execution
  BY <1>1, <1>2, <1>3, <1>4 DEF Execution
<1>6. ASSUME r.log < MaxLogs PROVE [r EXCEPT !.log = @ + 1] \in Execution
  <2>1. r.log + 1 \in 1..MaxLogs
    BY <1>1, <1>6, ChannelAssumption
  <2>2. [r EXCEPT !.log = @ + 1] = [assign |-> r.assign, chunk |-> r.chunk, log |-> r.log + 1]
    BY <1>1
  <2>3. r.chunk <= r.assign.chunks + 1
    BY DEF Execution
  <2> QED
    BY <1>1, <2>1, <2>2, <2>3 DEF Execution
<1> QED
  BY <1>5, <1>6 DEF AfterLog

-----------------------------------------------------------------------------
(* The part of the type that a send and a receive may disturb.             *)
ChannelOK ==
  /\ buffer \in Seq(Command) /\ sent \in Seq(Command)
  /\ waiting \in Seq(Waiter)
  /\ Len(buffer) <= Capacity
  /\ waiting # <<>> => Len(buffer) = Capacity
  /\ \A j, k \in 1..Len(waiting) : waiting[j].by = waiting[k].by => j = k

LEMMA SendKeepsChannel ==
  ASSUME ChannelOK, NEW task \in Tasks \cup {Executor}, NEW c \in Command, Send(task, c)
  PROVE  ChannelOK'
<1>1. sent' \in Seq(Command)
  BY DEF Send, ChannelOK
<1>2. CASE Room
  <2>1. waiting = <<>>
    BY <1>2, ChannelAssumption DEF Room, ChannelOK
  <2>2. buffer' = Append(buffer, c) /\ waiting' = waiting
    BY <1>2 DEF Send
  <2>3. buffer' \in Seq(Command) /\ Len(buffer') = Len(buffer) + 1
    BY <2>2 DEF ChannelOK
  <2>4. Len(buffer') <= Capacity
    BY <1>2, <2>3, ChannelAssumption DEF Room, ChannelOK
  <2> QED
    BY <1>1, <2>1, <2>2, <2>3, <2>4 DEF ChannelOK
<1>3. CASE ~Room
  <2> DEFINE w == [by |-> task, command |-> c]
             n == Len(waiting) + 1
  <2>1. waiting' = Append(waiting, w) /\ buffer' = buffer
    BY <1>3 DEF Send
  <2>2. w \in Waiter /\ w.by = task
    BY DEF Waiter
  <2> HIDE DEF w
  <2>3. /\ waiting' \in Seq(Waiter) /\ Len(waiting') = n /\ waiting'[n] = w
        /\ \A k \in 1..Len(waiting) : waiting'[k] = waiting[k]
        /\ \A k \in 1..n : k = n \/ k \in 1..Len(waiting)
    BY <2>1, <2>2 DEF ChannelOK
  <2>4. Len(buffer) = Capacity
    BY <1>3, ChannelAssumption DEF Room, ChannelOK
  <2>5. \A k \in 1..Len(waiting) : waiting[k].by # task
    BY DEF Send, Parked
  <2>6. ASSUME NEW j \in 1..n, NEW k \in 1..n, waiting'[j].by = waiting'[k].by
        PROVE  j = k
    BY <2>2, <2>3, <2>5, <2>6 DEF ChannelOK
  <2> QED
    BY <1>1, <2>1, <2>3, <2>4, <2>6 DEF ChannelOK
<1> QED
  BY <1>2, <1>3

LEMMA ReceiveKeepsChannel ==
  ASSUME ChannelOK, buffer # <<>>, NextEnters, sent' = sent
  PROVE  ChannelOK'
<1>1. /\ Tail(buffer) \in Seq(Command) /\ Len(Tail(buffer)) = Len(buffer) - 1
      /\ Len(buffer) \in Nat \ {0}
  BY DEF ChannelOK
<1>2. CASE waiting = <<>>
  <2>1. buffer' = Tail(buffer) /\ waiting' = <<>>
    BY <1>2 DEF NextEnters, NobodyEnters
  <2>2. Len(buffer') <= Capacity
    <3>1. Len(buffer) <= Capacity /\ Capacity \in Nat
      BY ChannelAssumption DEF ChannelOK
    <3>2. Len(buffer') = Len(buffer) - 1
      BY <1>1, <2>1
    <3> QED
      BY <1>1, <3>1, <3>2
  <2>3. waiting' \in Seq(Waiter) /\ Len(waiting') = 0
    BY <2>1
  <2> QED
    BY <1>1, <2>1, <2>2, <2>3 DEF ChannelOK
<1>3. CASE waiting # <<>>
  <2>1. /\ buffer' = Append(Tail(buffer), Head(waiting).command)
        /\ waiting' = Tail(waiting)
    BY <1>3 DEF NextEnters
  <2>2. /\ Head(waiting) \in Waiter /\ Tail(waiting) \in Seq(Waiter)
        /\ Len(Tail(waiting)) = Len(waiting) - 1 /\ Len(waiting) \in Nat \ {0}
        /\ \A k \in 1..Len(Tail(waiting)) : Tail(waiting)[k] = waiting[k + 1]
    BY <1>3 DEF ChannelOK
  <2>3. Head(waiting).command \in Command
    BY <2>2 DEF Waiter
  <2>4. buffer' \in Seq(Command) /\ Len(buffer') = Len(buffer)
    BY <1>1, <2>1, <2>3
  <2>5. \A j, k \in 1..Len(Tail(waiting)) :
           Tail(waiting)[j].by = Tail(waiting)[k].by => j = k
    <3> SUFFICES ASSUME NEW j \in 1..Len(Tail(waiting)), NEW k \in 1..Len(Tail(waiting)),
                        Tail(waiting)[j].by = Tail(waiting)[k].by
                 PROVE  j = k
      OBVIOUS
    <3>1. j + 1 \in 1..Len(waiting) /\ k + 1 \in 1..Len(waiting)
      BY <2>2
    <3>2. waiting[j + 1].by = waiting[k + 1].by
      BY <2>2
    <3>3. j + 1 = k + 1
      BY <3>1, <3>2 DEF ChannelOK
    <3> QED
      BY <3>3
  <2>6. Len(buffer) = Capacity
    BY <1>3 DEF ChannelOK
  <2> QED
    BY <2>1, <2>2, <2>4, <2>5, <2>6, ChannelAssumption DEF ChannelOK
<1> QED
  BY <1>2, <1>3

(* The commands a task sends. *)
LEMMA SentByTask ==
  ASSUME TypeOK, NEW p \in Tasks, SendCommand(p)
  PROVE  \E c \in Command : Send(p, c)
<1>1. sends[p] \in Nat
  BY ChannelAssumption DEF TypeOK
<1>2. CASE p \in Users
  <2>1. [cmd |-> "user", by |-> p, n |-> sends[p]] \in Command
    BY <1>1, <1>2 DEF Command
  <2> QED
    BY <1>2, <2>1 DEF SendCommand
<1>3. CASE p \notin Users
  <2>1. PICK k \in 0..MaxChunks :
           Send(p, [cmd |-> "assign", by |-> p, n |-> sends[p], chunks |-> k])
    BY <1>3 DEF SendCommand
  <2>2. [cmd |-> "assign", by |-> p, n |-> sends[p], chunks |-> k] \in Command
    BY <1>1, <1>3 DEF Command, AssignCommand, Tasks
  <2> QED
    BY <2>1, <2>2
<1> QED
  BY <1>2, <1>3

LEMMA LogIsCommand ==
  ASSUME run \in Execution
  PROVE  [cmd |-> "send-hcs", of |-> run.assign, chunk |-> run.chunk, log |-> run.log]
           \in Command
<1>1. run.assign \in AssignCommand /\ run.chunk \in Nat /\ run.log \in Nat
  BY ChannelAssumption DEF Execution
<1> QED
  BY <1>1 DEF Command

(* The channel never exceeds its capacity, senders wait only while it is   *)
(* full, and each task once.                                               *)
THEOREM TypeCorrect == Spec => []TypeOK
<1>1. Init => TypeOK
  <2> SUFFICES ASSUME Init PROVE TypeOK
    OBVIOUS
  <2>1. sends \in [Tasks -> 0..MaxSends]
    BY ChannelAssumption DEF Init
  <2> QED
    BY <2>1, ChannelAssumption DEF Init, TypeOK
<1>2. TypeOK /\ [Next]_vars => TypeOK'
  <2> SUFFICES ASSUME TypeOK, [Next]_vars PROVE TypeOK'
    OBVIOUS
  <2>0. ChannelOK
    BY DEF TypeOK, ChannelOK, Waiter
  <2>1. ASSUME NEW p \in Tasks, SendCommand(p) PROVE TypeOK'
    <3>1. PICK c \in Command : Send(p, c)
      BY <2>1, SentByTask
    <3>2. ChannelOK'
      BY <2>0, <3>1, SendKeepsChannel
    <3>3. sends' \in [Tasks -> 0..MaxSends]
      BY <2>1, ChannelAssumption DEF SendCommand, TypeOK
    <3>4. run' = run /\ executed' = executed /\ completed' = completed
      BY <2>1 DEF SendCommand
    <3> QED
      BY <3>2, <3>3, <3>4 DEF TypeOK, ChannelOK, Waiter
  <2>2. CASE Execute
    <3>1. ChannelOK'
      BY <2>0, <2>2, ReceiveKeepsChannel DEF Execute
    <3>2. Head(buffer) \in Command
      BY <2>2 DEF Execute, TypeOK
    <3>3. executed' \in Seq(Command)
      BY <2>2, <3>2 DEF Execute, TypeOK
    <3>4. run' \in {Idle} \cup Execution
      BY <2>2, <3>2, StartedIsRun DEF Execute
    <3> QED
      BY <2>2, <3>1, <3>3, <3>4 DEF Execute, TypeOK, ChannelOK, Waiter
  <2>3. CASE SendLog
    <3>1. run \in Execution /\ run.chunk <= run.assign.chunks
      BY <2>3 DEF SendLog, Training, TypeOK
    <3>2. ChannelOK'
      BY <2>0, <2>3, <3>1, LogIsCommand, SendKeepsChannel DEF SendLog
    <3>3. run' \in Execution
      BY <2>3, <3>1, AfterLogIsRun DEF SendLog
    <3> QED
      BY <2>3, <3>2, <3>3 DEF SendLog, TypeOK, ChannelOK, Waiter
  <2>4. CASE AbortAssign
    BY <2>4 DEF AbortAssign, TypeOK
  <2>5. CASE Complete
    <3>1. run.assign \in AssignCommand
      BY <2>5 DEF Complete, TypeOK, Execution
    <3> QED
      BY <2>5, <3>1 DEF Complete, TypeOK
  <2>6. CASE UNCHANGED vars
    BY <2>6 DEF vars, TypeOK
  <2> QED
    BY <2>1, <2>2, <2>3, <2>4, <2>5, <2>6 DEF Next, ExecutorStep
<1> QED
  BY <1>1, <1>2, PTL DEF Spec

-----------------------------------------------------------------------------
(* The executor only sends while it runs an assign command.                *)
ParkedMeansBusy == Parked(Executor) => run # Idle

LEMMA BusyHolds == Spec => []ParkedMeansBusy
<1>1. Init => ParkedMeansBusy
  BY DEF Init, ParkedMeansBusy, Parked
<1>2. TypeOK /\ ParkedMeansBusy /\ [Next]_vars => ParkedMeansBusy'
  <2> SUFFICES ASSUME TypeOK, ParkedMeansBusy, [Next]_vars, Parked(Executor)'
               PROVE  run' # Idle
    BY DEF ParkedMeansBusy
  <2>1. ASSUME NEW p \in Tasks, SendCommand(p) PROVE run' # Idle
    <3>1. PICK c \in Command : Send(p, c)
      BY <2>1, SentByTask
    <3>2. run' = run /\ p # Executor
      BY <2>1, ChannelAssumption DEF SendCommand, Tasks
    <3>3. Parked(Executor)
      <4>1. CASE waiting' = waiting
        BY <4>1 DEF Parked
      <4>2. CASE waiting' = Append(waiting, [by |-> p, command |-> c])
        <5>1. PICK k \in 1..Len(waiting') : waiting'[k].by = Executor
          BY DEF Parked
        <5>2. waiting \in Seq(Waiter)
          BY DEF TypeOK, Waiter
        <5>3. [by |-> p, command |-> c].by = p
          OBVIOUS
        <5>4. k \in 1..Len(waiting) /\ waiting'[k] = waiting[k]
          BY <3>2, <4>2, <5>1, <5>2, <5>3
        <5> QED
          BY <5>1, <5>4 DEF Parked
      <4> QED
        BY <3>1, <4>1, <4>2 DEF Send
    <3> QED
      BY <3>2, <3>3 DEF ParkedMeansBusy
  <2>2. CASE SendLog
    <3>1. run \in Execution /\ run.chunk <= run.assign.chunks
      BY <2>2 DEF SendLog, Training, TypeOK
    <3>2. run' \in Execution
      BY <2>2, <3>1, AfterLogIsRun DEF SendLog
    <3> QED
      BY <3>2, IdleIsNoExecution
  <2>3. CASE Execute
    <3>1. Parked(Executor)
      <4>1. PICK k \in 1..Len(waiting') : waiting'[k].by = Executor
        BY DEF Parked
      <4>2. waiting \in Seq(Waiter)
        BY DEF TypeOK, Waiter
      <4>3. CASE waiting = <<>>
        BY <2>3, <4>1, <4>3 DEF Execute, NextEnters, NobodyEnters
      <4>4. CASE waiting # <<>>
        <5>1. waiting' = Tail(waiting)
          BY <2>3, <4>4 DEF Execute, NextEnters
        <5>2. k + 1 \in 1..Len(waiting) /\ waiting'[k] = waiting[k + 1]
          BY <4>1, <4>2, <4>4, <5>1
        <5> QED
          BY <4>1, <5>2 DEF Parked
      <4> QED
        BY <4>3, <4>4
    <3> QED
      BY <2>3, <3>1 DEF ParkedMeansBusy, Execute, Ready
  <2>4. CASE AbortAssign \/ Complete
    BY <2>4 DEF AbortAssign, Complete, Parked
  <2>5. CASE UNCHANGED vars
    BY <2>5 DEF vars, Parked, ParkedMeansBusy
  <2> QED
    BY <2>1, <2>2, <2>3, <2>4, <2>5 DEF Next, ExecutorStep
<1> QED
  BY <1>1, <1>2, TypeCorrect, PTL DEF Spec

(* An executor that waits on its own channel waits for ever, and no        *)
(* command is executed any more.                                           *)
THEOREM StuckForEver == Spec => ParkedForEver
<1>1. TypeOK /\ ParkedMeansBusy /\ [Next]_vars =>
        [Parked(Executor) => Parked(Executor)' /\ executed' = executed]_vars
  <2> SUFFICES ASSUME TypeOK, ParkedMeansBusy, Next, Parked(Executor)
               PROVE  Parked(Executor)' /\ executed' = executed
    OBVIOUS
  <2>1. ASSUME NEW p \in Tasks, SendCommand(p)
        PROVE  Parked(Executor)' /\ executed' = executed
    <3>1. PICK c \in Command : Send(p, c)
      BY <2>1, SentByTask
    <3>2. PICK k \in 1..Len(waiting) : waiting[k].by = Executor
      BY DEF Parked
    <3>3. waiting \in Seq(Waiter)
      BY DEF TypeOK, Waiter
    <3>4. k \in 1..Len(waiting') /\ waiting'[k] = waiting[k]
      <4>1. CASE waiting' = waiting
        BY <4>1
      <4>2. CASE waiting' = Append(waiting, [by |-> p, command |-> c])
        BY <3>3, <4>2
      <4> QED
        BY <3>1, <4>1, <4>2 DEF Send
    <3>5. Parked(Executor)'
      BY <3>2, <3>4 DEF Parked
    <3> QED
      BY <2>1, <3>5 DEF SendCommand
  <2>2. CASE ExecutorStep
    BY <2>2 DEF ExecutorStep, Execute, Ready, SendLog, Send, AbortAssign, Complete,
                ParkedMeansBusy
  <2> QED
    BY <2>1, <2>2 DEF Next
<1> QED
  BY <1>1, TypeCorrect, BusyHolds, PTL DEF Spec, ParkedForEver
=============================================================================
