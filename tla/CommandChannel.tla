--------------------------- MODULE CommandChannel ---------------------------
(***************************************************************************)
(* A node's command channel (src/p2p/coordinator.py): one bounded trio     *)
(* memory channel.  The receive loops, the prompt, the HTTP handlers and   *)
(* the start-up greeter send commands; command_executor is its only        *)
(* receiver, runs one command at a time, and, while it trains the chunks   *)
(* of an assign command, sends log messages into the very same channel.    *)
(* A sender that finds the channel full waits; the waiting senders are     *)
(* served in the order they came.                                          *)
(***************************************************************************)
EXTENDS Integers, Sequences

CONSTANTS Users,      \* prompt, HTTP handlers, greeter: send plain commands
          Receivers,  \* receive loops: forward assign commands
          Executor,   \* command_executor
          Capacity,   \* capacity of the channel (100 in the code)
          MaxChunks,  \* bound: chunks an assign command gives this node
          MaxLogs,    \* logs a chunk may send through the channel (5 in the code)
          MaxSends,   \* bound: commands a task sends
          MaxSent     \* bound: the commands the liveness properties follow

ASSUME ChannelAssumption ==
  /\ Executor \notin Users \cup Receivers
  /\ Users \cap Receivers = {}
  /\ Capacity \in Nat \ {0} /\ MaxChunks \in Nat
  /\ MaxLogs \in Nat \ {0} /\ MaxSends \in Nat /\ MaxSent \in Nat

VARIABLES buffer,     \* commands in the channel
          waiting,    \* senders parked on the full channel, first come first
          run,        \* the assign command being executed, and how far it is
          sends,      \* commands sent by each task
          sent,       \* history: every command given to send(), in order
          executed,   \* history: every command the executor took, in order
          completed   \* assign commands logged as "Completed"

vars == <<buffer, waiting, run, sends, sent, executed, completed>>

Tasks == Users \cup Receivers
Idle == [assign |-> "none"]

Init ==
  /\ buffer = <<>> /\ waiting = <<>>
  /\ run = Idle
  /\ sends = [p \in Tasks |-> 0]
  /\ sent = <<>> /\ executed = <<>>
  /\ completed = {}

Parked(task) == \E k \in 1..Len(waiting) : waiting[k].by = task

RoomForOneMore == Len(buffer) <= Capacity
Room == Len(buffer) < Capacity

(* MemorySendChannel.send. *)
Send(task, c) ==
  /\ ~Parked(task)
  /\ sent' = Append(sent, c)
  /\ IF Room
       THEN buffer' = Append(buffer, c) /\ UNCHANGED waiting
       ELSE waiting' = Append(waiting, [by |-> task, command |-> c]) /\ UNCHANGED buffer

SendCommand(p) ==
  /\ sends[p] < MaxSends
  /\ sends' = [sends EXCEPT ![p] = @ + 1]
  /\ IF p \in Users
       THEN Send(p, [cmd |-> "user", by |-> p, n |-> sends[p]])
       ELSE \E k \in 0..MaxChunks :
              Send(p, [cmd |-> "assign", by |-> p, n |-> sends[p], chunks |-> k])
  /\ UNCHANGED <<run, executed, completed>>

(* MemoryReceiveChannel.receive: the first command leaves the channel, the *)
(* first parked sender's command enters it.                                *)
NobodyEnters == UNCHANGED waiting /\ buffer' = Tail(buffer)
NextEnters ==
  IF waiting = <<>>
    THEN NobodyEnters
    ELSE /\ buffer' = Append(Tail(buffer), Head(waiting).command)
         /\ waiting' = Tail(waiting)

(* The executor goes for the next command once it is done with this one.   *)
ReadyAnyTime == TRUE
Ready == run = Idle

Started(c) == IF c.cmd = "assign" THEN [assign |-> c, chunk |-> 1, log |-> 1] ELSE Idle

Execute ==
  /\ Ready
  /\ buffer # <<>>
  /\ NextEnters
  /\ executed' = Append(executed, Head(buffer))
  /\ run' = Started(Head(buffer))
  /\ UNCHANGED <<sends, sent, completed>>

(* train_on_chunk sends the next log of the chunk; a failure, or the last  *)
(* log, ends the chunk.                                                    *)
Training == run # Idle /\ run.chunk <= run.assign.chunks

NextChunk(r) == [r EXCEPT !.chunk = @ + 1, !.log = 1]
AfterLog(r) ==
  IF r.log < MaxLogs THEN {[r EXCEPT !.log = @ + 1], NextChunk(r)} ELSE {NextChunk(r)}

SendLog ==
  /\ Training
  /\ Send(Executor, [cmd |-> "send-hcs", of |-> run.assign, chunk |-> run.chunk,
                     log |-> run.log])
  /\ run' \in AfterLog(run)
  /\ UNCHANGED <<sends, executed, completed>>

(* An exception of publish_on_chain, after at least one chunk. *)
AbortAssign ==
  /\ run # Idle /\ run.chunk > 1 /\ run.log = 1
  /\ ~Parked(Executor)
  /\ run' = Idle
  /\ UNCHANGED <<buffer, waiting, sends, sent, executed, completed>>

(* "Training on all assigned chunks and blockchain upload: Completed" goes *)
(* to the log topic directly, not through the channel.                     *)
Complete ==
  /\ run # Idle /\ ~Training
  /\ ~Parked(Executor)
  /\ completed' = completed \cup {run.assign}
  /\ run' = Idle
  /\ UNCHANGED <<buffer, waiting, sends, sent, executed>>

ExecutorStep == Execute \/ SendLog \/ AbortAssign \/ Complete

Next == (\E p \in Tasks : SendCommand(p)) \/ ExecutorStep

Spec == Init /\ [][Next]_vars

(* trio schedules every task that can run. *)
FairSpec == Spec /\ WF_vars(ExecutorStep)

-----------------------------------------------------------------------------
AssignCommand == [cmd: {"assign"}, by: Receivers, n: Nat, chunks: 0..MaxChunks]
Command == [cmd: {"user"}, by: Users, n: Nat] \cup AssignCommand
             \cup [cmd: {"send-hcs"}, of: AssignCommand, chunk: Nat, log: Nat]
Execution == {r \in [assign: AssignCommand, chunk: 1..(MaxChunks + 1), log: 1..MaxLogs] :
                r.chunk <= r.assign.chunks + 1}

(* The channel holds at most its capacity, a task waits at most once, and  *)
(* only while the channel is full.                                         *)
TypeOK ==
  /\ buffer \in Seq(Command) /\ sent \in Seq(Command) /\ executed \in Seq(Command)
  /\ waiting \in Seq([by: Tasks \cup {Executor}, command: Command])
  /\ Len(buffer) <= Capacity
  /\ waiting # <<>> => Len(buffer) = Capacity
  /\ \A j, k \in 1..Len(waiting) : waiting[j].by = waiting[k].by => j = k
  /\ sends \in [Tasks -> 0..MaxSends]
  /\ run \in {Idle} \cup Execution
  /\ completed \subseteq AssignCommand

(* machine_learning.py:68: there is nobody else to empty the channel: once *)
(* the executor waits on it, it waits for ever, and so do all the others.  *)
ParkedForEver == [][Parked(Executor) => Parked(Executor)' /\ executed' = executed]_vars

(* coordinator.py:290: a command sent is executed in the end, logs of the  *)
(* training included, unless the executor comes to wait on its own channel.*)
ExecutedUnlessParked ==
  \A k \in 1..MaxSent : Len(sent) >= k ~> Len(executed) >= k \/ Parked(Executor)

(* README.md:127: trainers "stream their state logs to a Hedera Consensus  *)
(* Topic in real time": what is sent is executed, without an unless.       *)
EverySentExecuted ==
  \A k \in 1..MaxSent : Len(sent) >= k ~> Len(executed) >= k
=============================================================================
