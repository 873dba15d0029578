----------------------------- MODULE Assignment -----------------------------
(***************************************************************************)
(* How a dataset becomes the trainers' work.  The dashboard cuts its rows  *)
(* into chunks of bounded size, uploads them and then a manifest of their  *)
(* urls (uploadDatasetInChunks, src/frontend/src/electron/akaveCli.ts); a  *)
(* round with that many chunks is paid for; the client node reads the      *)
(* manifest and deals the chunks out one by one (assign_chunks_to_nodes,   *)
(* src/p2p/machine_learning.py).                                           *)
(*                                                                         *)
(* A row is its number, a chunk the rows it holds and, in the shares, its  *)
(* position in the manifest.  The manifest of a dataset without rows would *)
(* split into one chunk with no url, but such a round cannot be paid for.  *)
(***************************************************************************)
EXTENDS RoundRobin, Integers, Sequences, FiniteSets, Functions

CONSTANTS Nodes,       \* peer ids of trainers
          MaxRows,     \* bound: rows of a dataset
          MaxRowSize,  \* bound: bytes of a row
          ChunkSize,   \* CHUNK_SIZE
          MaxFaults    \* bound: failed uploads

ASSUME AssignmentAssumption ==
  /\ MaxRows \in Nat /\ MaxRowSize \in Nat /\ ChunkSize \in Nat
  /\ MaxFaults \in Nat

VARIABLES sizes,        \* the sizes of the dataset's rows
          stage,
          pos,          \* rows read
          current, currentSize,
          chunks,       \* the chunks uploaded, in the order of chunkUrls
          faults,
          nodes,        \* the trainers of the channel, in the mesh summary's order
          numChunks,    \* chunks in the manifest
          i,            \* the enumerate counter, from 0
          assignments   \* node -> the chunks it was given

dataset == <<sizes, stage, pos, current, currentSize, chunks, faults>>
dealing == <<nodes, numChunks, i, assignments>>
vars == <<dataset, dealing>>

(* get_channel_nodes lists each peer once; cmd train stops on an empty list. *)
NodeLists ==
  UNION { {s \in [1..n -> Nodes] : \A j, k \in 1..n : s[j] = s[k] => j = k}
            : n \in 1..Cardinality(Nodes) }

Members == {nodes[k] : k \in 1..Len(nodes)}

Init ==
  /\ sizes \in UNION {[1..n -> 1..MaxRowSize] : n \in 0..MaxRows}
  /\ stage = "uploading"
  /\ pos = 0 /\ current = <<>> /\ currentSize = 0 /\ chunks = <<>>
  /\ faults = 0
  /\ nodes = <<>> /\ numChunks = 0 /\ i = 0
  /\ assignments = [n \in {} |-> <<>>]

-----------------------------------------------------------------------------
(* The upload.                                                             *)
OverflowsLate(size) == currentSize > ChunkSize /\ current # <<>>
Overflows(size) == currentSize + size > ChunkSize /\ current # <<>>

EmptyChunk(row) == current' = <<>> /\ currentSize' = 0
ChunkOf(row) == current' = <<row>> /\ currentSize' = sizes[row]

ReadRow ==
  /\ stage = "uploading" /\ pos < Len(sizes)
  /\ pos' = pos + 1
  /\ IF Overflows(sizes[pos + 1])
       THEN chunks' = Append(chunks, current) /\ ChunkOf(pos + 1)
       ELSE /\ current' = Append(current, pos + 1)
            /\ currentSize' = currentSize + sizes[pos + 1]
            /\ UNCHANGED chunks
  /\ UNCHANGED <<sizes, stage, faults, dealing>>

FinishUpload ==
  /\ stage = "uploading" /\ pos = Len(sizes)
  /\ stage' = "uploaded"
  /\ chunks' = IF current # <<>> THEN Append(chunks, current) ELSE chunks
  /\ current' = <<>> /\ currentSize' = 0
  /\ UNCHANGED <<sizes, pos, faults, dealing>>

(* An upload that fails ends the whole call; the user starts another one.  *)
KeepsUrls == UNCHANGED chunks
ForgetsUrls == chunks' = <<>>

UploadFails ==
  /\ stage = "uploading"
  /\ faults < MaxFaults /\ faults' = faults + 1
  /\ pos' = 0 /\ current' = <<>> /\ currentSize' = 0
  /\ ForgetsUrls
  /\ UNCHANGED <<sizes, stage, dealing>>

-----------------------------------------------------------------------------
(* The deal.  createTask refuses a task of no chunks.                      *)
StartDealing ==
  /\ stage = "uploaded" /\ chunks # <<>>
  /\ stage' = "dealing"
  /\ nodes' \in NodeLists
  /\ numChunks' = Len(chunks)
  /\ i' = 0
  /\ assignments' = [n \in Members' |-> <<>>]
  /\ UNCHANGED <<sizes, pos, current, currentSize, chunks, faults>>

(* The node whose turn it is. *)
TurnFromOne(seq, c) == seq[1 + ((c + 1) % Len(seq))]
Turn(seq, c) == seq[1 + (c % Len(seq))]

(* One chunk appended to a node's list. *)
GivenReplaces(n, chunk) == [assignments EXCEPT ![n] = <<chunk>>]
Given(n, chunk) == [assignments EXCEPT ![n] = Append(@, chunk)]

MoreOrLast == i <= numChunks
More == i < numChunks

GiveNext ==
  /\ stage = "dealing" /\ More
  /\ assignments' = Given(Turn(nodes, i), i + 1)
  /\ i' = i + 1
  /\ UNCHANGED <<dataset, nodes, numChunks>>

Next == ReadRow \/ FinishUpload \/ UploadFails \/ StartDealing \/ GiveNext

Spec == Init /\ [][Next]_vars

-----------------------------------------------------------------------------
TypeOK ==
  /\ sizes \in Seq(Nat)
  /\ stage \in {"uploading", "uploaded", "dealing"}
  /\ pos \in 0..Len(sizes)
  /\ current \in Seq(1..Len(sizes)) /\ currentSize \in Nat
  /\ chunks \in Seq(Seq(1..Len(sizes)) \ {<<>>})
  /\ faults \in 0..MaxFaults
  /\ nodes \in Seq(Nodes) /\ (stage = "dealing" => Len(nodes) > 0)
  /\ numChunks \in Nat
  /\ i \in 0..numChunks
  /\ assignments \in [Members -> Seq(Nat)]

(* Every one of 1..n is at exactly one place of one of the lists, and      *)
(* nothing else is in any of them.                                         *)
PlacedOnce(keys, lists, n) ==
  /\ \A k \in keys : \A j \in 1..Len(lists[k]) : lists[k][j] \in 1..n
  /\ \A c \in 1..n : \E k \in keys : \E j \in 1..Len(lists[k]) : lists[k][j] = c
  /\ \A k, l \in keys : \A j \in 1..Len(lists[k]), m \in 1..Len(lists[l]) :
       lists[k][j] = lists[l][m] => k = l /\ j = m

(* No chunk is lost or trained twice: the chunks dealt so far are each in  *)
(* exactly one share, at one place.                                        *)
DealtOnce == PlacedOnce(Members, assignments, i)

(* The loop computes the closed form the round model uses, which gives no  *)
(* trainer two chunks more than another.                                   *)
DealsShares ==
  \A k \in 1..Len(nodes) : assignments[nodes[k]] = Share(k, Len(nodes), i)

(* A chunk is within the limit unless one row alone exceeds it, and it was *)
(* closed only when the next row did not fit: the number of chunks, which  *)
(* the depositor pays for, is that of the greedy split.                    *)
SizeOf(rows) == SumFunction([j \in 1..Len(rows) |-> sizes[rows[j]]])

ChunksFit ==
  /\ \A k \in 1..Len(chunks) :
       Len(chunks[k]) = 1 \/ SizeOf(chunks[k]) <= ChunkSize
  /\ \A k \in 1..(Len(chunks) - 1) :
       SizeOf(chunks[k]) + sizes[Head(chunks[k + 1])] > ChunkSize

(* Rows that stay behind when a chunk is closed, a last chunk that is not  *)
(* full, an upload that failed in the middle: every row read is in one     *)
(* chunk, at one place, and once all chunks are dealt it is in the share   *)
(* of exactly one trainer.                                                 *)
Pieces == IF current = <<>> THEN chunks ELSE Append(chunks, current)

RowsKept == PlacedOnce(1..Len(Pieces), Pieces, pos)

(* The shares that hold row r. *)
TrainedBy(r) ==
  {n \in Members : \E j \in 1..Len(assignments[n]) :
     \E m \in 1..Len(chunks[assignments[n][j]]) : chunks[assignments[n][j]][m] = r}

EveryRowTrainedOnce ==
  /\ RowsKept
  /\ stage = "dealing" /\ ~More =>
       \A r \in 1..Len(sizes) : \E n \in Members : TrainedBy(r) = {n}
=============================================================================
