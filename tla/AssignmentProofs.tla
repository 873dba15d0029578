-------------------------- MODULE AssignmentProofs --------------------------
(***************************************************************************)
(* No row is lost or trained twice between the dataset and the trainers,   *)
(* for every dataset, chunk size and list of trainers, and the round-robin *)
(* loop computes the closed form the round model uses.                     *)
(***************************************************************************)
EXTENDS Assignment, SumLemmas, TLAPS

(* The node whose turn it is is one of the trainers of the channel. *)
LEMMA TurnIsMember ==
  ASSUME nodes \in Seq(Nodes), Len(nodes) > 0, i \in Nat
  PROVE  Turn(nodes, i) \in Members
<1>1. Len(nodes) \in Nat /\ i % Len(nodes) \in 0..(Len(nodes) - 1)
  OBVIOUS
<1>2. 1 + (i % Len(nodes)) \in 1..Len(nodes)
  BY <1>1
<1> QED
  BY <1>2 DEF Turn, Members

(* A list of trainers is a sequence of nodes, and not empty. *)
LEMMA NodeListIsSeq ==
  ASSUME NEW s \in NodeLists
  PROVE  s \in Seq(Nodes) /\ Len(s) > 0
<1>1. PICK n \in 1..Cardinality(Nodes) : s \in [1..n -> Nodes]
  BY DEF NodeLists
<1> QED
  BY <1>1

(* The counters stay within the dataset and the manifest, the chunks hold  *)
(* rows of the dataset and none is empty.                                  *)
THEOREM TypeCorrect == Spec => []TypeOK
<1> USE DEF dataset, dealing
<1>1. Init => TypeOK
  <2> SUFFICES ASSUME Init PROVE TypeOK
    OBVIOUS
  <2>1. PICK n \in 0..MaxRows : sizes \in [1..n -> 1..MaxRowSize]
    BY DEF Init
  <2>2. sizes \in Seq(Nat)
    BY <2>1, AssignmentAssumption
  <2>3. pos \in 0..Len(sizes)
    BY <2>1, AssignmentAssumption DEF Init
  <2>4. nodes \in Seq(Nodes) /\ Members = {} /\ assignments \in [Members -> Seq(Nat)]
    BY DEF Init, Members
  <2>5. current \in Seq(1..Len(sizes)) /\ chunks \in Seq(Seq(1..Len(sizes)) \ {<<>>})
    BY DEF Init
  <2> QED
    BY <2>2, <2>3, <2>4, <2>5, AssignmentAssumption DEF Init, TypeOK
<1>2. TypeOK /\ [Next]_vars => TypeOK'
  <2> SUFFICES ASSUME TypeOK, [Next]_vars PROVE TypeOK'
    OBVIOUS
  <2>1. CASE ReadRow
    <3> DEFINE row == pos + 1
    <3>1. row \in 1..Len(sizes) /\ sizes[row] \in Nat /\ Len(sizes) \in Nat
      <4>1. sizes \in Seq(Nat) /\ pos \in 0..Len(sizes) /\ pos < Len(sizes)
        BY <2>1 DEF ReadRow, TypeOK
      <4> QED
        BY <4>1
    <3>2. sizes' = sizes /\ pos' = row
      BY <2>1 DEF ReadRow
    <3>3. CASE Overflows(sizes[row])
      <4>1. /\ chunks' = Append(chunks, current)
            /\ current' = <<row>> /\ currentSize' = sizes[row]
        BY <2>1, <3>3 DEF ReadRow, ChunkOf
      <4>2. chunks' \in Seq(Seq(1..Len(sizes)) \ {<<>>})
        BY <3>3, <4>1 DEF Overflows, TypeOK
      <4>3. current' \in Seq(1..Len(sizes)) /\ currentSize' \in Nat
        BY <3>1, <4>1
      <4> QED
        BY <2>1, <3>1, <3>2, <4>2, <4>3 DEF ReadRow, TypeOK, Members
    <3>4. CASE ~Overflows(sizes[row])
      <4>1. /\ chunks' = chunks
            /\ current' = Append(current, row) /\ currentSize' = currentSize + sizes[row]
        BY <2>1, <3>4 DEF ReadRow
      <4>2. current' \in Seq(1..Len(sizes))
        BY <3>1, <4>1 DEF TypeOK
      <4>3. currentSize' \in Nat
        <5>1. currentSize \in Nat
          BY DEF TypeOK
        <5> HIDE DEF row
        <5> QED
          BY <3>1, <4>1, <5>1
      <4> QED
        BY <2>1, <3>1, <3>2, <4>1, <4>2, <4>3 DEF ReadRow, TypeOK, Members
    <3> QED
      BY <3>3, <3>4
  <2>2. CASE FinishUpload
    <3>1. chunks' \in Seq(Seq(1..Len(sizes)) \ {<<>>})
      BY <2>2 DEF FinishUpload, TypeOK
    <3> QED
      BY <2>2, <3>1 DEF FinishUpload, TypeOK, Members
  <2>3. CASE UploadFails
    BY <2>3, AssignmentAssumption DEF UploadFails, ForgetsUrls, TypeOK, Members
  <2>4. CASE StartDealing
    <3>1. nodes' \in Seq(Nodes) /\ Len(nodes') > 0
      BY <2>4, NodeListIsSeq DEF StartDealing
    <3>2. assignments' \in [Members' -> Seq(Nat)]
      BY <2>4 DEF StartDealing
    <3>3. numChunks' \in Nat /\ i' \in 0..numChunks'
      BY <2>4 DEF StartDealing, TypeOK
    <3> QED
      BY <2>4, <3>1, <3>2, <3>3 DEF StartDealing, TypeOK
  <2>5. CASE GiveNext
    <3>1. nodes' = nodes /\ numChunks' = numChunks /\ i' = i + 1 /\ i < numChunks
      BY <2>5 DEF GiveNext, More
    <3>2. i + 1 \in Nat /\ Turn(nodes, i) \in Members
      BY <2>5, TurnIsMember DEF TypeOK, GiveNext
    <3>3. assignments' \in [Members -> Seq(Nat)]
      BY <2>5, <3>2 DEF GiveNext, Given, TypeOK
    <3> QED
      BY <2>5, <3>1, <3>3 DEF GiveNext, TypeOK, Members
  <2>6. CASE UNCHANGED vars
    BY <2>6 DEF vars, TypeOK, Members
  <2> QED
    BY <2>1, <2>2, <2>3, <2>4, <2>5, <2>6 DEF Next
<1> QED
  BY <1>1, <1>2, PTL DEF Spec

-----------------------------------------------------------------------------
(* The lists lists2 are lists with x put at one new place p of one list t, *)
(* which may be new.                                                       *)
AddedAt(keys, lists, keys2, lists2, t, p, x) ==
  /\ t \in keys2 /\ p \in 1..Len(lists2[t]) /\ lists2[t][p] = x
  /\ \A k \in keys : k \in keys2 /\ \A j \in 1..Len(lists[k]) :
       j \in 1..Len(lists2[k]) /\ lists2[k][j] = lists[k][j]
  /\ \A k \in keys2 : \A j \in 1..Len(lists2[k]) :
       (k = t /\ j = p) \/ (k \in keys /\ j \in 1..Len(lists[k]))

LEMMA AtOnePlace ==
  ASSUME NEW keys, NEW lists, NEW n, PlacedOnce(keys, lists, n)
  PROVE  \A k, l \in keys : \A j \in 1..Len(lists[k]), m \in 1..Len(lists[l]) :
           lists[k][j] = lists[l][m] => k = l /\ j = m
  BY DEF PlacedOnce

(* Putting n + 1 at one new place keeps every number at one place.         *)
LEMMA PlaceOneMore ==
  ASSUME NEW keys, NEW lists, NEW keys2, NEW lists2, NEW n \in Nat, NEW t, NEW p,
         PlacedOnce(keys, lists, n),
         AddedAt(keys, lists, keys2, lists2, t, p, n + 1)
  PROVE  PlacedOnce(keys2, lists2, n + 1)
<1> USE DEF AddedAt
<1>1. ASSUME NEW k \in keys2, NEW j \in 1..Len(lists2[k])
      PROVE  \/ k = t /\ j = p /\ lists2[k][j] = n + 1
             \/ /\ k \in keys /\ j \in 1..Len(lists[k])
                /\ lists2[k][j] = lists[k][j] /\ lists2[k][j] \in 1..n
  <2>1. CASE k = t /\ j = p
    BY <2>1
  <2>2. CASE k \in keys /\ j \in 1..Len(lists[k])
    <3>1. lists[k][j] \in 1..n
      BY <2>2 DEF PlacedOnce
    <3> QED
      BY <2>2, <3>1
  <2> QED
    BY <1>1, <2>1, <2>2
<1>2. \A k \in keys2 : \A j \in 1..Len(lists2[k]) : lists2[k][j] \in 1..(n + 1)
  BY <1>1
<1>3. ASSUME NEW c \in 1..(n + 1)
      PROVE  \E k \in keys2 : \E j \in 1..Len(lists2[k]) : lists2[k][j] = c
  <2>1. CASE c = n + 1
    BY <2>1
  <2>2. CASE c \in 1..n
    <3>1. PICK k \in keys : \E j \in 1..Len(lists[k]) : lists[k][j] = c
      BY <2>2 DEF PlacedOnce
    <3>2. PICK j \in 1..Len(lists[k]) : lists[k][j] = c
      BY <3>1
    <3>3. k \in keys2 /\ j \in 1..Len(lists2[k]) /\ lists2[k][j] = c
      BY <3>2
    <3> QED
      BY <3>3
  <2> QED
    BY <2>1, <2>2
<1>4. ASSUME NEW k \in keys2, NEW l \in keys2,
             NEW j \in 1..Len(lists2[k]), NEW m \in 1..Len(lists2[l]),
             lists2[k][j] = lists2[l][m]
      PROVE  k = l /\ j = m
  <2>1. n + 1 \notin 1..n
    OBVIOUS
  <2>2. CASE lists2[k][j] = n + 1
    BY <1>1, <1>4, <2>1, <2>2
  <2>3. CASE lists2[k][j] # n + 1
    <3>1. k \in keys /\ j \in 1..Len(lists[k]) /\ lists2[k][j] = lists[k][j]
      BY <1>1, <2>3
    <3>2. l \in keys /\ m \in 1..Len(lists[l]) /\ lists2[l][m] = lists[l][m]
      BY <1>1, <1>4, <2>3
    <3>3. lists[k][j] = lists[l][m]
      BY <1>4, <3>1, <3>2
    <3>4. \A a, b \in keys : \A x \in 1..Len(lists[a]), y \in 1..Len(lists[b]) :
             lists[a][x] = lists[b][y] => a = b /\ x = y
      BY DEF PlacedOnce
    <3> QED
      BY <3>1, <3>2, <3>3, <3>4
  <2> QED
    BY <2>2, <2>3
<1> QED
  BY <1>2, <1>3, <1>4 DEF PlacedOnce

(* Every chunk dealt so far was given to exactly one trainer, once. *)
THEOREM EveryChunkDealtOnce == Spec => []DealtOnce
<1> USE DEF dataset, dealing
<1>1. Init => DealtOnce
  BY DEF Init, DealtOnce, PlacedOnce, Members
<1>2. TypeOK /\ DealtOnce /\ [Next]_vars => DealtOnce'
  <2> SUFFICES ASSUME TypeOK, DealtOnce, [Next]_vars PROVE DealtOnce'
    OBVIOUS
  <2>1. CASE GiveNext
    <3>1. PICK t \in Members : t = Turn(nodes, i)
      BY <2>1, TurnIsMember DEF GiveNext, TypeOK
    <3>2. /\ i' = i + 1 /\ i \in Nat /\ Members' = Members
          /\ assignments' = [assignments EXCEPT ![t] = Append(@, i + 1)]
      BY <2>1, <3>1 DEF GiveNext, Given, TypeOK, Members
    <3>3. /\ assignments[t] \in Seq(Nat)
          /\ assignments'[t] = Append(assignments[t], i + 1)
          /\ \A n \in Members : n # t => assignments'[n] = assignments[n]
      BY <3>2 DEF TypeOK
    <3> DEFINE p == Len(assignments[t]) + 1
    <3>4. /\ Len(assignments'[t]) = p /\ p \in Nat \ {0}
          /\ assignments'[t][p] = i + 1
          /\ \A j \in 1..Len(assignments[t]) : assignments'[t][j] = assignments[t][j]
      BY <3>2, <3>3
    <3>5. ASSUME NEW n \in Members, NEW j \in 1..Len(assignments[n])
          PROVE  j \in 1..Len(assignments'[n]) /\ assignments'[n][j] = assignments[n][j]
      <4>1. CASE n = t
        BY <3>4, <4>1
      <4>2. CASE n # t
        BY <3>3, <4>2
      <4> QED
        BY <4>1, <4>2
    <3>6. ASSUME NEW n \in Members, NEW j \in 1..Len(assignments'[n])
          PROVE  (n = t /\ j = p) \/ j \in 1..Len(assignments[n])
      <4>1. CASE n = t
        BY <3>4, <4>1
      <4>2. CASE n # t
        BY <3>3, <4>2
      <4> QED
        BY <4>1, <4>2
    <3>7. PlacedOnce(Members, assignments', i + 1)
      <4>1. PlacedOnce(Members, assignments, i)
        BY DEF DealtOnce
      <4>2. AddedAt(Members, assignments, Members, assignments', t, p, i + 1)
        <5>1. p \in 1..Len(assignments'[t])
          BY <3>4
        <5> QED
          BY <3>4, <3>5, <3>6, <5>1 DEF AddedAt
      <4> HIDE DEF p
      <4> QED
        BY <3>2, <4>1, <4>2, PlaceOneMore
    <3>8. PlacedOnce(Members', assignments', i')
      BY <3>2, <3>7
    <3> QED
      BY <3>8 DEF DealtOnce, PlacedOnce
  <2>2. CASE StartDealing
    BY <2>2 DEF StartDealing, DealtOnce, PlacedOnce
  <2>3. CASE ReadRow \/ FinishUpload \/ UploadFails \/ UNCHANGED vars
    <3>1. Members' = Members /\ assignments' = assignments /\ i' = i
      BY <2>3 DEF ReadRow, FinishUpload, UploadFails, vars, Members
    <3> QED
      BY <3>1 DEF DealtOnce, PlacedOnce
  <2> QED
    BY <2>1, <2>2, <2>3 DEF Next
<1> QED
  BY <1>1, <1>2, TypeCorrect, PTL DEF Spec

-----------------------------------------------------------------------------
(* A row that opens a new piece. *)
LEMMA PlaceInNew ==
  ASSUME NEW lists \in Seq(Seq(Nat)), NEW n \in Nat,
         PlacedOnce(1..Len(lists), lists, n)
  PROVE  LET longer == Append(lists, <<n + 1>>)
         IN  PlacedOnce(1..Len(longer), longer, n + 1)
<1> DEFINE longer == Append(lists, <<n + 1>>)
           t == Len(lists) + 1
<1>1. /\ Len(longer) = t /\ t \in Nat /\ t \in 1..t
      /\ longer[t] = <<n + 1>>
      /\ \A k \in 1..Len(lists) : k \in 1..t /\ longer[k] = lists[k]
      /\ \A k \in 1..t : k = t \/ k \in 1..Len(lists)
  OBVIOUS
<1>2. Len(longer[t]) = 1 /\ longer[t][1] = n + 1 /\ 1..1 = {1}
  BY <1>1
<1> HIDE DEF longer, t
<1>3. AddedAt(1..Len(lists), lists, 1..Len(longer), longer, t, 1, n + 1)
  BY <1>1, <1>2 DEF AddedAt
<1>4. PlacedOnce(1..Len(longer), longer, n + 1)
  BY <1>3, PlaceOneMore
<1> QED
  BY <1>4 DEF longer

(* A row that is added to the last piece. *)
LEMMA PlaceInLast ==
  ASSUME NEW lists \in Seq(Seq(Nat)), NEW last \in Seq(Nat), NEW n \in Nat,
         LET all == Append(lists, last) IN PlacedOnce(1..Len(all), all, n)
  PROVE  LET longer == Append(lists, Append(last, n + 1))
         IN  PlacedOnce(1..Len(longer), longer, n + 1)
<1> DEFINE all == Append(lists, last)
           longer == Append(lists, Append(last, n + 1))
           t == Len(lists) + 1
           p == Len(last) + 1
<1>1. /\ Len(all) = t /\ all[t] = last /\ t \in Nat /\ t \in 1..t
      /\ \A k \in 1..Len(lists) : all[k] = lists[k]
  OBVIOUS
<1>2. /\ Len(longer) = t /\ longer[t] = Append(last, n + 1)
      /\ \A k \in 1..Len(lists) : longer[k] = lists[k]
  OBVIOUS
<1>3. \A k \in 1..t : k = t \/ k \in 1..Len(lists)
  OBVIOUS
<1>4. /\ Len(longer[t]) = p /\ p \in Nat /\ p \in 1..p
      /\ longer[t][p] = n + 1
      /\ \A j \in 1..Len(last) : j \in 1..p /\ longer[t][j] = last[j]
      /\ \A j \in 1..p : j = p \/ j \in 1..Len(last)
  BY <1>2
<1>5. PlacedOnce(1..Len(all), all, n)
  OBVIOUS
<1> HIDE DEF all, longer, t, p
<1>6. AddedAt(1..Len(all), all, 1..Len(longer), longer, t, p, n + 1)
  BY <1>1, <1>2, <1>3, <1>4 DEF AddedAt
<1>7. PlacedOnce(1..Len(longer), longer, n + 1)
  BY <1>5, <1>6, PlaceOneMore
<1> QED
  BY <1>7 DEF longer

(* What is left in the chunk being filled, and what is being dealt. *)
Progress ==
  /\ stage # "uploading" => current = <<>> /\ pos = Len(sizes)
  /\ stage = "dealing" => numChunks = Len(chunks)

LEMMA ProgressHolds == Spec => []Progress
<1> USE DEF dataset, dealing
<1>1. Init => Progress
  BY DEF Init, Progress
<1>2. TypeOK /\ Progress /\ [Next]_vars => Progress'
  <2> SUFFICES ASSUME TypeOK, Progress, [Next]_vars PROVE Progress'
    OBVIOUS
  <2>1. CASE ReadRow
    BY <2>1 DEF ReadRow, Progress
  <2>2. CASE FinishUpload
    BY <2>2 DEF FinishUpload, Progress
  <2>3. CASE UploadFails
    BY <2>3 DEF UploadFails, Progress
  <2>4. CASE StartDealing
    BY <2>4 DEF StartDealing, Progress
  <2>5. CASE GiveNext \/ UNCHANGED vars
    BY <2>5 DEF GiveNext, vars, Progress
  <2> QED
    BY <2>1, <2>2, <2>3, <2>4, <2>5 DEF Next
<1> QED
  BY <1>1, <1>2, TypeCorrect, PTL DEF Spec

(* Every row read is in exactly one piece, at one place.                   *)
LEMMA RowsKeptHolds == Spec => []RowsKept
<1> USE DEF dataset, dealing
<1>1. Init => RowsKept
  BY DEF Init, RowsKept, PlacedOnce, Pieces
<1>2. TypeOK /\ Progress /\ RowsKept /\ [Next]_vars => RowsKept'
  <2> SUFFICES ASSUME TypeOK, Progress, RowsKept, [Next]_vars PROVE RowsKept'
    OBVIOUS
  <2>1. CASE ReadRow
    <3>1. /\ chunks \in Seq(Seq(Nat)) /\ current \in Seq(Nat) /\ pos \in Nat
          /\ Len(sizes) \in Nat
      <4>1. 1..Len(sizes) \subseteq Nat
        OBVIOUS
      <4>2. Seq(1..Len(sizes)) \subseteq Seq(Nat)
        BY <4>1
      <4>3. Seq(Seq(1..Len(sizes)) \ {<<>>}) \subseteq Seq(Seq(Nat))
        BY <4>2
      <4> QED
        BY <4>2, <4>3 DEF TypeOK
    <3>2. pos' = pos + 1
      BY <2>1 DEF ReadRow
    <3>3. PlacedOnce(1..Len(Pieces), Pieces, pos)
      BY DEF RowsKept
    <3>4. CASE current = <<>>
      <4>1. Pieces = chunks
        BY <3>4 DEF Pieces
      <4>2. Pieces' = Append(chunks, <<pos + 1>>)
        BY <2>1, <3>4 DEF ReadRow, Overflows, Pieces
      <4>3. LET longer == Append(chunks, <<pos + 1>>)
            IN  PlacedOnce(1..Len(longer), longer, pos + 1)
        BY <3>1, <3>3, <4>1, PlaceInNew
      <4>4. PlacedOnce(1..Len(Pieces'), Pieces', pos')
        BY <3>2, <4>2, <4>3
      <4> QED
        BY <4>4 DEF RowsKept, PlacedOnce
    <3>5. CASE current # <<>> /\ Overflows(sizes[pos + 1])
      <4>1. Pieces = Append(chunks, current)
        BY <3>5 DEF Pieces
      <4>2. Pieces' = Append(Append(chunks, current), <<pos + 1>>)
        <5>1. current' = <<pos + 1>> /\ chunks' = Append(chunks, current)
          BY <2>1, <3>5 DEF ReadRow, ChunkOf
        <5>2. <<pos + 1>> # <<>>
          OBVIOUS
        <5> QED
          BY <5>1, <5>2 DEF Pieces
      <4>3. LET longer == Append(Append(chunks, current), <<pos + 1>>)
            IN  PlacedOnce(1..Len(longer), longer, pos + 1)
        <5>1. Append(chunks, current) \in Seq(Seq(Nat))
          BY <3>1
        <5> QED
          BY <3>1, <3>3, <4>1, <5>1, PlaceInNew
      <4>4. PlacedOnce(1..Len(Pieces'), Pieces', pos')
        BY <3>2, <4>2, <4>3
      <4> QED
        BY <4>4 DEF RowsKept, PlacedOnce
    <3>6. CASE current # <<>> /\ ~Overflows(sizes[pos + 1])
      <4>1. Pieces = Append(chunks, current)
        BY <3>6 DEF Pieces
      <4>2. current' = Append(current, pos + 1) /\ chunks' = chunks
        BY <2>1, <3>6 DEF ReadRow
      <4>3. Append(current, pos + 1) # <<>>
        <5>1. Len(Append(current, pos + 1)) = Len(current) + 1 /\ Len(current) \in Nat
          BY <3>1
        <5> QED
          BY <5>1
      <4>4. Pieces' = Append(chunks, Append(current, pos + 1))
        BY <4>2, <4>3 DEF Pieces
      <4>5. LET longer == Append(chunks, Append(current, pos + 1))
            IN  PlacedOnce(1..Len(longer), longer, pos + 1)
        BY <3>1, <3>3, <4>1, PlaceInLast
      <4>6. PlacedOnce(1..Len(Pieces'), Pieces', pos')
        BY <3>2, <4>4, <4>5
      <4> QED
        BY <4>6 DEF RowsKept, PlacedOnce
    <3> QED
      BY <3>4, <3>5, <3>6
  <2>2. CASE FinishUpload
    <3>1. Pieces' = Pieces /\ pos' = pos
      BY <2>2 DEF FinishUpload, Pieces
    <3> QED
      BY <3>1 DEF RowsKept, PlacedOnce
  <2>3. CASE UploadFails
    BY <2>3 DEF UploadFails, ForgetsUrls, RowsKept, PlacedOnce, Pieces
  <2>4. CASE StartDealing \/ GiveNext \/ UNCHANGED vars
    <3>1. Pieces' = Pieces /\ pos' = pos
      BY <2>4 DEF StartDealing, GiveNext, vars, Pieces
    <3> QED
      BY <3>1 DEF RowsKept, PlacedOnce
  <2> QED
    BY <2>1, <2>2, <2>3, <2>4 DEF Next
<1> QED
  BY <1>1, <1>2, TypeCorrect, ProgressHolds, PTL DEF Spec

(* Whatever the sizes of the rows, failed uploads and the number of        *)
(* trainers: every row is trained by exactly one trainer.                  *)
THEOREM RowsTrainedOnce == Spec => []EveryRowTrainedOnce
<1>1. TypeOK /\ Progress /\ RowsKept /\ DealtOnce => EveryRowTrainedOnce
  <2> SUFFICES ASSUME TypeOK, Progress, RowsKept, DealtOnce,
                      stage = "dealing", ~More, NEW r \in 1..Len(sizes)
               PROVE  \E n \in Members : TrainedBy(r) = {n}
    BY DEF EveryRowTrainedOnce
  <2>1. pos = Len(sizes) /\ Pieces = chunks /\ i = Len(chunks)
    <3>1. i \in 0..numChunks /\ numChunks \in Nat /\ ~(i < numChunks)
      BY DEF TypeOK, More
    <3> QED
      BY <3>1 DEF Progress, Pieces
  <2>2. PICK k \in 1..Len(chunks) : \E m \in 1..Len(chunks[k]) : chunks[k][m] = r
    BY <2>1 DEF RowsKept, PlacedOnce
  <2>3. PICK n \in Members : \E j \in 1..Len(assignments[n]) : assignments[n][j] = k
    BY <2>1, <2>2 DEF DealtOnce, PlacedOnce
  <2>4. n \in TrainedBy(r)
    BY <2>2, <2>3 DEF TrainedBy
  <2>5. ASSUME NEW p \in TrainedBy(r) PROVE p = n
    <3>1. p \in Members
      BY DEF TrainedBy
    <3>2. PICK j \in 1..Len(assignments[p]) :
             \E m \in 1..Len(chunks[assignments[p][j]]) : chunks[assignments[p][j]][m] = r
      BY DEF TrainedBy
    <3>3. assignments[p][j] \in 1..Len(chunks)
      BY <2>1, <3>1 DEF DealtOnce, PlacedOnce
    <3>4. assignments[p][j] = k
      <4>1. \A a, b \in 1..Len(chunks) :
              \A x \in 1..Len(chunks[a]), y \in 1..Len(chunks[b]) :
                 chunks[a][x] = chunks[b][y] => a = b /\ x = y
        <5>1. PlacedOnce(1..Len(chunks), chunks, pos)
          BY <2>1, Zenon DEF RowsKept
        <5> QED
          BY <5>1, AtOnePlace
      <4> QED
        <5>1. PICK q \in 1..Len(chunks) : q = assignments[p][j]
          BY <3>3
        <5>2. PICK m \in 1..Len(chunks[q]) : chunks[q][m] = r
          BY <3>2, <5>1
        <5>3. PICK m2 \in 1..Len(chunks[k]) : chunks[k][m2] = r
          BY <2>2
        <5>4. q = k
          BY <4>1, <5>2, <5>3
        <5> QED
          BY <5>1, <5>4
    <3>5. PICK l \in 1..Len(assignments[n]) : assignments[n][l] = k
      BY <2>3
    <3>6. \A a, b \in Members :
            \A x \in 1..Len(assignments[a]), y \in 1..Len(assignments[b]) :
               assignments[a][x] = assignments[b][y] => a = b /\ x = y
      BY DEF DealtOnce, PlacedOnce
    <3> QED
      BY <3>1, <3>4, <3>5, <3>6
  <2>6. TrainedBy(r) = {n}
    BY <2>4, <2>5
  <2> QED
    BY <2>6
<1> QED
  BY <1>1, TypeCorrect, ProgressHolds, RowsKeptHolds, EveryChunkDealtOnce, PTL

-----------------------------------------------------------------------------
(* The size of a chunk, a row at a time. *)
LEMMA SizeOfRow ==
  ASSUME sizes \in Seq(Nat), NEW row \in 1..Len(sizes)
  PROVE  SizeOf(<<row>>) = sizes[row]
<1> DEFINE w == [j \in {1} |-> sizes[row]]
<1>1. SizeOf(<<row>>) = SumFunction(w)
  <2>1. 1..Len(<<row>>) = {1}
    OBVIOUS
  <2>2. [j \in 1..Len(<<row>>) |-> sizes[<<row>>[j]]] = w
    BY <2>1
  <2> QED
    BY <2>2 DEF SizeOf
<1>2. w \in [{1} -> Nat] /\ w[1] = sizes[row] /\ sizes[row] \in Nat
  OBVIOUS
<1>3. SumFunction(w) = w[1] + SumFunction([j \in {1} \ {1} |-> w[j]])
  <2> DEFINE S == {1}
  <2>1. IsFiniteSet(S) /\ 1 \in S /\ w \in [S -> Nat]
    BY <1>2, FS_Singleton
  <2> HIDE DEF w, S
  <2>2. \A x \in S : SumFunction(w) = w[x] + SumFunction([j \in S \ {x} |-> w[j]])
    BY <2>1, SumWithout
  <2> QED
    BY <2>1, <2>2 DEF S
<1>4. SumFunction([j \in {1} \ {1} |-> w[j]]) = 0
  <2>1. [j \in {1} \ {1} |-> w[j]] \in [{} -> Nat]
    OBVIOUS
  <2> HIDE DEF w
  <2> QED
    BY <2>1, SumOfNothing
<1> QED
  BY <1>1, <1>2, <1>3, <1>4

LEMMA SizeOfLonger ==
  ASSUME sizes \in Seq(Nat), NEW rows \in Seq(1..Len(sizes)), NEW row \in 1..Len(sizes)
  PROVE  /\ SizeOf(rows) \in Nat
         /\ SizeOf(Append(rows, row)) = SizeOf(rows) + sizes[row]
<1> DEFINE n == Len(rows)
           longer == Append(rows, row)
           w == [j \in 1..(n + 1) |-> sizes[longer[j]]]
           v == [j \in 1..n |-> sizes[rows[j]]]
<1>1. /\ n \in Nat /\ Len(longer) = n + 1 /\ longer[n + 1] = row
      /\ \A j \in 1..n : longer[j] = rows[j] /\ rows[j] \in 1..Len(sizes)
      /\ sizes[row] \in Nat
  <2>1. n \in Nat /\ Len(longer) = n + 1 /\ longer[n + 1] = row
    OBVIOUS
  <2>2. \A j \in 1..n : longer[j] = rows[j]
    OBVIOUS
  <2>3. \A j \in 1..n : rows[j] \in 1..Len(sizes)
    OBVIOUS
  <2>4. sizes[row] \in Nat
    OBVIOUS
  <2> QED
    BY <2>1, <2>2, <2>3, <2>4
<1>2. \A j \in 1..(n + 1) : j = n + 1 \/ j \in 1..n
  <2>1. n \in Nat
    BY <1>1
  <2> HIDE DEF n
  <2> QED
    BY <2>1
<1>3. n + 1 \in 1..(n + 1) /\ (1..(n + 1)) \ {n + 1} = 1..n
  <2>1. n \in Nat
    BY <1>1
  <2> HIDE DEF n
  <2> QED
    BY <2>1
<1>4. w \in [1..(n + 1) -> Nat] /\ v \in [1..n -> Nat] /\ w[n + 1] = sizes[row]
  <2> HIDE DEF n, longer, w, v
  <2>1. \A j \in 1..n : sizes[rows[j]] \in Nat
    <3> TAKE j \in 1..n
    <3> DEFINE r == rows[j]
    <3>1. r \in 1..Len(sizes)
      BY <1>1
    <3> HIDE DEF r
    <3>2. sizes[r] \in Nat
      BY <3>1
    <3> QED
      BY <3>2 DEF r
  <2>2. \A j \in 1..n : sizes[longer[j]] \in Nat
    BY <1>1, <2>1
  <2>3. sizes[longer[n + 1]] \in Nat
    BY <1>1
  <2>4. \A j \in 1..(n + 1) : sizes[longer[j]] \in Nat
    BY <1>2, <2>2, <2>3
  <2> USE DEF w, v
  <2> QED
    BY <1>1, <1>3, <2>1, <2>4
<1>5. [j \in (1..(n + 1)) \ {n + 1} |-> w[j]] = v
  <2> HIDE DEF n, longer
  <2> QED
    BY <1>1, <1>3
<1>6. IsFiniteSet(1..(n + 1)) /\ IsFiniteSet(1..n)
  BY <1>1, FS_Interval
<1>7. SizeOf(longer) = SumFunction(w) /\ SizeOf(rows) = SumFunction(v)
  <2>1. 1..Len(longer) = 1..(n + 1)
    BY <1>1
  <2>2. [j \in 1..Len(longer) |-> sizes[longer[j]]] = w
    <3> HIDE DEF longer, n
    <3> QED
      BY <2>1
  <2> QED
    BY <2>2 DEF SizeOf
<1> HIDE DEF n, longer, w, v
<1>8. SumFunction(w) = w[n + 1] + SumFunction(v)
  <2>1. \A x \in 1..(n + 1) : SumFunction(w)
          = w[x] + SumFunction([j \in (1..(n + 1)) \ {x} |-> w[j]])
    BY <1>4, <1>6, SumWithout
  <2>2. SumFunction(w)
          = w[n + 1] + SumFunction([j \in (1..(n + 1)) \ {n + 1} |-> w[j]])
    BY <1>3, <2>1
  <2> QED
    BY <1>5, <2>2
<1>9. SumFunction(v) \in Nat
  BY <1>4, <1>6, SumType
<1>10. SizeOf(longer) = SizeOf(rows) + sizes[row]
  BY <1>1, <1>4, <1>7, <1>8, <1>9
<1> QED
  BY <1>7, <1>9, <1>10 DEF longer

(* The chunk being filled: its size is the counter's, it keeps the limit    *)
(* unless it is a single row, it is empty only before the first row, and    *)
(* the chunk before it was closed because its first row did not fit.        *)
Filling ==
  /\ currentSize = SizeOf(current)
  /\ current # <<>> => Len(current) = 1 \/ currentSize <= ChunkSize
  /\ stage = "uploading" /\ current = <<>> => chunks = <<>>
  /\ current # <<>> /\ chunks # <<>> =>
       SizeOf(chunks[Len(chunks)]) + sizes[Head(current)] > ChunkSize

LEMMA SizeOfNoRow == SizeOf(<<>>) = 0
<1>1. [j \in 1..Len(<<>>) |-> sizes[<<>>[j]]] \in [{} -> Nat]
  OBVIOUS
<1> QED
  BY <1>1, SumOfNothing DEF SizeOf

(* Closing the chunk being filled. *)
LEMMA CloseChunk ==
  ASSUME TypeOK, Filling, ChunksFit, current # <<>>, chunks' = Append(chunks, current),
         sizes' = sizes
  PROVE  ChunksFit'
<1> DEFINE n == Len(chunks)
           longer == Append(chunks, current)
<1>1. /\ chunks \in Seq(Seq(1..Len(sizes)) \ {<<>>}) /\ n \in Nat
      /\ Len(longer) = n + 1 /\ longer[n + 1] = current
      /\ \A k \in 1..n : longer[k] = chunks[k]
  BY DEF TypeOK
<1>2. ASSUME NEW k \in 1..(n + 1)
      PROVE  Len(longer[k]) = 1 \/ SizeOf(longer[k]) <= ChunkSize
  <2>1. CASE k = n + 1
    BY <1>1, <2>1 DEF Filling
  <2>2. CASE k # n + 1
    <3>1. k \in 1..n
      BY <1>1, <1>2, <2>2
    <3> QED
      BY <1>1, <3>1 DEF ChunksFit
  <2> QED
    BY <2>1, <2>2
<1>3. ASSUME NEW k \in 1..n
      PROVE  SizeOf(longer[k]) + sizes[Head(longer[k + 1])] > ChunkSize
  <2>1. CASE k = n
    <3>1. chunks # <<>>
      BY <1>1, <1>3
    <3>2. longer[k] = chunks[Len(chunks)] /\ longer[k + 1] = current
      BY <1>1, <1>3, <2>1
    <3> QED
      BY <3>1, <3>2 DEF Filling
  <2>2. CASE k # n
    <3>1. k \in 1..(n - 1) /\ k + 1 \in 1..n
      BY <1>1, <1>3, <2>2
    <3>2. longer[k] = chunks[k] /\ longer[k + 1] = chunks[k + 1]
      BY <1>1, <1>3, <3>1
    <3> QED
      BY <3>1, <3>2 DEF ChunksFit
  <2> QED
    BY <2>1, <2>2
<1>4. chunks' = longer /\ Len(chunks') = n + 1 /\ (n + 1) - 1 = n
  BY <1>1
<1>5. \A rows : SizeOf(rows)' = SizeOf(rows)
  BY DEF SizeOf
<1> HIDE DEF n, longer
<1>6. \A k \in 1..Len(chunks') :
        Len(chunks'[k]) = 1 \/ SizeOf(chunks'[k]) <= ChunkSize
  BY <1>2, <1>4
<1>7. \A k \in 1..(Len(chunks') - 1) :
        SizeOf(chunks'[k]) + sizes[Head(chunks'[k + 1])] > ChunkSize
  BY <1>3, <1>4
<1> QED
  BY <1>5, <1>6, <1>7 DEF ChunksFit, SizeOf

LEMMA FillingInductive ==
  TypeOK /\ Progress /\ Filling /\ ChunksFit /\ [Next]_vars => Filling' /\ ChunksFit'
<1> USE DEF dataset, dealing
<1> SUFFICES ASSUME TypeOK, Progress, Filling, ChunksFit, [Next]_vars
             PROVE  Filling' /\ ChunksFit'
  OBVIOUS
<1>1. sizes \in Seq(Nat) /\ current \in Seq(1..Len(sizes)) /\ currentSize \in Nat
  BY DEF TypeOK
<1>2. CASE ReadRow
  <2> DEFINE row == pos + 1
  <2>1. row \in 1..Len(sizes) /\ sizes[row] \in Nat
    <3>1. pos \in 0..Len(sizes) /\ pos < Len(sizes) /\ Len(sizes) \in Nat
      BY <1>1, <1>2 DEF ReadRow, TypeOK
    <3> QED
      BY <1>1, <3>1
  <2>2. sizes' = sizes /\ stage' = stage
    BY <1>2 DEF ReadRow
  <2>3. CASE Overflows(sizes[row])
    <3>1. /\ chunks' = Append(chunks, current)
          /\ current' = <<row>> /\ currentSize' = sizes[row] /\ current # <<>>
      BY <1>2, <2>3 DEF ReadRow, ChunkOf, Overflows
    <3>2. ChunksFit'
      BY <2>2, <3>1, CloseChunk
    <3>3. currentSize' = SizeOf(current')
      <4> HIDE DEF row
      <4> QED
        BY <1>1, <2>1, <3>1, SizeOfRow
    <3>4. current' # <<>> /\ Len(current') = 1 /\ Head(current') = row
      BY <3>1
    <3>5. chunks'[Len(chunks')] = current
      BY <3>1 DEF TypeOK
    <3>6. SizeOf(current) + sizes[row] > ChunkSize
      BY <2>3 DEF Overflows, Filling
    <3>7. \A rows : SizeOf(rows)' = SizeOf(rows)
      BY <2>2 DEF SizeOf
    <3>8. SizeOf(current)' = SizeOf(current')
      BY <2>2 DEF SizeOf
    <3>9. SizeOf(chunks[Len(chunks)])' = SizeOf(current)
      BY <2>2, <3>5 DEF SizeOf
    <3> HIDE DEF row
    <3>10. Filling'
      BY <2>2, <3>3, <3>4, <3>6, <3>8, <3>9 DEF Filling
    <3> QED
      BY <3>2, <3>10
  <2>4. CASE ~Overflows(sizes[row])
    <3>1. /\ chunks' = chunks
          /\ current' = Append(current, row) /\ currentSize' = currentSize + sizes[row]
      BY <1>2, <2>4 DEF ReadRow
    <3>2. ChunksFit'
      BY <2>2, <3>1 DEF ChunksFit, SizeOf
    <3>3. currentSize' = SizeOf(current') /\ SizeOf(current)' = SizeOf(current')
      <4>1. SizeOf(current)' = SizeOf(current')
        BY <2>2 DEF SizeOf
      <4>2. SizeOf(Append(current, row)) = SizeOf(current) + sizes[row]
        <5> HIDE DEF row
        <5> QED
          BY <1>1, <2>1, SizeOfLonger
      <4> QED
        BY <3>1, <4>1, <4>2 DEF Filling
    <3>4. current' # <<>> /\ Len(current') = Len(current) + 1 /\ Len(current) \in Nat
      <4>1. Len(current') = Len(current) + 1 /\ Len(current) \in Nat
        BY <1>1, <3>1
      <4> QED
        BY <4>1
    <3>5. SizeOf(chunks[Len(chunks)])' = SizeOf(chunks[Len(chunks)])
      BY <2>2, <3>1 DEF SizeOf
    <3>6. CASE current = <<>>
      <4>1. chunks' = <<>> /\ Len(current') = 1
        BY <1>2, <3>1, <3>4, <3>6 DEF Filling, ReadRow
      <4> QED
        BY <3>2, <3>3, <3>4, <4>1 DEF Filling
    <3>7. CASE current # <<>>
      <4>1. currentSize' <= ChunkSize
        <5>1. currentSize \in Nat /\ ChunkSize \in Nat /\ sizes[row] \in Nat
          BY <1>1, <2>1, AssignmentAssumption
        <5>2. ~(currentSize + sizes[row] > ChunkSize)
          BY <2>4, <3>7 DEF Overflows
        <5> HIDE DEF row
        <5> QED
          BY <3>1, <5>1, <5>2
      <4>2. Head(current') = Head(current)
        BY <1>1, <3>1, <3>7
      <4> HIDE DEF row
      <4> QED
        BY <2>2, <3>1, <3>2, <3>3, <3>4, <3>5, <3>7, <4>1, <4>2 DEF Filling
    <3> QED
      BY <3>6, <3>7
  <2> QED
    BY <2>3, <2>4
<1>3. CASE FinishUpload
  <2>1. sizes' = sizes /\ stage' = "uploaded" /\ current' = <<>> /\ currentSize' = 0
    BY <1>3 DEF FinishUpload
  <2>2. Filling'
    <3>1. SizeOf(current)' = SizeOf(<<>>)
      BY <2>1 DEF SizeOf
    <3> QED
      BY <2>1, <3>1, SizeOfNoRow DEF Filling
  <2>3. CASE current # <<>>
    <3>1. chunks' = Append(chunks, current)
      BY <1>3, <2>3 DEF FinishUpload
    <3> QED
      BY <2>1, <2>2, <2>3, <3>1, CloseChunk
  <2>4. CASE current = <<>>
    BY <1>3, <2>1, <2>2, <2>4 DEF FinishUpload, ChunksFit, SizeOf
  <2> QED
    BY <2>3, <2>4
<1>4. CASE UploadFails
  <2>1. sizes' = sizes /\ chunks' = <<>> /\ current' = <<>> /\ currentSize' = 0
    BY <1>4 DEF UploadFails, ForgetsUrls
  <2>2. SizeOf(current)' = SizeOf(<<>>)
    BY <2>1 DEF SizeOf
  <2> QED
    BY <2>1, <2>2, SizeOfNoRow DEF Filling, ChunksFit
<1>5. CASE StartDealing
  <2>1. /\ UNCHANGED <<sizes, current, currentSize, chunks>>
        /\ stage' = "dealing"
    BY <1>5 DEF StartDealing
  <2> QED
    BY <2>1 DEF Filling, ChunksFit, SizeOf
<1>6. CASE GiveNext \/ UNCHANGED vars
  <2>1. UNCHANGED <<sizes, current, currentSize, chunks, stage>>
    BY <1>6 DEF GiveNext, vars
  <2> QED
    BY <2>1 DEF Filling, ChunksFit, SizeOf
<1> QED
  BY <1>2, <1>3, <1>4, <1>5, <1>6 DEF Next

(* For every dataset and limit: a chunk exceeds the limit only when it is a *)
(* single row, and it was closed only when the next row did not fit.        *)
THEOREM EveryChunkFits == Spec => []ChunksFit
<1>1. Init => Filling /\ ChunksFit
  <2> SUFFICES ASSUME Init PROVE Filling /\ ChunksFit
    OBVIOUS
  <2>1. current = <<>> /\ currentSize = 0 /\ chunks = <<>>
    BY DEF Init
  <2> QED
    BY <2>1, SizeOfNoRow DEF Filling, ChunksFit
<1> QED
  BY <1>1, FillingInductive, TypeCorrect, ProgressHolds, PTL DEF Spec

(* A chunk is at least as large as its first row. *)
LEMMA FirstRowFits ==
  ASSUME sizes \in Seq(Nat), NEW rows \in Seq(1..Len(sizes)), rows # <<>>
  PROVE  SizeOf(rows) \in Nat /\ sizes[Head(rows)] <= SizeOf(rows)
<1> DEFINE w == [j \in 1..Len(rows) |-> sizes[rows[j]]]
<1>1. w \in [1..Len(rows) -> Nat] /\ 1 \in 1..Len(rows) /\ w[1] = sizes[Head(rows)]
  OBVIOUS
<1>2. IsFiniteSet(1..Len(rows))
  BY FS_Interval
<1>3. SizeOf(rows) = SumFunction(w)
  BY DEF SizeOf
<1> HIDE DEF w
<1> QED
  BY <1>1, <1>2, <1>3, SumType, SumBounds

(* Hence no two neighbouring chunks fit in one: the depositor pays for no *)
(* chunk that joining it with the next would have saved.                  *)
NeighboursDoNotFit ==
  \A k \in 1..(Len(chunks) - 1) :
    SizeOf(chunks[k]) + SizeOf(chunks[k + 1]) > ChunkSize

THEOREM NoChunkIsWasted == Spec => []NeighboursDoNotFit
<1>1. TypeOK /\ ChunksFit => NeighboursDoNotFit
  <2> SUFFICES ASSUME TypeOK, ChunksFit, NEW k \in 1..(Len(chunks) - 1)
               PROVE  SizeOf(chunks[k]) + SizeOf(chunks[k + 1]) > ChunkSize
    BY DEF NeighboursDoNotFit
  <2>1. sizes \in Seq(Nat)
    BY DEF TypeOK
  <2>2. /\ k \in 1..Len(chunks) /\ k + 1 \in 1..Len(chunks)
        /\ chunks \in Seq(Seq(1..Len(sizes)) \ {<<>>})
    BY DEF TypeOK
  <2>3. /\ chunks[k] \in Seq(1..Len(sizes)) /\ chunks[k] # <<>>
        /\ chunks[k + 1] \in Seq(1..Len(sizes)) /\ chunks[k + 1] # <<>>
    <3> DEFINE C == Seq(1..Len(sizes)) \ {<<>>}
    <3>1. ASSUME NEW j \in 1..Len(chunks) PROVE chunks[j] \in C
      <4> HIDE DEF C
      <4> QED
        BY <2>2 DEF C
    <3>2. chunks[k] \in C /\ chunks[k + 1] \in C
      BY <2>2, <3>1
    <3> QED
      BY <3>2
  <2>4. SizeOf(chunks[k]) + sizes[Head(chunks[k + 1])] > ChunkSize
    BY DEF ChunksFit
  <2>5. /\ SizeOf(chunks[k]) \in Nat /\ SizeOf(chunks[k + 1]) \in Nat
        /\ sizes[Head(chunks[k + 1])] <= SizeOf(chunks[k + 1])
    BY <2>1, <2>3, FirstRowFits
  <2>6. sizes[Head(chunks[k + 1])] \in Nat
    <3> DEFINE c == chunks[k + 1]
    <3>1. Head(c) \in 1..Len(sizes)
      <4>1. c \in Seq(1..Len(sizes)) /\ c # <<>>
        BY <2>3
      <4> HIDE DEF c
      <4> QED
        BY <4>1
    <3> HIDE DEF c
    <3>2. sizes[Head(c)] \in Nat
      BY <2>1, <3>1
    <3> QED
      BY <3>2 DEF c
  <2> QED
    BY <2>4, <2>5, <2>6, AssignmentAssumption
<1> QED
  BY <1>1, TypeCorrect, EveryChunkFits, PTL

-----------------------------------------------------------------------------
(* The next multiple of m is m further. *)
LEMMA Multiples ==
  ASSUME NEW m \in Nat \ {0}, NEW a \in Nat, NEW b \in Nat, a < b
  PROVE  m * a + m <= m * b
<1>1. PICK c \in Nat : b = a + 1 + c
  <2>1. b - a - 1 \in Nat /\ b = a + 1 + (b - a - 1)
    OBVIOUS
  <2> QED
    BY <2>1
<1>2. m * b = m * a + m + m * c
  BY <1>1
<1>3. m * c \in Nat
  OBVIOUS
<1> QED
  BY <1>2, <1>3

(* Quotient and remainder are unique. *)
LEMMA QuotientOf ==
  ASSUME NEW m \in Nat \ {0}, NEW q \in Nat, NEW r \in 0..(m - 1)
  PROVE  (m * q + r) \div m = q
<1> DEFINE x == m * q + r
<1>1. x \in Nat
  OBVIOUS
<1>2. PICK d \in Nat : d = x \div m
  BY <1>1
<1>3. m * d <= x /\ x < m * d + m
  BY <1>1, <1>2
<1>4. ~(d < q)
  BY <1>3, Multiples
<1>5. ~(q < d)
  BY <1>3, Multiples
<1> QED
  BY <1>2, <1>4, <1>5

(* After q whole turns and r chunks of the next one, the first r trainers  *)
(* have q + 1 chunks and the others q.                                     *)
LEMMA ShareLength ==
  ASSUME NEW m \in Nat \ {0}, NEW q \in Nat, NEW r \in 0..(m - 1), NEW k \in 1..m
  PROVE  /\ k <= r => (m * q + r + m - k) \div m = q + 1
         /\ k > r => (m * q + r + m - k) \div m = q
<1>1. CASE k <= r
  <2>1. m * (q + 1) = m * q + m
    OBVIOUS
  <2>2. m * q \in Nat
    OBVIOUS
  <2>3. m * q + r + m - k = m * (q + 1) + (r - k)
    BY <2>1, <2>2
  <2>4. r - k \in 0..(m - 1) /\ q + 1 \in Nat
    BY <1>1
  <2>5. (m * (q + 1) + (r - k)) \div m = q + 1
    BY <2>4, QuotientOf
  <2> QED
    BY <1>1, <2>3, <2>5
<1>2. CASE k > r
  <2>1. m * q \in Nat
    OBVIOUS
  <2>2. m * q + r + m - k = m * q + (m + r - k)
    BY <2>1
  <2>3. m + r - k \in 0..(m - 1)
    BY <1>2
  <2>4. (m * q + (m + r - k)) \div m = q
    BY <2>3, QuotientOf
  <2> QED
    BY <1>2, <2>2, <2>4
<1> QED
  BY <1>1, <1>2

(* One more chunk is one more number at the end of one share. *)
LEMMA ShareStep ==
  ASSUME NEW m \in Nat \ {0}, NEW n \in Nat, NEW k \in 1..m
  PROVE  /\ k = 1 + (n % m) => Share(k, m, n + 1) = Append(Share(k, m, n), n + 1)
         /\ k # 1 + (n % m) => Share(k, m, n + 1) = Share(k, m, n)
<1>1. PICK q \in Nat : q = n \div m
  OBVIOUS
<1>2. PICK r \in 0..(m - 1) : r = n % m
  OBVIOUS
<1>3. n = m * q + r /\ m * q \in Nat
  BY <1>1, <1>2
<1>4. (n + m - k) \div m = IF k <= r THEN q + 1 ELSE q
  BY <1>3, ShareLength
<1>5. (n + 1 + m - k) \div m = IF k <= r + 1 THEN q + 1 ELSE q
  <2>1. CASE r + 1 \in 0..(m - 1)
    <3>1. /\ k <= r + 1 => (m * q + (r + 1) + m - k) \div m = q + 1
          /\ k > r + 1 => (m * q + (r + 1) + m - k) \div m = q
      BY <2>1, ShareLength
    <3>2. n + 1 + m - k = m * q + (r + 1) + m - k
      BY <1>3
    <3> QED
      BY <3>1, <3>2
  <2>2. CASE r = m - 1
    <3>1. m * (q + 1) = m * q + m
      OBVIOUS
    <3>2. n + 1 + m - k = m * (q + 1) + 0 + m - k
      BY <1>3, <2>2, <3>1
    <3>3. k > 0 /\ 0 \in 0..(m - 1) /\ q + 1 \in Nat /\ k <= r + 1
      BY <2>2
    <3>4. (m * (q + 1) + 0 + m - k) \div m = q + 1
      BY <3>3, ShareLength
    <3> QED
      BY <3>2, <3>3, <3>4
  <2> QED
    BY <2>1, <2>2
<1>6. CASE k = r + 1
  <2>1. (n + m - k) \div m = q /\ (n + 1 + m - k) \div m = q + 1
    BY <1>4, <1>5, <1>6
  <2>2. /\ Share(k, m, n) = [j \in 1..q |-> k + (j - 1) * m]
        /\ Share(k, m, n + 1) = [j \in 1..(q + 1) |-> k + (j - 1) * m]
    BY <2>1 DEF Share
  <2>3. k + ((q + 1) - 1) * m = n + 1
    BY <1>3, <1>6
  <2>4. \A j \in 1..q : k + (j - 1) * m \in Nat
    <3> TAKE j \in 1..q
    <3>1. j - 1 \in Nat
      OBVIOUS
    <3>2. (j - 1) * m \in Nat
      BY <3>1
    <3> QED
      BY <3>2
  <2>5. Share(k, m, n) \in Seq(Nat) /\ Len(Share(k, m, n)) = q
    BY <2>2, <2>4
  <2>6. Append(Share(k, m, n), n + 1) = [j \in 1..(q + 1) |-> k + (j - 1) * m]
    <3> DEFINE longer == Append(Share(k, m, n), n + 1)
    <3>1. longer \in Seq(Nat) /\ Len(longer) = q + 1
      BY <2>5
    <3>2. longer = [j \in 1..(q + 1) |-> longer[j]]
      <4> HIDE DEF longer
      <4>1. longer \in [1..(q + 1) -> Nat]
        BY <3>1
      <4> QED
        BY <4>1
    <3>3. ASSUME NEW j \in 1..(q + 1) PROVE longer[j] = k + (j - 1) * m
      <4>1. CASE j = q + 1
        BY <2>3, <2>5, <4>1
      <4>2. CASE j \in 1..q
        BY <2>2, <2>5, <4>2
      <4>3. j = q + 1 \/ j \in 1..q
        OBVIOUS
      <4> QED
        BY <4>1, <4>2, <4>3
    <3> HIDE DEF longer
    <3>4. longer = [j \in 1..(q + 1) |-> k + (j - 1) * m]
      BY <3>2, <3>3
    <3> QED
      BY <3>4 DEF longer
  <2>7. Share(k, m, n + 1) = Append(Share(k, m, n), n + 1)
    BY <2>2, <2>6
  <2>8. k = 1 + (n % m)
    BY <1>2, <1>6
  <2> QED
    BY <2>7, <2>8
<1>7. CASE k # r + 1
  <2>1. (n + m - k) \div m = (n + 1 + m - k) \div m
    BY <1>4, <1>5, <1>7
  <2> QED
    BY <1>2, <1>7, <2>1 DEF Share
<1> QED
  BY <1>6, <1>7

(* A node stands once in the list of trainers. *)
NodesDistinct == \A j, k \in 1..Len(nodes) : nodes[j] = nodes[k] => j = k

LEMMA NodesStayDistinct == Spec => []NodesDistinct
<1> USE DEF dataset, dealing
<1>1. Init => NodesDistinct
  BY DEF Init, NodesDistinct
<1>2. NodesDistinct /\ [Next]_vars => NodesDistinct'
  <2> SUFFICES ASSUME NodesDistinct, [Next]_vars PROVE NodesDistinct'
    OBVIOUS
  <2>1. CASE StartDealing
    <3>1. PICK n \in 1..Cardinality(Nodes) :
             /\ nodes' \in [1..n -> Nodes]
             /\ \A j, k \in 1..n : nodes'[j] = nodes'[k] => j = k
      BY <2>1 DEF StartDealing, NodeLists
    <3> QED
      BY <3>1 DEF NodesDistinct
  <2>2. CASE ReadRow \/ FinishUpload \/ UploadFails \/ GiveNext \/ UNCHANGED vars
    BY <2>2 DEF ReadRow, FinishUpload, UploadFails, GiveNext, vars, NodesDistinct
  <2> QED
    BY <2>1, <2>2 DEF Next
<1> QED
  BY <1>1, <1>2, PTL DEF Spec

(* The loop computes the closed form for every number of trainers.         *)
THEOREM LoopDealsShares == Spec => []DealsShares
<1> USE DEF dataset, dealing
<1>1. Init => DealsShares
  BY DEF Init, DealsShares
<1>2. TypeOK /\ NodesDistinct /\ DealsShares /\ [Next]_vars => DealsShares'
  <2> SUFFICES ASSUME TypeOK, NodesDistinct, DealsShares, [Next]_vars PROVE DealsShares'
    OBVIOUS
  <2>1. CASE GiveNext
    <3> DEFINE m == Len(nodes)
    <3>1. m \in Nat \ {0} /\ i \in Nat /\ nodes' = nodes /\ i' = i + 1
      BY <2>1 DEF GiveNext, TypeOK
    <3>2. 1 + (i % m) \in 1..m
      BY <3>1
    <3>3. PICK k0 \in 1..m : k0 = 1 + (i % m)
      BY <3>2
    <3>4. assignments' = [assignments EXCEPT ![nodes[k0]] = Append(@, i + 1)]
      BY <2>1, <3>3 DEF GiveNext, Given, Turn
    <3>5. SUFFICES ASSUME NEW k \in 1..m
                   PROVE  assignments'[nodes[k]] = Share(k, m, i + 1)
      BY <3>1 DEF DealsShares
    <3>6. assignments[nodes[k]] = Share(k, m, i) /\ nodes[k] \in DOMAIN assignments
      BY DEF DealsShares, TypeOK, Members
    <3>7. CASE k = k0
      <4>1. assignments'[nodes[k]] = Append(assignments[nodes[k]], i + 1)
        BY <3>4, <3>6, <3>7
      <4>2. Share(k, m, i + 1) = Append(Share(k, m, i), i + 1)
        BY <3>1, <3>3, <3>7, ShareStep
      <4> QED
        BY <3>6, <4>1, <4>2
    <3>8. CASE k # k0
      <4>1. nodes[k] # nodes[k0]
        BY <3>8 DEF NodesDistinct
      <4>2. assignments'[nodes[k]] = assignments[nodes[k]]
        BY <3>4, <4>1
      <4>3. Share(k, m, i + 1) = Share(k, m, i)
        BY <3>1, <3>3, <3>8, ShareStep
      <4> QED
        BY <3>6, <4>2, <4>3
    <3> QED
      BY <3>7, <3>8
  <2>2. CASE StartDealing
    <3>1. /\ nodes' \in Seq(Nodes) /\ Len(nodes') > 0
          /\ i' = 0 /\ assignments' = [n \in Members' |-> <<>>]
      BY <2>2, NodeListIsSeq DEF StartDealing
    <3>2. PICK m \in Nat \ {0} : m = Len(nodes')
      BY <3>1
    <3>3. SUFFICES ASSUME NEW k \in 1..m
                   PROVE  assignments'[nodes'[k]] = Share(k, m, 0)
      BY <3>1, <3>2 DEF DealsShares
    <3>4. assignments'[nodes'[k]] = <<>>
      <4>1. nodes'[k] \in Members'
        BY <3>2 DEF Members
      <4> QED
        BY <3>1, <4>1
    <3>5. (0 + m - k) \div m = 0
      <4>1. m - k \in 0..(m - 1) /\ 0 + m - k = m * 0 + (m - k)
        OBVIOUS
      <4>2. (m * 0 + (m - k)) \div m = 0
        BY <4>1, QuotientOf
      <4> QED
        BY <4>1, <4>2
    <3>6. Share(k, m, 0) = <<>>
      BY <3>5 DEF Share
    <3> QED
      BY <3>4, <3>6
  <2>3. CASE ReadRow \/ FinishUpload \/ UploadFails \/ UNCHANGED vars
    <3>1. nodes' = nodes /\ i' = i /\ assignments' = assignments
      BY <2>3 DEF ReadRow, FinishUpload, UploadFails, vars
    <3> QED
      BY <3>1 DEF DealsShares
  <2> QED
    BY <2>1, <2>2, <2>3 DEF Next
<1> QED
  BY <1>1, <1>2, TypeCorrect, NodesStayDistinct, PTL DEF Spec
=============================================================================
