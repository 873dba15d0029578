----------------------------- MODULE MeshProofs -----------------------------
(***************************************************************************)
(* However stale the summaries of the mesh are, and whatever is lost: what *)
(* a node believes of a round was true of it at some time, for every       *)
(* number of nodes, greetings and faults; a lone trainer of a round is     *)
(* within the client's reach.                                              *)
(***************************************************************************)
EXTENDS Mesh, TLAPS

LEMMA GetFromSummary ==
  ASSUME NEW m \in Summary, NEW t \in Topics
  PROVE  Get(m, t) \subseteq Entry
<1>1. PICK S \in SUBSET Topics : m \in [S -> SUBSET Entry]
  BY DEF Summary
<1> QED
  BY <1>1 DEF Get

LEMMA TopicSummaryType == TopicSummary \in Summary
<1>1. Heard \in SUBSET Topics
  BY DEF Heard
<1>2. \A p \in Peers : ListedRole(p) \in {"CLIENT", "TRAINER", "UNKNOWN"}
  BY DEF ListedRole, RoleOfNode
<1>3. \A t \in Heard : PeerTopics[t] \subseteq Peers
  BY DEF PeerTopics, Connected
<1>4. TopicSummary \in [Heard -> SUBSET Entry]
  BY <1>2, <1>3 DEF TopicSummary, Entry
<1> QED
  BY <1>1, <1>4 DEF Summary

LEMMA EmptyIsSummary == Empty \in Summary
<1>1. Empty \in [{} -> SUBSET Entry]
  BY DEF Empty
<1> QED
  BY <1>1 DEF Summary

(* Publishing gives each node the list of the summary or leaves what it    *)
(* has.                                                                    *)
LEMMA PublishType ==
  ASSUME TypeOK, Publish
  PROVE  /\ view' \in [Peers -> SUBSET Entry]
         /\ \A p \in Peers : view'[p] \in {view[p], Get(localMesh, Round)}
         /\ faults' \in 0..MaxFaults
<1>1. PICK readers : ReceiveSummary(readers)
  BY DEF Publish
<1>2. Get(localMesh, Round) \in SUBSET Entry /\ view \in [Peers -> SUBSET Entry]
  BY GetFromSummary DEF TypeOK, Topics
<1>3. view' = view \/
      view' = [p \in Peers |-> IF p \in readers THEN Get(localMesh, Round) ELSE view[p]]
  BY <1>1 DEF ReceiveSummary
<1>4. faults' \in 0..MaxFaults
  BY MeshAssumption DEF Publish, Fault, TypeOK
<1> QED
  BY <1>2, <1>3, <1>4

LEMMA FaultType ==
  ASSUME faults \in 0..MaxFaults, Fault
  PROVE  faults' \in 0..MaxFaults
BY MeshAssumption DEF Fault

THEOREM TypeCorrect == Spec => []TypeOK
<1> USE DEF nodes, node, bootstrap
<1>1. Init => TypeOK
  BY EmptyIsSummary, MeshAssumption DEF Init, TypeOK, Topics
<1>2. TypeOK /\ [Next]_vars => TypeOK'
  <2> SUFFICES ASSUME TypeOK, [Next]_vars PROVE TypeOK'
    OBVIOUS
  <2> USE DEF Topics
  <2>1. ASSUME NEW p \in Peers, Start(p) PROVE TypeOK'
    <3>1. Greets \in 0..Greets
      BY MeshAssumption
    <3> QED
      BY <2>1, <3>1 DEF Start, Subscribe, TypeOK
  <2>2. ASSUME NEW p \in Peers, Greet(p) PROVE TypeOK'
    <3>1. greetsLeft' \in [Peers -> 0..Greets]
      BY <2>2, MeshAssumption DEF Greet, TypeOK
    <3>2. roleList' \subseteq Peers
      BY <2>2 DEF Greet, TypeOK
    <3> QED
      BY <2>2, <3>1, <3>2 DEF Greet, TypeOK
  <2>3. CASE Advertise
    BY <2>3 DEF Advertise, Subscribe, TypeOK, Peers
  <2>4. ASSUME NEW n \in Trainers, Join(n) PROVE TypeOK'
    BY <2>4 DEF Join, Subscribe, TypeOK, Peers
  <2>5. ASSUME NEW n \in Trainers, Dial(n) PROVE TypeOK'
    <3>1. view[n] \subseteq Entry /\ n \in Peers
      BY DEF TypeOK, Peers
    <3>2. Others(n, view[n]) \subseteq Entry
      BY <3>1 DEF Others
    <3>3. view' \in [Peers -> SUBSET Entry]
      BY <2>5, <3>2 DEF Dial, TypeOK
    <3>4. \A e \in Others(n, view[n]) : e.peer \in Peers
      BY <3>2 DEF Entry
    <3>5. links' \subseteq SUBSET Peers
      BY <2>5, <3>1, <3>4 DEF Dial, TypeOK
    <3>6. joining' \in [Trainers -> {"no", "waiting", "joined"}]
      BY <2>5 DEF Dial, TypeOK
    <3> QED
      BY <2>5, <3>3, <3>5, <3>6 DEF Dial, TypeOK
  <2>6. ASSUME NEW p \in Peers, Leave(p) PROVE TypeOK'
    BY <2>6, FaultType DEF Leave, TypeOK
  <2>7. ASSUME NEW p \in Peers, Crash(p) PROVE TypeOK'
    BY <2>7, FaultType DEF Crash, TypeOK
  <2>8. CASE RefreshMesh
    BY <2>8, TopicSummaryType DEF RefreshMesh, TypeOK
  <2>9. CASE Flood
    BY <2>9, PublishType DEF Flood, LooksAndFloods, TypeOK
  <2>10. CASE MonitorLook
    BY <2>10 DEF MonitorLook, TypeOK, Connected
  <2>11. ASSUME NEW p \in Peers, MonitorPublish(p) PROVE TypeOK'
    BY <2>11, PublishType DEF MonitorPublish, TypeOK
  <2>12. CASE UNCHANGED vars
    BY <2>12 DEF vars, TypeOK
  <2> QED
    BY <2>1, <2>2, <2>3, <2>4, <2>5, <2>6, <2>7, <2>8, <2>9, <2>10, <2>11, <2>12 DEF Next
<1> QED
  BY <1>1, <1>2, PTL DEF Spec

-----------------------------------------------------------------------------
(* What an entry of the round's list may say.                              *)
Genuine(e) ==
  e.role \in {RoleOfNode(e.peer), "UNKNOWN"} /\ <<e.peer, Round>> \in ever

(* The bootstrap's summary and the nodes' copies of it name past or        *)
(* present members only.                                                   *)
GenuineInv ==
  /\ \A p \in Peers : \A t \in subscribed[p] : <<p, t>> \in ever
  /\ \A e \in Get(localMesh, Round) : Genuine(e)
  /\ \A p \in Peers : \A e \in view[p] : Genuine(e)

LEMMA TopicSummaryGenuine ==
  ASSUME GenuineInv
  PROVE  \A e \in Get(TopicSummary, Round) : Genuine(e)
<1> SUFFICES ASSUME NEW e \in Get(TopicSummary, Round) PROVE Genuine(e)
  OBVIOUS
<1>1. Round \in Heard
  BY DEF Get, TopicSummary
<1>2. PICK p \in PeerTopics[Round] : e = [peer |-> p, role |-> ListedRole(p)]
  BY <1>1 DEF Get, TopicSummary
<1>3. p \in Peers /\ Round \in subscribed[p]
  BY <1>1, <1>2 DEF PeerTopics, Connected
<1> QED
  BY <1>2, <1>3 DEF GenuineInv, Genuine, ListedRole

(* More subscriptions make nothing false. *)
LEMMA GenuineStays ==
  ASSUME ever \subseteq ever', NEW e, Genuine(e)
  PROVE  Genuine(e)'
BY DEF Genuine, RoleOfNode

LEMMA SubscribeGenuine ==
  ASSUME TypeOK, GenuineInv, NEW p \in Peers, NEW t \in Topics, Subscribe(p, t)
  PROVE  /\ ever \subseteq ever'
         /\ \A q \in Peers : \A s \in subscribed'[q] : <<q, s>> \in ever'
BY DEF TypeOK, GenuineInv, Subscribe

LEMMA GenuineHolds == Spec => []GenuineInv
<1> USE DEF nodes, node, bootstrap
<1>1. Init => GenuineInv
  BY DEF Init, GenuineInv, Get, Empty
<1>2. TypeOK /\ GenuineInv /\ [Next]_vars => GenuineInv'
  <2> SUFFICES ASSUME TypeOK, GenuineInv, [Next]_vars PROVE GenuineInv'
    OBVIOUS
  <2>1. ASSUME ever \subseteq ever', localMesh' = localMesh,
               \A p \in Peers : \A t \in subscribed'[p] : <<p, t>> \in ever',
               \A p \in Peers : view'[p] \in {view[p], Get(localMesh, Round)}
                                  \/ view'[p] \subseteq view[p]
        PROVE  GenuineInv'
    <3>1. \A e \in Get(localMesh, Round)' : Genuine(e)'
      BY <2>1, GenuineStays DEF GenuineInv, Get
    <3>2. \A p \in Peers : \A e \in view'[p] : Genuine(e)'
      BY <2>1, GenuineStays DEF GenuineInv
    <3> QED
      BY <2>1, <3>1, <3>2 DEF GenuineInv
  <2>2. ASSUME NEW p \in Peers, Start(p) PROVE GenuineInv'
    BY <2>1, <2>2, SubscribeGenuine DEF Start, Topics
  <2>3. CASE Advertise
    BY <2>1, <2>3, SubscribeGenuine DEF Advertise, Topics, Peers
  <2>4. ASSUME NEW n \in Trainers, Join(n) PROVE GenuineInv'
    BY <2>1, <2>4, SubscribeGenuine DEF Join, Topics, Peers
  <2>5. ASSUME NEW n \in Trainers, Dial(n) PROVE GenuineInv'
    <3>1. view' = [view EXCEPT ![n] = Others(n, view[n])] /\ view \in [Peers -> SUBSET Entry]
      BY <2>5 DEF Dial, TypeOK
    <3>2. Others(n, view[n]) \subseteq view[n]
      BY DEF Others
    <3>3. \A p \in Peers : view'[p] \subseteq view[p]
      BY <3>1, <3>2
    <3>4. UNCHANGED <<ever, localMesh, subscribed>>
      BY <2>5 DEF Dial
    <3> QED
      BY <2>1, <3>3, <3>4 DEF GenuineInv
  <2>6. ASSUME NEW p \in Peers, Leave(p) PROVE GenuineInv'
    <3>1. UNCHANGED <<ever, localMesh, view>>
      BY <2>6 DEF Leave
    <3>2. \A q \in Peers : subscribed'[q] \subseteq subscribed[q]
      BY <2>6 DEF Leave, TypeOK
    <3> QED
      BY <2>1, <3>1, <3>2 DEF GenuineInv
  <2>7. ASSUME NEW p \in Peers, Crash(p) PROVE GenuineInv'
    <3>1. UNCHANGED <<ever, localMesh, view>>
      BY <2>7 DEF Crash
    <3>2. \A q \in Peers : subscribed'[q] \subseteq subscribed[q]
      BY <2>7 DEF Crash, TypeOK
    <3> QED
      BY <2>1, <3>1, <3>2 DEF GenuineInv
  <2>8. CASE RefreshMesh
    <3>1. UNCHANGED <<ever, subscribed, view>> /\ localMesh' = TopicSummary
      BY <2>8 DEF RefreshMesh
    <3>2. \A e \in Get(TopicSummary, Round) : Genuine(e)
      BY TopicSummaryGenuine
    <3>3. Get(localMesh, Round)' = Get(TopicSummary, Round)
      BY <3>1 DEF Get
    <3>4. \A e \in Get(localMesh, Round)' : Genuine(e)'
      BY <3>1, <3>2, <3>3, GenuineStays
    <3>5. \A p \in Peers : \A e \in view'[p] : Genuine(e)'
      BY <3>1, GenuineStays DEF GenuineInv
    <3> QED
      BY <3>1, <3>4, <3>5 DEF GenuineInv
  <2>9. CASE Flood
    BY <2>1, <2>9, PublishType DEF Flood, LooksAndFloods, GenuineInv
  <2>10. ASSUME NEW p \in Peers, MonitorPublish(p) PROVE GenuineInv'
    BY <2>1, <2>10, PublishType DEF MonitorPublish, GenuineInv
  <2>11. CASE MonitorLook \/ (\E p \in Peers : Greet(p)) \/ UNCHANGED vars
    <3>1. UNCHANGED <<ever, subscribed, view, localMesh>>
      BY <2>11 DEF MonitorLook, Greet, vars
    <3> QED
      BY <2>1, <3>1 DEF GenuineInv
  <2> QED
    BY <2>2, <2>3, <2>4, <2>5, <2>6, <2>7, <2>8, <2>9, <2>10, <2>11 DEF Next
<1> QED
  BY <1>1, <1>2, TypeCorrect, PTL DEF Spec

(* Chunks are dealt to nodes that are trainers and joined the round, past  *)
(* or present.                                                             *)
THEOREM RosterNeverInvented == Spec => []RosterIsGenuine
<1>1. GenuineInv => RosterIsGenuine
  BY DEF GenuineInv, Genuine, RosterIsGenuine
<1> QED
  BY <1>1, GenuineHolds, PTL

-----------------------------------------------------------------------------
(* A connection of the round is between a trainer and another node.        *)
LinksJoin == \A l \in links : \E n \in Trainers : \E p \in Peers \ {n} : l = {n, p}

LEMMA LinksJoinHolds == Spec => []LinksJoin
<1> USE DEF nodes, node, bootstrap
<1>1. Init => LinksJoin
  BY DEF Init, LinksJoin
<1>2. TypeOK /\ LinksJoin /\ [Next]_vars => LinksJoin'
  <2> SUFFICES ASSUME TypeOK, LinksJoin, [Next]_vars PROVE LinksJoin'
    OBVIOUS
  <2>1. ASSUME NEW n \in Trainers, Dial(n) PROVE LinksJoin'
    <3>1. view[n] \subseteq Entry
      BY DEF TypeOK, Peers
    <3>2. \A e \in Others(n, view[n]) : e.peer \in Peers \ {n}
      BY <3>1 DEF Others, Entry
    <3>3. links' = links \/ \E e \in Others(n, view[n]) : links' = links \cup {{n, e.peer}}
      BY <2>1 DEF Dial
    <3> QED
      BY <3>2, <3>3 DEF LinksJoin
  <2>2. CASE links' \subseteq links
    BY <2>2 DEF LinksJoin
  <2>3. ASSUME NEW p \in Peers, Crash(p) PROVE links' \subseteq links
    BY <2>3 DEF Crash
  <2>4. CASE \/ \E p \in Peers : Start(p) \/ Greet(p) \/ Leave(p) \/ MonitorPublish(p)
             \/ \E n \in Trainers : Join(n)
             \/ Advertise \/ RefreshMesh \/ Flood \/ MonitorLook \/ UNCHANGED vars
    BY <2>2, <2>4 DEF Start, Greet, Leave, MonitorPublish, Join, Advertise, RefreshMesh,
                      Flood, MonitorLook, vars
  <2> QED
    BY <2>1, <2>2, <2>3, <2>4 DEF Next
<1> QED
  BY <1>1, <1>2, TypeCorrect, PTL DEF Spec

(* README.md:140 for a round of one trainer: it can only have dialled the  *)
(* client, so the client's assignments reach it.  The run mesh_partition   *)
(* shows that a second trainer is enough to break this.                    *)
THEOREM LoneTrainerIsReached ==
  ASSUME \A m, n \in Trainers : m = n
  PROVE  Spec => []BroadcastReachesRoster
<1>1. LinksJoin => BroadcastReachesRoster
  <2> SUFFICES ASSUME LinksJoin, AllDialled,
                      NEW n \in Roster \cap Members, NEW S \in SUBSET (Members \ {n}), Client \in S
               PROVE  \E a \in S, b \in Members \ S : {a, b} \in links
    BY DEF BroadcastReachesRoster
  <2>1. n \in Members /\ n # Client /\ n \in Members \ S
    OBVIOUS
  <2>2. n \in Trainers
    BY <2>1 DEF Members, Peers
  <2>3. PICK l \in links : n \in l
    BY <2>1, <2>2 DEF AllDialled
  <2>4. PICK m \in Trainers : \E p \in Peers \ {m} : l = {m, p}
    BY <2>3 DEF LinksJoin
  <2>5. m = n
    BY <2>2, <2>4
  <2>6. PICK p \in Peers \ {m} : l = {m, p}
    BY <2>4
  <2>7. p = Client
    BY <2>6 DEF Peers
  <2>8. {Client, n} \in links
    BY <2>3, <2>5, <2>6, <2>7
  <2> QED
    BY <2>1, <2>8
<1> QED
  BY <1>1, LinksJoinHolds, PTL
=============================================================================
