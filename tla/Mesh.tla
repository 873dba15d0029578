-------------------------------- MODULE Mesh --------------------------------
(***************************************************************************)
(* How the nodes find each other: the bootstrap node keeps a summary of    *)
(* who is in which pubsub topic and in which role, and floods it over the  *)
(* fed-learn mesh; the client takes the trainers of a round from the last  *)
(* summary it received, a trainer that joins a round dials one random peer *)
(* of it (src/p2p/coordinator.py, src/p2p/mesh_utils.py, runner.py).       *)
(*                                                                         *)
(* At the bootstrap three loops run side by side: the refresh of the local *)
(* mesh, the flood on change, and the monitor that publishes the summary   *)
(* once per new peer.  A subscription takes no time to reach the pubsub of *)
(* the bootstrap, to which every node is connected: the loops, which look  *)
(* every two seconds, are what makes its summary stale.  One client and    *)
(* one round; the bootstrap does not restart (no node would connect to it  *)
(* again).                                                                 *)
(***************************************************************************)
EXTENDS Integers, Sequences, FiniteSets, SequencesExt

CONSTANTS Trainers, Client,   \* the nodes besides the bootstrap
          FedLearn,           \* the topic every node joins at start-up
          Round,              \* the topic of the training round
          Greets,             \* greetings a node sends (3 in the code)
          MaxLostGreetings,   \* bound: greetings of a node that do not arrive
          MaxFaults           \* bound: summaries lost, crashes, rounds left

ASSUME MeshAssumption ==
  /\ Client \notin Trainers
  /\ FedLearn # Round
  /\ Greets \in Nat /\ MaxLostGreetings \in Nat /\ MaxFaults \in Nat

VARIABLES
  status,       \* node: not started, running or gone
  subscribed,   \* node: its pubsub subscriptions
  greetsLeft,   \* node: greetings it may still have to send
  joining,      \* trainer: where its join command is
  view,         \* node: the round's list in mesh.bootstrap_mesh
  links,        \* connections dialled by join commands
  roleList,     \* bootstrap: peers whose role it knows
  localMesh,    \* bootstrap: the summary
  flooded,      \* bootstrap: the summary the flood loop looked at last
  known,        \* bootstrap: connected_nodes, as the monitor saw them last
  toAnnounce,   \* bootstrap: new peers the monitor has still to publish for
  faults,
  ever          \* every subscription there has been

nodes     == <<status, subscribed, greetsLeft, joining, links, ever>>
node      == <<nodes, view>>
bootstrap == <<roleList, localMesh, flooded, known, toAnnounce>>
vars      == <<node, bootstrap, faults>>

Peers == Trainers \cup {Client}
Topics == {FedLearn, Round}
RoleOfNode(p) == IF p = Client THEN "CLIENT" ELSE "TRAINER"

Entry == [peer: Peers, role: {"CLIENT", "TRAINER", "UNKNOWN"}]
Summary == UNION {[S -> SUBSET Entry] : S \in SUBSET Topics}
Empty == [t \in {} |-> {}]
Get(m, t) == IF t \in DOMAIN m THEN m[t] ELSE {}

Up(p) == status[p] = "up"

Init ==
  /\ status = [p \in Peers |-> "new"]
  /\ subscribed = [p \in Peers |-> {}]
  /\ greetsLeft = [p \in Peers |-> 0]
  /\ joining = [n \in Trainers |-> "no"]
  /\ view = [p \in Peers |-> {}]
  /\ links = {}
  /\ known = {} /\ toAnnounce = {}
  /\ roleList = {}
  /\ localMesh = Empty /\ flooded = Empty
  /\ faults = 0
  /\ ever = {}

Fault == faults < MaxFaults /\ faults' = faults + 1

-----------------------------------------------------------------------------
(* The nodes.                                                              *)
Subscribe(p, t) ==
  /\ subscribed' = [subscribed EXCEPT ![p] = @ \cup {t}]
  /\ ever' = ever \cup {<<p, t>>}

Start(p) ==
  /\ status[p] = "new"
  /\ status' = [status EXCEPT ![p] = "up"]
  /\ Subscribe(p, FedLearn)
  /\ greetsLeft' = [greetsLeft EXCEPT ![p] = Greets]
  /\ UNCHANGED <<joining, view, links, bootstrap, faults>>

(* The bootstrap learns a node's role from the first greeting that arrives *)
(* and never forgets it; the node's other greetings change nothing.        *)
Greet(p) ==
  /\ Up(p) /\ greetsLeft[p] > 0
  /\ \/ /\ roleList' = roleList \cup {p}
        /\ greetsLeft' = [greetsLeft EXCEPT ![p] = 0]
     \/ /\ Greets - greetsLeft[p] < MaxLostGreetings
        /\ greetsLeft' = [greetsLeft EXCEPT ![p] = @ - 1]
        /\ UNCHANGED roleList
  /\ UNCHANGED <<status, subscribed, joining, view, links, ever, localMesh, flooded,
                 known, toAnnounce, faults>>

Advertise ==
  /\ Up(Client) /\ <<Client, Round>> \notin ever
  /\ Subscribe(Client, Round)
  /\ UNCHANGED <<status, greetsLeft, joining, view, links, bootstrap, faults>>

Join(n) ==
  /\ Up(n) /\ joining[n] = "no"
  /\ Subscribe(n, Round)
  /\ joining' = [joining EXCEPT ![n] = "waiting"]
  /\ UNCHANGED <<status, greetsLeft, view, links, bootstrap, faults>>

(* After two seconds join takes a random peer of the round, itself struck  *)
(* from the very list of its bootstrap mesh.  An empty list ends the join: *)
(* the command returns, or random.choice raises.                           *)
Others(n, listed) == {e \in listed : e.peer # n}

Dial(n) ==
  LET others == Others(n, view[n]) IN
  /\ Up(n) /\ joining[n] = "waiting"
  /\ joining' = [joining EXCEPT ![n] = "joined"]
  /\ view' = [view EXCEPT ![n] = others]
  /\ IF others = {} THEN UNCHANGED links
     ELSE \E e \in others :
            IF Up(e.peer) THEN links' = links \cup {{n, e.peer}} ELSE UNCHANGED links
  /\ UNCHANGED <<status, subscribed, greetsLeft, ever, bootstrap, faults>>

(* The leave command, or the end of an assignment.                         *)
Leave(p) ==
  /\ Up(p) /\ Round \in subscribed[p]
  /\ p \in Trainers => joining[p] # "waiting"
  /\ Fault
  /\ subscribed' = [subscribed EXCEPT ![p] = @ \ {Round}]
  /\ UNCHANGED <<status, greetsLeft, joining, view, links, ever, bootstrap>>

Crash(p) ==
  /\ Up(p)
  /\ Fault
  /\ status' = [status EXCEPT ![p] = "gone"]
  /\ subscribed' = [subscribed EXCEPT ![p] = {}]
  /\ links' = {l \in links : p \notin l}
  /\ UNCHANGED <<greetsLeft, joining, view, ever, bootstrap>>

-----------------------------------------------------------------------------
(* The bootstrap node.                                                     *)
(* pubsub.peers and pubsub.peer_topics: a topic once heard of stays listed. *)
Connected == {p \in Peers : Up(p)}
Heard == {t \in Topics : \E p \in Peers : <<p, t>> \in ever}
PeerTopics == [t \in Heard |-> {p \in Connected : t \in subscribed[p]}]

TrainerByDefault(p) == IF p \in roleList THEN RoleOfNode(p) ELSE "TRAINER"
UnlistedRole(p) == IF p \in roleList THEN RoleOfNode(p) ELSE "NONE"
ListedRole(p) == IF p \in roleList THEN RoleOfNode(p) ELSE "UNKNOWN"

TopicSummary ==
  [t \in Heard |-> {[peer |-> p, role |-> ListedRole(p)] : p \in PeerTopics[t]}]

RefreshMesh ==
  /\ localMesh # TopicSummary
  /\ localMesh' = TopicSummary
  /\ UNCHANGED <<node, roleList, flooded, known, toAnnounce, faults>>

(* Publishing reaches the nodes that are in fed-learn now, or loses one of *)
(* them.  receive_loop puts a summary in the place of the node's bootstrap *)
(* mesh; what has no fed-learn list it takes for no summary.               *)
IsMeshSummary(m) == FedLearn \in DOMAIN m

ReceiveSummary(readers) ==
  view' = IF IsMeshSummary(localMesh)
            THEN [p \in Peers |-> IF p \in readers THEN Get(localMesh, Round) ELSE view[p]]
            ELSE view

Publish ==
  LET readers == Get(PeerTopics, FedLearn) IN
  \/ ReceiveSummary(readers) /\ UNCHANGED faults
  \/ Fault /\ \E p \in readers : ReceiveSummary(readers \ {p})

LooksOnly == flooded' = localMesh /\ UNCHANGED <<view, faults>>
LooksAndFloods == flooded' = localMesh /\ Publish

Flood ==
  /\ localMesh # flooded
  /\ LooksAndFloods
  /\ UNCHANGED <<nodes, roleList, localMesh, known, toAnnounce>>

MonitorLook ==
  /\ toAnnounce = {} /\ Connected # known
  /\ known' = Connected
  /\ toAnnounce' = Connected \ known
  /\ UNCHANGED <<node, roleList, localMesh, flooded, faults>>

MonitorPublish(p) ==
  /\ p \in toAnnounce
  /\ toAnnounce' = toAnnounce \ {p}
  /\ Publish
  /\ UNCHANGED <<nodes, roleList, localMesh, flooded, known>>

Next ==
  \/ \E p \in Peers :
       \/ Start(p) \/ Greet(p) \/ Crash(p) \/ Leave(p) \/ MonitorPublish(p)
  \/ \E n \in Trainers : Join(n) \/ Dial(n)
  \/ Advertise \/ RefreshMesh \/ Flood \/ MonitorLook

Spec == Init /\ [][Next]_vars

(* The loops of the nodes and the network go on.                           *)
Fairness ==
  /\ \A p \in Peers : WF_vars(Greet(p)) /\ WF_vars(MonitorPublish(p))
  /\ \A n \in Trainers : WF_vars(Dial(n))
  /\ WF_vars(RefreshMesh) /\ WF_vars(Flood) /\ WF_vars(MonitorLook)

FairSpec == Spec /\ Fairness

-----------------------------------------------------------------------------
TypeOK ==
  /\ status \in [Peers -> {"new", "up", "gone"}]
  /\ subscribed \in [Peers -> SUBSET Topics]
  /\ greetsLeft \in [Peers -> 0..Greets]
  /\ joining \in [Trainers -> {"no", "waiting", "joined"}]
  /\ view \in [Peers -> SUBSET Entry]
  /\ links \subseteq SUBSET Peers
  /\ known \subseteq Peers /\ toAnnounce \subseteq Peers
  /\ roleList \subseteq Peers
  /\ localMesh \in Summary /\ flooded \in Summary
  /\ faults \in 0..MaxFaults
  /\ ever \subseteq Peers \X Topics

(* mesh.get_channel_nodes: whom the client deals the chunks to.            *)
Roster == {e.peer : e \in {f \in view[Client] : f.role = "TRAINER"}}

(* However stale or partial the summaries a node has, it never takes a     *)
(* node for a trainer that is none, nor for a member of a round it never   *)
(* joined: chunks are dealt to trainers of the round, past or present.     *)
RosterIsGenuine ==
  \A p \in Peers : \A e \in view[p] :
    /\ e.role \in {RoleOfNode(e.peer), "UNKNOWN"}
    /\ <<e.peer, Round>> \in ever

(* While nobody leaves or crashes and no summary is lost, the client       *)
(* learns of every trainer that joins the round and takes it for a         *)
(* trainer, even when all its greetings but one are lost, whichever of the *)
(* bootstrap's loops looks first and whenever the client starts.           *)
TrainerIsFound ==
  [](faults = 0) =>
    \A n \in Trainers : Up(Client) /\ Round \in subscribed[n] ~> n \in Roster

(* README.md:140: "The client then broadcasts those URLs into the training *)
(* round mesh, so trainers can fetch only the chunks they're assigned": a  *)
(* trainer the client deals chunks to is connected to it through members   *)
(* of the round, the only nodes that pass its messages on, once all its    *)
(* trainers have dialled a peer.                                           *)
Members == {p \in Peers : Up(p) /\ Round \in subscribed[p]}
AllDialled ==
  \A n \in Members \cap Trainers : joining[n] = "joined" /\ \E l \in links : n \in l

BroadcastReachesRoster ==
  AllDialled =>
    \A n \in Roster \cap Members : \A S \in SUBSET (Members \ {n}) :
      Client \in S => \E a \in S, b \in Members \ S : {a, b} \in links
=============================================================================
