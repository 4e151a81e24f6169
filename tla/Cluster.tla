-------------------------------- MODULE Cluster --------------------------------
(***************************************************************************)
(* The simulated cluster in lockstep: the nodes of node.py, the control    *)
(* plane and the loop of ClusterRun.run() that carries everything between  *)
(* them.  Which nodes crash and what becomes of the packets is left to the *)
(* modules that extend this one: Rejoin (any faults, few of them) and      *)
(* Scenarios (the fault models the repository ships).                      *)
(*                                                                         *)
(* A round is a sequence of turns: the control plane's, each node's in the *)
(* order of their ids, the network's.  Updates travel to a node through a  *)
(* one-place mailbox (push_control_plane_update / _pull_...) that the next *)
(* push overwrites; a node's events reach the control plane right after    *)
(* its turn.                                                               *)
(*                                                                         *)
(* As module FastPath shows (ProposalsMatchRow), a stage's proposals are   *)
(* those its row announces, so a stage need not hold them.                 *)
(***************************************************************************)
EXTENDS ControlPlane

CONSTANT MaxRound        \* bound: ClusterRun.rounds

ASSUME ClusterAssumption ==
  /\ Node = 0 .. Cardinality(Node) - 1
  /\ MaxRound \in Nat

VARIABLES
  round,       \* the round under way
  turn,        \* whose turn it is in the round
  cp,          \* the control plane, see ControlPlane
  nodes,       \* the nodes
  mailbox,     \* _pending_control_plane_update: <<>> or <<an update>>
  lastUpdate,  \* _last_control_plane_updates, likewise
  history,     \* commit_history_by_node
  packets      \* the packets of this round

clusterVars == <<round, turn, cp, nodes, mailbox, lastUpdate, history, packets>>

ControlTurn == -1

NetworkTurn == Cardinality(Node)

RoundStart == round * RoundLength

NoStage(config) == [round |-> -1, epoch |-> config.epoch,
                    members |-> config.members, row |-> {},
                    rows |-> [m \in Node |-> {}]]

NewNode ==
  LET config == InitialConfig
  IN  [status |-> "RUNNING", state |-> "ACTIVE", config |-> config,
       sound |-> Node, pending |-> NoPending,
       current |-> NoStage(config), previous |-> NoStage(config),
       digest |-> <<>>]   \* commit_digest: the log it is the digest of

ClusterInit ==
  /\ round = 0
  /\ turn = ControlTurn
  /\ \E delay \in InstallDelays : cp = InitialControlPlane(delay)
  /\ nodes = [n \in Node |-> NewNode]
  /\ mailbox = [n \in Node |-> <<>>]
  /\ lastUpdate = [n \in Node |-> <<>>]
  /\ history = [n \in Node |-> <<>>]
  /\ packets = {}

-----------------------------------------------------------------------------
(* The control plane's turn. *)

\* What node n is told of the control plane's state c.
UpdateFor(c, n) == [config |-> c.config, state |-> c.states[n],
                    pending |-> c.pending, repair |-> c.repair[n]]

\* push_control_plane_update(): one place, so an update not pulled yet is lost.
Pushed(update) == <<update>>

\* _repair_log_snapshots(): the logs as they are when the round begins.
RepairSnapshots == history

\* Only a changed update is pushed; its repair log replaces the node's history.
ControlPlaneTurn ==
  /\ turn = ControlTurn
  /\ LET c == ControlState(AdvanceToTime(cp, RoundStart, RepairSnapshots), round,
                          RepairSnapshots)
         changed == {n \in Node : lastUpdate[n] # <<UpdateFor(c, n)>>}
     IN  /\ cp' = c
         /\ mailbox' = [n \in Node |-> IF n \in changed THEN Pushed(UpdateFor(c, n))
                                                         ELSE mailbox[n]]
         /\ lastUpdate' = [n \in Node |-> <<UpdateFor(c, n)>>]
         /\ history' = [n \in Node |-> IF n \in changed /\ c.repair[n] # <<>>
                                        THEN c.repair[n] ELSE history[n]]
  /\ turn' = 0
  /\ UNCHANGED <<round, nodes, packets>>

-----------------------------------------------------------------------------
(* A node's turn: what it takes over from the control plane. *)

\* MUTANT: the stages of the old run are kept.
KeepPipeline(node) == [node EXCEPT !.sound = node.config.members]

ResetPipeline(node) == [node EXCEPT !.sound = node.config.members,
                                    !.current = NoStage(node.config),
                                    !.previous = NoStage(node.config)]

SwitchIsDue(node) ==
  node.pending.status = "COMMITTED" /\ round >= node.pending.effective

\* _activate_pending_config_if_due().
Switched(node) ==
  IF ~SwitchIsDue(node) THEN node
  ELSE ResetPipeline([node EXCEPT !.config = [epoch |-> node.pending.epoch,
                                              members |-> node.pending.members,
                                              run |-> node.pending.run],
                                  !.pending = NoPending,
                                  !.state = "ACTIVE"])

Reboots(node, update) ==
  /\ node.status # "RUNNING"
  /\ update.state \in {"RECOVERING", "REJOIN_PENDING", "ACTIVE"}

\* A chain of hashes, taken to be free of collisions: it is what went into it.
Extended(digest, entry) == Append(digest, entry)

DigestOf(log) ==
  LET digest[i \in 0 .. Len(log)] ==
        IF i = 0 THEN <<>> ELSE Extended(digest[i - 1], log[i])
  IN  digest[Len(log)]

\* committed_frontier, of a log or of the log a digest is of.
Frontier(log) == IF log = <<>> THEN -1 ELSE Last(log).round

ShouldInstall(node, log) ==
  /\ log # <<>>
  /\ Frontier(log) # Frontier(node.digest) \/ DigestOf(log) # node.digest

\* MUTANT: the first repair log is kept, later ones are not installed.
RepairedOnce(node, update) ==
  IF ~ShouldInstall(node, update.repair) \/ node.state = "REJOIN_PENDING"
  THEN node.digest ELSE DigestOf(update.repair)

Repaired(node, update) ==
  IF ShouldInstall(node, update.repair) THEN DigestOf(update.repair) ELSE node.digest

\* _apply_control_plane_update().
Updated(node, update) ==
  LET told == [node EXCEPT !.config = update.config,
                           !.sound = update.config.members,
                           !.pending = update.pending,
                           !.state = update.state,
                           !.status = IF Reboots(node, update) THEN "RUNNING" ELSE @,
                           !.digest = Repaired(node, update)]
  IN  IF \/ node.state # "ACTIVE" /\ update.state = "ACTIVE"
         \/ node.config # update.config
      THEN ResetPipeline(told) ELSE told

\* The node once it has switched and pulled its mailbox.
Briefed(n) ==
  IF mailbox[n] = <<>> THEN Switched(nodes[n])
  ELSE Updated(Switched(nodes[n]), Head(mailbox[n]))

\* A newly prepared config is acknowledged, by a stopped node too.
Acknowledges(n) ==
  /\ mailbox[n] # <<>>
  /\ Briefed(n).pending.status = "PREPARED"
  /\ Briefed(n).pending # Switched(nodes[n]).pending

\* A stop is known to the control plane HaltReportDelay after the round's start.
ControlPlaneAfterStop(c, n) == NoteInterruption(c, n, RoundStart + HaltReportDelay)

ControlPlaneAfterAck(n) ==
  IF Acknowledges(n) THEN NotePrepareAck(cp, n, Briefed(n).pending, RoundStart) ELSE cp

-----------------------------------------------------------------------------
(* A node's turn: the round boundary. *)

Participates(node, n) ==
  node.status = "RUNNING" /\ node.state = "ACTIVE" /\ n \in node.sound

\* Shift the stage buffers and open the stage of this round.
Shifted(node, n) ==
  [node EXCEPT !.previous = [node.current EXCEPT !.rows[n] = node.current.row],
               !.current = [round |-> round, epoch |-> node.config.epoch,
                            members |-> node.config.members, row |-> {n},
                            rows |-> [m \in Node |-> {}]]]

ProposalsOf(stage) ==
  [m \in Node |-> IF m \in stage.row THEN stage.round ELSE NoProposal]

StageVerdict(node, n) ==
  LET judged == node.previous
  IN  IF judged.round < 0 THEN "skip"
      ELSE Verdict(n, judged.members, judged.rows, ProposalsOf(judged), node.sound)

\* A packet goes to the whole membership, whoever the node still counts.
Destinations(node, n) == node.config.members \ {n}

PacketOf(node, n) == [round |-> round, src |-> n, run |-> node.config.run,
                      row |-> node.current.row,
                      destinations |-> Destinations(node, n)]

\* cluster.run() turns to node n, which pulls its update and goes on from there.
NodeTurn(n) ==
  /\ turn = n
  /\ turn' = n + 1
  /\ mailbox' = [mailbox EXCEPT ![n] = <<>>]
  /\ UNCHANGED <<round, lastUpdate>>

\* A node that does not take part keeps its stages as they are.
SitOut(n) ==
  /\ NodeTurn(n)
  /\ ~Participates(Briefed(n), n)
  /\ nodes' = [nodes EXCEPT ![n] = Briefed(n)]
  /\ cp' = ControlPlaneAfterAck(n)
  /\ UNCHANGED <<history, packets>>

\* After a reset there is no stage to judge for two rounds.
FillPipeline(n) ==
  LET node == Briefed(n)
  IN  /\ NodeTurn(n)
      /\ Participates(node, n)
      /\ StageVerdict(node, n) = "skip"
      /\ nodes' = [nodes EXCEPT ![n] = Shifted(node, n)]
      /\ packets' = packets \cup {PacketOf(node, n)}
      /\ cp' = ControlPlaneAfterAck(n)
      /\ UNCHANGED history

CommitStage(n) ==
  LET node == Briefed(n)
      judged == node.previous
      entry == [round |-> judged.round, epoch |-> judged.epoch,
                commitSet |-> AgreedRow(n, judged.rows)]
  IN  /\ NodeTurn(n)
      /\ Participates(node, n)
      /\ StageVerdict(node, n) = "commit"
      /\ nodes' = [nodes EXCEPT ![n] =
           [Shifted(node, n) EXCEPT
              !.sound = SoundSet(n, judged.members, judged.rows),
              !.digest = Extended(@, entry)]]
      /\ history' = [history EXCEPT ![n] = Append(@, entry)]
      /\ packets' = packets \cup {PacketOf(node, n)}
      /\ cp' = ControlPlaneAfterAck(n)

\* NodeHalted is reported after the acknowledgement, if there is one.
HaltStage(n) ==
  LET node == Briefed(n)
  IN  /\ NodeTurn(n)
      /\ Participates(node, n)
      /\ StageVerdict(node, n) \notin {"skip", "commit"}
      /\ nodes' = [nodes EXCEPT ![n] = [Shifted(node, n) EXCEPT !.status = "HALTED"]]
      /\ cp' = ControlPlaneAfterStop(ControlPlaneAfterAck(n), n)
      /\ UNCHANGED <<history, packets>>

\* Node.crash().  In the round of its crash a node does not even pull its mailbox.
CrashNode(n) ==
  /\ turn = n
  /\ nodes[n].status = "RUNNING"
  /\ nodes' = [nodes EXCEPT ![n].status = "CRASHED"]
  /\ cp' = ControlPlaneAfterStop(cp, n)
  /\ turn' = n + 1
  /\ UNCHANGED <<round, mailbox, lastUpdate, history, packets>>

-----------------------------------------------------------------------------
(* The network's turn. *)

\* MUTANT: the round a packet is labelled with is not compared.
CountsAnyRound(n, p) ==
  /\ nodes[n].status = "RUNNING"
  /\ nodes[n].state = "ACTIVE"
  /\ p.src \in nodes[n].sound
  /\ p.run = nodes[n].config.run

\* The packets receive() counts are those of its round.
Counts(n, p) ==
  /\ nodes[n].status = "RUNNING"
  /\ nodes[n].state = "ACTIVE"
  /\ p.src \in nodes[n].sound
  /\ p.run = nodes[n].config.run
  /\ p.round = round

\* A proposal for the current stage, and a row for the previous one.
Received(node, heard) ==
  [node EXCEPT
     !.current.row = @ \cup {p.src : p \in heard},
     !.previous.rows = [m \in Node |->
        IF \E p \in heard : p.src = m
        THEN (CHOOSE p \in heard : p.src = m).row
        ELSE node.previous.rows[m]]]

\* Each node n receives the packets arriving[n], and the round ends.
Deliver(arriving) ==
  /\ turn = NetworkTurn
  /\ nodes' = [n \in Node |-> Received(nodes[n], {p \in arriving[n] : Counts(n, p)})]
  /\ packets' = {}
  /\ round' = round + 1
  /\ turn' = ControlTurn
  /\ UNCHANGED <<cp, mailbox, lastUpdate, history>>

-----------------------------------------------------------------------------
(* The cluster under any faults at all: what Rejoin and Scenarios have in common. *)

\* The turn of a node that is up.
NodeActs(n) == SitOut(n) \/ FillPipeline(n) \/ CommitStage(n) \/ HaltStage(n)

\* Everything sent arrives in its round, but for what is lost.
DeliverAllBut(lost) ==
  Deliver([n \in Node |-> {p \in packets : n \in p.destinations /\ <<n, p>> \notin lost}])

FaultyNext ==
  \/ round < MaxRound /\ ControlPlaneTurn
  \/ \E n \in Node : NodeActs(n)
  \/ \E n \in Node : CrashNode(n)
  \/ \E lost \in SUBSET (Node \X packets) : DeliverAllBut(lost)

\* Any node may crash at any time and any packet may be lost.
FaultySpec == ClusterInit /\ [][FaultyNext]_clusterVars

-----------------------------------------------------------------------------
(* The types of the state. *)

NodeStatuses == {"RUNNING", "HALTED", "CRASHED"}

Stages == [round : -1 .. MaxRound, epoch : Nat, members : SUBSET Node,
           row : SUBSET Node, rows : [Node -> SUBSET Node]]

NodeStates ==
  [status : NodeStatuses, state : MembershipStates, config : Configs,
   sound : SUBSET Node, pending : Pendings, current : Stages, previous : Stages,
   digest : Seq(Entries)]

Updates == [config : Configs, state : MembershipStates, pending : Pendings,
            repair : Seq(Entries)]

OutboundPackets ==
  [round : 0 .. MaxRound, src : Node, run : Nat, row : SUBSET Node,
   destinations : SUBSET Node]

ClusterTypeOK ==
  /\ round \in 0 .. MaxRound
  /\ turn \in ControlTurn .. NetworkTurn
  /\ cp \in ControlPlaneStates
  /\ nodes \in [Node -> NodeStates]
  /\ DOMAIN lastUpdate = Node /\ DOMAIN mailbox = Node
  /\ \A n \in Node :
       /\ lastUpdate[n] \in Seq(Updates) /\ Len(lastUpdate[n]) <= 1
       /\ mailbox[n] \in {<<>>, lastUpdate[n]}
  /\ history \in [Node -> Seq(Entries)]
  /\ packets \subseteq OutboundPackets
=============================================================================
