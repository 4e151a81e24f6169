----------------------------- MODULE ClusterProofs ----------------------------
(***************************************************************************)
(* Proofs about the cluster across cutovers, for any number of nodes, any  *)
(* timing and any number of faults, and so about Rejoin and Scenarios.     *)
(*                                                                         *)
(* The nodes lag behind the control plane by a mailbox, and by a round     *)
(* when they crash.  What carries the proof is who may still act on an old *)
(* config: nobody, for a node that lives has pulled its mailbox by the end *)
(* of its turn, and a node that comes back starts with empty stages        *)
(* (Briefed).  So a commit is always one of the present epoch, and of the  *)
(* round two before; the nodes that commit it agree because each of them   *)
(* holds the rows of a majority that has sent one row each (EvidenceInv),  *)
(* and no repair log reaches that far (EntriesInv).                        *)
(***************************************************************************)
EXTENDS Rejoin, Scenarios, ControlPlaneProofs, SequenceTheorems

Live(n) == nodes[n].status = "RUNNING" /\ nodes[n].state = "ACTIVE"

\* A node that goes on in the present run: whoever else lives has still to be told of it.
Going(n) == Live(n) /\ nodes[n].config = cp.config /\ cp.states[n] = "ACTIVE"

Turned(n) == turn > n

Settled(n) == turn = ControlTurn \/ Turned(n)

\* The round that the current stage of node n is of.
StageRound(n) == IF Turned(n) THEN round ELSE round - 1

Told(n) == lastUpdate[n][1]

\* What node n knows of the control plane.
WellBriefed(n) ==
  /\ lastUpdate[n] = <<>> => turn = ControlTurn
  /\ lastUpdate[n] # <<>> =>
       /\ Told(n).config = cp.config /\ Told(n).pending = cp.pending
       /\ Told(n).state = cp.states[n] \/ (Settled(n) /\ cp.states[n] = "FAILED")
       /\ mailbox[n] = <<>> =>
            /\ nodes[n].config = cp.config /\ nodes[n].pending = cp.pending
            /\ nodes[n].state = Told(n).state
  /\ nodes[n].config = cp.config \/ nodes[n].config.run < cp.config.run
  /\ nodes[n].config = cp.config /\ nodes[n].pending.status = "COMMITTED" =>
       nodes[n].pending = cp.pending
  /\ Settled(n) => (Live(n) <=> cp.states[n] = "ACTIVE") /\ (Live(n) => Going(n))
  /\ ~Settled(n) /\ cp.states[n] = "ACTIVE" =>
       IF nodes[n].config = cp.config THEN Live(n)
       ELSE \A e \in Range(history[n]) : e.epoch < cp.config.epoch
  /\ Live(n) => n \in nodes[n].sound

BriefInv ==
  /\ turn # ControlTurn => round < MaxRound /\ ~CutoverIsDue(cp, round)
  /\ \A n \in Node : WellBriefed(n)

\* The stages of those who go on are those of the last two rounds, or empty.
InStep(n) ==
  LET node == nodes[n]
  IN  /\ node.current.round \in {-1, StageRound(n)}
      /\ node.current.round # -1 => node.current.epoch = cp.config.epoch
      /\ node.current.row \subseteq node.sound
      /\ \A m \in Node : node.current.rows[m] = {}
      /\ \A m \in Node : node.previous.rows[m] # {} => m \in node.sound
      /\ node.previous.round # -1 =>
           /\ node.previous.round = StageRound(n) - 1
           /\ node.current.round = StageRound(n)
           /\ node.previous.epoch = cp.config.epoch
           /\ node.previous.rows[n] = node.previous.row

StageInv == \A n \in Node : Going(n) => InStep(n)

\* A node sends one packet in a round, and says in it what its own row is.
Echoed(n) ==
  \A m \in Node : nodes[n].previous.rows[m] # {} =>
    m = n /\ \E p \in packets : p.src = n /\ p.row = nodes[n].previous.rows[n]

PacketInv ==
  /\ \A p \in packets : p.round = round /\ Turned(p.src) /\ p.src \notin p.destinations
  /\ \A p, q \in packets : p.src = q.src => p = q
  /\ \A n \in Node : (Going(n) /\ Turned(n) /\ nodes[n].previous.round # -1) => Echoed(n)

AllEntries == UNION {Range(history[n]) \cup Range(cp.repair[n]) : n \in Node}

\* What has been committed is of this epoch or an earlier one; only what is committed in
\* this round reaches up to two rounds before it.
EntriesInv ==
  /\ \A e \in AllEntries : e.epoch <= cp.config.epoch /\ e.round <= round - 2
  /\ turn = ControlTurn => \A e \in AllEntries : e.round <= round - 3
  /\ \A n \in Node : \A e \in Range(cp.repair[n]) : e.round <= round - 3
  /\ \A e, f \in AllEntries : e.round = f.round => e = f

\* The nodes that have sent the row of an entry.
Senders(adv, e) == {m \in Node : adv[m] = e.commitSet}

\* adv is the row each node has sent in the round before, {} if none.
Evidence(adv) ==
  /\ \A n \in Node : (Going(n) /\ ~Turned(n) /\ nodes[n].previous.round # -1) =>
       \A m \in Node : nodes[n].previous.rows[m] \in {{}, adv[m]}
  /\ \A n \in Node : \A e \in Range(history[n]) : e.round = round - 2 =>
       /\ e.epoch = cp.config.epoch
       /\ e.commitSet # {}
       /\ Cardinality(Senders(adv, e)) >= Quorum

EvidenceInv == \E adv \in [Node -> SUBSET Node] : Evidence(adv)

NoGaps(log) ==
  \A i \in 1 .. Len(log) - 1 :
    LET this == log[i]
        next == log[i + 1]
    IN  \/ next.round = this.round + 1 /\ next.epoch = this.epoch
        \/ next.round > this.round /\ next.epoch > this.epoch

NobodyBack(log) ==
  \A i, j \in 1 .. Len(log) :
    (i + 1 < j /\ log[i].epoch = log[j].epoch) => log[j].commitSet \subseteq log[i].commitSet

GoodLog(log) == NoGaps(log) /\ NobodyBack(log)

\* Whoever goes on and has committed in this run has committed up to its stages, and is
\* left with nobody who missed one of those rounds but in its two stages.
UpToDate(n) ==
  LET node == nodes[n]
      log == history[n]
  IN  \A i \in 1 .. Len(log) : log[i].epoch = cp.config.epoch =>
        /\ log[Len(log)].epoch = cp.config.epoch
        /\ log[Len(log)].round = StageRound(n) - 2
        /\ node.previous.round = StageRound(n) - 1
        /\ node.sound \subseteq log[i].commitSet
        /\ i # Len(log) => node.previous.row \subseteq log[i].commitSet

LogInv ==
  /\ \A n \in Node : GoodLog(history[n]) /\ GoodLog(cp.repair[n])
  /\ \A n \in Node : Going(n) => UpToDate(n)

AckInv == \A n \in cp.acks : nodes[n].pending.run = cp.pending.run

IInv ==
  /\ ClusterTypeOK
  /\ ControlPlaneInv(cp)
  /\ BriefInv
  /\ StageInv
  /\ PacketInv
  /\ EntriesInv
  /\ EvidenceInv
  /\ LogInv
  /\ AckInv

-----------------------------------------------------------------------------
(* Turns, logs and their types. *)

(* The nodes take their turns in the order of their ids. *)
LEMMA Turns ==
  /\ Node \subseteq Nat /\ NetworkTurn \in Nat /\ IsFiniteSet(Node)
  /\ \A n \in Node : n < NetworkTurn /\ n # ControlTurn
  /\ \A n \in Nat : n < NetworkTurn => n \in Node
<1>1. NetworkTurn \in Nat
  BY NodeAssumption, FS_CardinalityType DEF NetworkTurn
<1> QED
  BY <1>1, NodeAssumption, ClusterAssumption DEF NetworkTurn, ControlTurn

(* Two majorities have a node in common. *)
LEMMA QuorumsIntersect ==
  ASSUME NEW P \in SUBSET Node, NEW Q \in SUBSET Node,
         Cardinality(P) >= Quorum, Cardinality(Q) >= Quorum
  PROVE  P \cap Q # {}
<1>1. IsFiniteSet(P) /\ IsFiniteSet(Q)
  BY NodeAssumption, FS_Subset
<1>2. Cardinality(P) \in Nat /\ Cardinality(Q) \in Nat /\ Cardinality(Node) \in Nat
  BY <1>1, NodeAssumption, FS_CardinalityType
<1>3. Cardinality(P) + Cardinality(Q) > Cardinality(Node)
  BY <1>2 DEF Quorum
<1> QED
  BY <1>3, NodeAssumption, FS_MajoritiesIntersect

(* The digest of a log stands for the log. *)
LEMMA DigestIsLog ==
  ASSUME NEW T, NEW log \in Seq(T)
  PROVE  DigestOf(log) = log
<1> DEFINE N == Len(log)
           f == [i \in 0 .. N |-> SubSeq(log, 1, i)]
           Step(g) == [i \in 0 .. N |-> IF i = 0 THEN <<>> ELSE Append(g[i - 1], log[i])]
           digest == CHOOSE g : g = Step(g)
<1>1. N \in Nat
  BY LenProperties
<1>2. ASSUME NEW i \in 1 .. N
      PROVE  SubSeq(log, 1, i) = Append(SubSeq(log, 1, i - 1), log[i])
  <2>1. SubSeq(log, 1, i) = SubSeq(log, 1, i - 1) \o <<log[i]>>
    BY <1>1, <1>2, SubSeqRecursiveSecond
  <2>2. SubSeq(log, 1, i - 1) \in Seq(T) /\ log[i] \in T
    BY <1>1, <1>2, SubSeqProperties, ElementOfSeq
  <2> QED
    BY <2>1, <2>2, AppendIsConcat
<1>3. SubSeq(log, 1, 0) = <<>> /\ SubSeq(log, 1, N) = log
  <2>1. SubSeq(log, 1, 0) = <<>>
    OBVIOUS
  <2>2. SubSeq(log, 1, N) = log
    BY SubSeqFull
  <2> QED
    BY <2>1, <2>2
<1>4. \A i \in 0 .. N : f[i] = IF i = 0 THEN <<>> ELSE Append(f[i - 1], log[i])
  BY <1>1, <1>2, <1>3
<1>5. f = Step(f)
  <2> HIDE DEF f
  <2>1. DOMAIN f = 0 .. N /\ f = [i \in 0 .. N |-> f[i]]
    BY DEF f
  <2> QED
    BY <1>4, <2>1
<1>6. digest = Step(digest)
  <2> HIDE DEF f, Step
  <2> QED
    BY <1>5
<1> HIDE DEF digest
<1>7. \A i \in 0 .. N : digest[i] = IF i = 0 THEN <<>> ELSE Append(digest[i - 1], log[i])
  BY <1>6
<1> DEFINE S == {i \in Nat : i <= N => digest[i] = f[i]}
<1>8. 0 \in S
  <2> HIDE DEF f
  <2> QED
    BY <1>1, <1>4, <1>7
<1>9. ASSUME NEW i \in Nat, i \in S PROVE i + 1 \in S
  <2> HIDE DEF f
  <2> QED
    BY <1>1, <1>4, <1>7, <1>9
<1>10. N \in S
  <2> HIDE DEF S
  <2> QED
    BY <1>1, <1>8, <1>9, SetInduction
<1>11. digest[N] = log
  BY <1>1, <1>3, <1>10
<1>12. DigestOf(log) = digest[N]
  BY DEF DigestOf, Extended, digest
<1> QED
  BY <1>11, <1>12

(* The parts of a node have their types. *)
LEMMA NodeTypes ==
  ASSUME NEW node \in NodeStates
  PROVE  /\ node.status \in NodeStatuses /\ node.state \in MembershipStates
         /\ node.config \in Configs /\ node.sound \in SUBSET Node
         /\ node.pending \in Pendings /\ node.digest \in Seq(Entries)
         /\ node.current \in Stages /\ node.previous \in Stages
  BY Zenon DEF NodeStates

(* So have those of a stage, *)
LEMMA StageTypes ==
  ASSUME NEW stage \in Stages
  PROVE  /\ stage.round \in -1 .. MaxRound /\ stage.epoch \in Nat
         /\ stage.members \in SUBSET Node /\ stage.row \in SUBSET Node
         /\ stage.rows \in [Node -> SUBSET Node]
  BY Zenon DEF Stages

(* and of an entry. *)
LEMMA EntryTypes ==
  ASSUME NEW e \in Entries
  PROVE  e.round \in Nat /\ e.epoch \in Nat /\ e.commitSet \in SUBSET Node
  BY DEF Entries

(* An empty stage is one. *)
LEMMA NoStageType ==
  ASSUME NEW config \in Configs
  PROVE  NoStage(config) \in Stages
  BY ClusterAssumption DEF NoStage, Configs, Stages

(* What a reset leaves. *)
LEMMA ResetType ==
  ASSUME NEW node \in NodeStates
  PROVE  /\ ResetPipeline(node) \in NodeStates
         /\ ResetPipeline(node).status = node.status /\ ResetPipeline(node).state = node.state
         /\ ResetPipeline(node).config = node.config
         /\ ResetPipeline(node).pending = node.pending
         /\ ResetPipeline(node).digest = node.digest
         /\ ResetPipeline(node).sound = node.config.members
         /\ ResetPipeline(node).current = NoStage(node.config)
         /\ ResetPipeline(node).previous = NoStage(node.config)
<1>1. NoStage(node.config) \in Stages
  BY NodeTypes, NoStageType
<1>2. node.config.members \in SUBSET Node
  BY NodeTypes DEF Configs
<1>3. ResetPipeline(node) \in NodeStates
  BY <1>1, <1>2, Zenon DEF NodeStates, ResetPipeline
<1> QED
  BY <1>3 DEF NodeStates, ResetPipeline

(* A node that switches by itself has empty stages of the run it switches to. *)
LEMMA SwitchedIs ==
  ASSUME NEW n \in Node, nodes[n] \in NodeStates, NEW node, node = Switched(nodes[n])
  PROVE  /\ node \in NodeStates /\ node.status = nodes[n].status
         /\ node.digest = nodes[n].digest
         /\ \/ node = nodes[n] /\ ~SwitchIsDue(nodes[n])
            \/ /\ SwitchIsDue(nodes[n]) /\ node.state = "ACTIVE"
               /\ node.sound = node.config.members
               /\ node.current = NoStage(node.config) /\ node.previous = NoStage(node.config)
<1>1. CASE ~SwitchIsDue(nodes[n])
  BY <1>1 DEF Switched
<1>2. CASE SwitchIsDue(nodes[n])
  <2> DEFINE old == nodes[n]
             config == [epoch |-> old.pending.epoch, members |-> old.pending.members,
                        run |-> old.pending.run]
             new == [old EXCEPT !.config = config, !.pending = NoPending, !.state = "ACTIVE"]
  <2>1. config \in Configs
    BY NodeTypes DEF Configs, Pendings
  <2>2. node = ResetPipeline(new)
    BY <1>2 DEF Switched
  <2> HIDE DEF config
  <2>3. "ACTIVE" \in MembershipStates /\ old \in NodeStates
    BY DEF MembershipStates
  <2>4. new \in NodeStates
    <3> HIDE DEF old
    <3> QED
      BY <2>1, <2>3, NoPendingType, Zenon DEF NodeStates
  <2>5. new.status = old.status /\ new.state = "ACTIVE" /\ new.digest = old.digest
    BY DEF NodeStates
  <2> HIDE DEF new
  <2> QED
    BY <1>2, <2>2, <2>4, <2>5, ResetType
<1> QED
  BY <1>1, <1>2

(* A repair log is installed unless the node's log is just that. *)
LEMMA RepairedIs ==
  ASSUME NEW node, NEW update, update.repair \in Seq(Entries)
  PROVE  Repaired(node, update) = IF update.repair = <<>> THEN node.digest ELSE update.repair
<1>1. DigestOf(update.repair) = update.repair
  BY DigestIsLog
<1> QED
  BY <1>1 DEF Repaired, ShouldInstall

(* What a node makes of an update. *)
LEMMA UpdatedIs ==
  ASSUME NEW old \in NodeStates, NEW update \in Updates,
         NEW node, node = Updated(old, update)
  PROVE  /\ node \in NodeStates
         /\ node.config = update.config /\ node.pending = update.pending
         /\ node.state = update.state /\ node.sound = update.config.members
         /\ node.status = IF Reboots(old, update) THEN "RUNNING" ELSE old.status
         /\ node.digest = IF update.repair = <<>> THEN old.digest ELSE update.repair
         /\ IF (old.state # "ACTIVE" /\ update.state = "ACTIVE") \/ old.config # update.config
            THEN /\ node.current = NoStage(update.config)
                 /\ node.previous = NoStage(update.config)
            ELSE node.current = old.current /\ node.previous = old.previous
<1> DEFINE status == IF Reboots(old, update) THEN "RUNNING" ELSE old.status
           digest == Repaired(old, update)
           told == [old EXCEPT !.config = update.config, !.sound = update.config.members,
                               !.pending = update.pending, !.state = update.state,
                               !.status = status, !.digest = digest]
<1>1. /\ update.config \in Configs /\ update.config.members \in SUBSET Node
      /\ update.pending \in Pendings /\ update.state \in MembershipStates
      /\ update.repair \in Seq(Entries)
  BY DEF Updates, Configs
<1>2. status \in NodeStatuses
  BY NodeTypes DEF NodeStatuses
<1>3. /\ digest = IF update.repair = <<>> THEN old.digest ELSE update.repair
      /\ digest \in Seq(Entries)
  BY <1>1, NodeTypes, RepairedIs
<1>4. node = IF (old.state # "ACTIVE" /\ update.state = "ACTIVE") \/ old.config # update.config
             THEN ResetPipeline(told) ELSE told
  BY Zenon DEF Updated
<1> HIDE DEF status, digest
<1>5. told \in NodeStates
  BY <1>1, <1>2, <1>3, Zenon DEF NodeStates
<1>6. /\ told.config = update.config /\ told.sound = update.config.members
      /\ told.pending = update.pending /\ told.state = update.state
      /\ told.status = status /\ told.digest = digest
      /\ told.current = old.current /\ told.previous = old.previous
  BY DEF NodeStates
<1> HIDE DEF told
<1>7. CASE (old.state # "ACTIVE" /\ update.state = "ACTIVE") \/ old.config # update.config
  <2>1. node = ResetPipeline(told)
    BY <1>4, <1>7
  <2>2. /\ node \in NodeStates /\ node.status = told.status /\ node.state = told.state
        /\ node.config = told.config /\ node.pending = told.pending
        /\ node.digest = told.digest
        /\ node.sound = told.config.members
        /\ node.current = NoStage(told.config) /\ node.previous = NoStage(told.config)
    BY <1>5, <2>1, ResetType
  <2> QED
    BY <1>3, <1>6, <1>7, <2>2 DEF status
<1>8. CASE ~((old.state # "ACTIVE" /\ update.state = "ACTIVE") \/ old.config # update.config)
  BY <1>3, <1>4, <1>5, <1>6, <1>8 DEF status
<1> QED
  BY <1>7, <1>8

(* The types of what the proofs speak of. *)
LEMMA Types ==
  ASSUME ClusterTypeOK
  PROVE  /\ round \in 0 .. MaxRound /\ turn \in ControlTurn .. NetworkTurn
         /\ cp \in ControlPlaneStates /\ packets \subseteq OutboundPackets
         /\ \A n \in Node :
              /\ nodes[n] \in NodeStates /\ history[n] \in Seq(Entries)
              /\ mailbox[n] \in {<<>>, lastUpdate[n]}
              /\ lastUpdate[n] # <<>> => Told(n) \in Updates /\ lastUpdate[n] = <<Told(n)>>
<1>1. \A n \in Node : lastUpdate[n] # <<>> => Told(n) \in Updates /\ lastUpdate[n] = <<Told(n)>>
  <2> TAKE n \in Node
  <2>1. lastUpdate[n] \in Seq(Updates) /\ Len(lastUpdate[n]) <= 1
    BY DEF ClusterTypeOK
  <2> QED
    BY <2>1 DEF Told
<1> QED
  BY <1>1 DEF ClusterTypeOK

(* What a node is in its turn, once it has switched and pulled its mailbox: it knows what
   the control plane knows, and if it is active it either goes on with its stages or has
   empty ones and nothing of this epoch in its log. *)
LEMMA BriefedIs ==
  ASSUME IInv, NEW n \in Node, turn = n, NEW node, node = Briefed(n)
  PROVE  /\ node \in NodeStates
         /\ node.config = cp.config /\ node.pending = cp.pending /\ node.state = cp.states[n]
         /\ cp.states[n] = "FAILED" => node.status = nodes[n].status
         /\ cp.states[n] = "ACTIVE" =>
              /\ node.status = "RUNNING" /\ n \in node.sound
              /\ node.sound \in {nodes[n].sound, cp.config.members}
              /\ \/ /\ Going(n)
                    /\ node.current = nodes[n].current /\ node.previous = nodes[n].previous
                 \/ /\ nodes[n].config # cp.config
                    /\ node.current = NoStage(cp.config) /\ node.previous = NoStage(cp.config)
                    /\ \A e \in Range(history[n]) : e.epoch < cp.config.epoch
<1> DEFINE old == Switched(nodes[n])
<1>1. /\ ClusterTypeOK /\ WellBriefed(n) /\ ~CutoverIsDue(cp, round) /\ n # ControlTurn
      /\ ~Settled(n) /\ lastUpdate[n] # <<>>
  BY Turns DEF IInv, BriefInv, WellBriefed, Settled, Turned
<1>2. /\ Told(n).config = cp.config /\ Told(n).pending = cp.pending
      /\ Told(n).state = cp.states[n]
      /\ mailbox[n] = <<>> =>
           /\ nodes[n].config = cp.config /\ nodes[n].pending = cp.pending
           /\ nodes[n].state = Told(n).state
      /\ nodes[n].config = cp.config /\ nodes[n].pending.status = "COMMITTED" =>
           nodes[n].pending = cp.pending
      /\ cp.states[n] = "ACTIVE" => IF nodes[n].config = cp.config THEN Live(n)
            ELSE \A e \in Range(history[n]) : e.epoch < cp.config.epoch
      /\ Live(n) => n \in nodes[n].sound
  BY <1>1 DEF WellBriefed
<1>3. nodes[n] \in NodeStates /\ mailbox[n] \in {<<>>, <<Told(n)>>} /\ Told(n) \in Updates
  BY <1>1, Types
<1>4. /\ old \in NodeStates /\ old.status = nodes[n].status
      /\ \/ old = nodes[n] /\ ~SwitchIsDue(nodes[n])
         \/ /\ SwitchIsDue(nodes[n]) /\ old.state = "ACTIVE"
            /\ old.sound = old.config.members
            /\ old.current = NoStage(old.config) /\ old.previous = NoStage(old.config)
  BY <1>3, SwitchedIs
<1>5. nodes[n].config = cp.config => ~SwitchIsDue(nodes[n])
  BY <1>1, <1>2 DEF SwitchIsDue, CutoverIsDue
<1> HIDE DEF old
<1>6. CASE mailbox[n] = <<>>
  <2>1. node = nodes[n]
    BY <1>2, <1>4, <1>5, <1>6 DEF Briefed, old
  <2> QED
    BY <1>2, <1>3, <1>6, <2>1 DEF Going, Live
<1>7. CASE mailbox[n] = <<Told(n)>>
  <2>1. node = Updated(old, Told(n))
    BY <1>7 DEF Briefed, old
  <2>2. /\ node \in NodeStates
        /\ node.config = cp.config /\ node.pending = cp.pending
        /\ node.state = cp.states[n] /\ node.sound = cp.config.members
        /\ node.status = IF Reboots(old, Told(n)) THEN "RUNNING" ELSE old.status
        /\ IF (old.state # "ACTIVE" /\ cp.states[n] = "ACTIVE") \/ old.config # cp.config
           THEN /\ node.current = NoStage(cp.config)
                /\ node.previous = NoStage(cp.config)
           ELSE node.current = old.current /\ node.previous = old.previous
    BY <1>2, <1>3, <1>4, <2>1, UpdatedIs
  <2>3. CASE cp.states[n] = "ACTIVE"
    <3>1. n \in cp.config.members
      BY <2>3 DEF IInv, ControlPlaneInv, InvWith, StatesInv
    <3>2. node.status = "RUNNING"
      BY <1>2, <2>2, <2>3 DEF Reboots
    <3>3. CASE nodes[n].config = cp.config
      BY <1>2, <1>4, <1>5, <2>2, <2>3, <3>1, <3>2, <3>3 DEF Going, Live
    <3>4. CASE nodes[n].config # cp.config
      BY <1>2, <1>4, <2>2, <2>3, <3>1, <3>2, <3>4
    <3> QED
      BY <3>3, <3>4
  <2>4. cp.states[n] = "FAILED" => node.status = nodes[n].status
    BY <1>2, <1>4, <2>2 DEF Reboots
  <2> QED
    BY <2>2, <2>3, <2>4
<1> QED
  BY <1>3, <1>6, <1>7

-----------------------------------------------------------------------------
(* A node's turn, whatever it does in it. *)

\* What all that a node may do in its turn have in common.
TakesTurn(n) ==
  /\ turn = n /\ turn' = n + 1
  /\ round' = round /\ lastUpdate' = lastUpdate
  /\ ControlPlaneInv(cp')
  /\ cp'.config = cp.config /\ cp'.pending = cp.pending /\ cp'.repair = cp.repair
  /\ cp'.states[n] \in {cp.states[n], "FAILED"}
  /\ \A m \in Node : m # n =>
       /\ cp'.states[m] = cp.states[m]
       /\ nodes'[m] = nodes[m] /\ history'[m] = history[m] /\ mailbox'[m] = mailbox[m]

\* A turn with which a node is out of the run,
Stops(n) == TakesTurn(n) /\ ~Going(n)' /\ history' = history

\* and one with which it goes on.
Opens(n) ==
  /\ TakesTurn(n) /\ cp.states[n] = "ACTIVE"
  /\ nodes'[n].current.round = round
  /\ nodes'[n].previous.round = Briefed(n).current.round

\* In its turn a node has pulled its mailbox, and commits entry e or nothing.
KeepsLog(n) ==
  /\ mailbox'[n] = <<>>
  /\ history'[n] = history[n] /\ nodes'[n].digest = Briefed(n).digest

ExtendsLog(n, e) ==
  /\ mailbox'[n] = <<>>
  /\ e \in Entries /\ e.round = round - 2
  /\ history'[n] = Append(history[n], e)
  /\ nodes'[n].digest = Append(Briefed(n).digest, e)

(* Time has a type. *)
LEMMA RoundStartType ==
  ASSUME round \in Nat
  PROVE  RoundStart \in Nat /\ RoundStart + HaltReportDelay \in Nat
<1> DEFINE start == round * RoundLength
<1>1. start \in Nat
  BY Timing
<1> HIDE DEF start
<1>2. start + HaltReportDelay \in Nat
  BY <1>1, Timing
<1> QED
  BY <1>1, <1>2 DEF start, RoundStart

(* What an acknowledgement changes in the control plane, *)
LEMMA AfterAck ==
  ASSUME IInv, NEW n \in Node, NEW d, d = ControlPlaneAfterAck(n)
  PROVE  /\ ControlPlaneInv(d)
         /\ d.config = cp.config /\ d.pending = cp.pending /\ d.states = cp.states
         /\ d.repair = cp.repair /\ d.acks \subseteq cp.acks \cup {n}
<1>1. ControlPlaneInv(cp) /\ round \in Nat
  BY Types, ClusterAssumption DEF IInv
<1>2. PICK time \in Nat : time = RoundStart
  BY <1>1, RoundStartType
<1>3. CASE Acknowledges(n)
  <2>1. d = NotePrepareAck(cp, n, Briefed(n).pending, time)
    BY <1>2, <1>3 DEF ControlPlaneAfterAck
  <2> QED
    BY <1>1, <2>1, AckKeeps
<1>4. CASE ~Acknowledges(n)
  BY <1>1, <1>4 DEF ControlPlaneAfterAck
<1> QED
  BY <1>3, <1>4

(* and what the report of a stop does. *)
LEMMA AfterStop ==
  ASSUME NEW c, ControlPlaneInv(c), round \in Nat, NEW n \in Node,
         NEW d, d = ControlPlaneAfterStop(c, n)
  PROVE  /\ ControlPlaneInv(d)
         /\ d.config = c.config /\ d.pending = c.pending /\ d.repair = c.repair
         /\ d.acks = c.acks
         /\ \A m \in Node : d.states[m] = (IF m = n THEN "FAILED" ELSE c.states[m])
<1>1. PICK time \in Nat : time = RoundStart + HaltReportDelay
  BY RoundStartType
<1>2. d = NoteInterruption(c, n, time)
  BY <1>1 DEF ControlPlaneAfterStop
<1> QED
  BY <1>2, InterruptionKeeps

(* The others are where they were. *)
LEMMA OthersKeep ==
  ASSUME IInv, NEW n \in Node, TakesTurn(n), NEW m \in Node, m # n
  PROVE  /\ WellBriefed(m)'
         /\ Going(m)' <=> Going(m)
         /\ Turned(m)' <=> Turned(m)
         /\ InStep(m)' <=> InStep(m)
         /\ UpToDate(m)' <=> UpToDate(m)
<1>1. /\ n \in Nat /\ m \in Nat /\ turn = n /\ turn' = n + 1
      /\ turn # ControlTurn /\ turn' # ControlTurn
  BY Turns DEF TakesTurn, ControlTurn
<1>2. /\ Turned(m)' <=> Turned(m)
      /\ Settled(m)' <=> Settled(m)
  BY <1>1 DEF Turned, Settled
<1>3. /\ nodes'[m] = nodes[m] /\ history'[m] = history[m] /\ mailbox'[m] = mailbox[m]
      /\ lastUpdate' = lastUpdate /\ round' = round
      /\ cp'.states[m] = cp.states[m] /\ cp'.config = cp.config /\ cp'.pending = cp.pending
  BY DEF TakesTurn
<1>4. /\ Live(m)' <=> Live(m)
      /\ Going(m)' <=> Going(m)
      /\ Told(m)' = Told(m)
      /\ StageRound(m)' = StageRound(m)
  BY <1>2, <1>3 DEF Live, Going, Told, StageRound
<1>5. WellBriefed(m)'
  <2>1. WellBriefed(m)
    BY DEF IInv, BriefInv
  <2> QED
    BY <1>1, <1>2, <1>3, <1>4, <2>1 DEF WellBriefed
<1>6. InStep(m)' <=> InStep(m)
  BY <1>3, <1>4 DEF InStep
<1>7. UpToDate(m)' <=> UpToDate(m)
  BY <1>3, <1>4 DEF UpToDate
<1> QED
  BY <1>2, <1>4, <1>5, <1>6, <1>7

(* A node that has pulled its mailbox knows what the control plane knows. *)
LEMMA BriefedKeeps ==
  ASSUME IInv, NEW n \in Node, TakesTurn(n), mailbox'[n] = <<>>,
         nodes'[n].config = cp.config, nodes'[n].pending = cp.pending,
         nodes'[n].state = cp.states[n],
         Live(n)' <=> cp'.states[n] = "ACTIVE", Live(n)' => n \in nodes'[n].sound
  PROVE  WellBriefed(n)'
<1>1. /\ n \in Nat /\ turn = n /\ turn' = n + 1 /\ lastUpdate' = lastUpdate
      /\ turn # ControlTurn /\ turn' # ControlTurn
  BY Turns DEF TakesTurn, ControlTurn
<1>2. Settled(n)' /\ ~Settled(n) /\ Told(n)' = Told(n)
  BY <1>1 DEF Settled, Turned, Told
<1>3. /\ lastUpdate[n] # <<>>
      /\ Told(n).config = cp.config /\ Told(n).pending = cp.pending
      /\ Told(n).state = cp.states[n]
  BY <1>1, <1>2 DEF IInv, BriefInv, WellBriefed
<1>4. /\ cp'.config = cp.config /\ cp'.pending = cp.pending
      /\ cp'.states[n] \in {cp.states[n], "FAILED"}
  BY DEF TakesTurn
<1>5. Live(n)' => Going(n)'
  BY <1>4 DEF Going
<1> QED
  BY <1>1, <1>2, <1>3, <1>4, <1>5 DEF WellBriefed

(* A node that is left out at the end of its turn needs no more. *)
LEMMA StopKeeps ==
  ASSUME IInv, NEW n \in Node, TakesTurn(n), ClusterTypeOK', AckInv',
         WellBriefed(n)', cp'.states[n] # "ACTIVE",
         history' = history, packets' = packets
  PROVE  IInv'
<1>1. /\ n \in Nat /\ turn = n /\ turn' = n + 1 /\ round' = round
      /\ turn # ControlTurn /\ turn' # ControlTurn
  BY Turns DEF TakesTurn, ControlTurn
<1>2. Turned(n)' /\ ~Going(n)'
  BY <1>1 DEF Turned, Going
<1>3. ControlPlaneInv(cp)'
  BY DEF TakesTurn
<1>4. BriefInv'
  <2>1. \A m \in Node : WellBriefed(m)'
    BY OthersKeep
  <2>2. cp'.pending = cp.pending
    BY DEF TakesTurn
  <2> QED
    BY <1>1, <2>1, <2>2 DEF IInv, BriefInv, CutoverIsDue
<1>5. StageInv'
  <2>1. \A m \in Node : Going(m)' => InStep(m)'
    BY <1>2, OthersKeep DEF IInv, StageInv
  <2> QED
    BY <2>1 DEF StageInv
<1>6. \A m \in Node : Turned(m) => Turned(m)'
  BY <1>2, OthersKeep
<1>7. PacketInv'
  <2>1. ASSUME NEW m \in Node, Going(m)', Turned(m)', nodes'[m].previous.round # -1
        PROVE  Echoed(m)'
    <3>1. m # n
      BY <1>2, <2>1
    <3>2. Going(m) /\ Turned(m) /\ nodes'[m] = nodes[m]
      BY <2>1, <3>1, OthersKeep DEF TakesTurn
    <3>3. Echoed(m)
      BY <2>1, <3>2 DEF IInv, PacketInv
    <3> QED
      BY <3>2, <3>3 DEF Echoed
  <2>2. \A p \in packets : p.src \in Node
    BY Types DEF IInv, OutboundPackets
  <2> QED
    BY <1>1, <1>6, <2>1, <2>2 DEF IInv, PacketInv
<1>8. EntriesInv'
  <2>1. AllEntries' = AllEntries
    BY DEF AllEntries, TakesTurn
  <2> QED
    BY <1>1, <2>1 DEF IInv, EntriesInv, TakesTurn
<1>9. EvidenceInv'
  <2>1. PICK adv \in [Node -> SUBSET Node] : Evidence(adv)
    BY DEF IInv, EvidenceInv
  <2>2. \A m \in Node : (Going(m)' /\ ~Turned(m)') =>
          m # n /\ Going(m) /\ ~Turned(m) /\ nodes'[m] = nodes[m]
    BY <1>2, OthersKeep DEF TakesTurn
  <2>3. Evidence(adv)'
    BY <1>1, <2>1, <2>2 DEF Evidence, TakesTurn, Senders
  <2> QED
    BY <2>3 DEF EvidenceInv
<1>10. LogInv'
  <2>1. \A m \in Node : Going(m)' => UpToDate(m)'
    BY <1>2, OthersKeep DEF IInv, LogInv
  <2> QED
    BY <2>1 DEF IInv, LogInv, TakesTurn
<1> QED
  BY <1>3, <1>4, <1>5, <1>7, <1>8, <1>9, <1>10 DEF IInv

(* The types of a turn. *)
LEMMA TurnType ==
  ASSUME IInv, NEW n \in Node, TakesTurn(n), NEW node \in NodeStates,
         nodes' = [nodes EXCEPT ![n] = node],
         mailbox' \in {mailbox, [mailbox EXCEPT ![n] = <<>>]},
         history' \in [Node -> Seq(Entries)], packets' \subseteq OutboundPackets
  PROVE  ClusterTypeOK'
<1>1. ClusterTypeOK
  BY DEF IInv
<1>2. turn' \in ControlTurn .. NetworkTurn
  BY Turns DEF TakesTurn, ControlTurn
<1>3. cp' \in ControlPlaneStates
  BY DEF TakesTurn, ControlPlaneInv, InvWith
<1>4. nodes' \in [Node -> NodeStates]
  BY <1>1 DEF ClusterTypeOK
<1>5. /\ DOMAIN mailbox' = Node
      /\ \A m \in Node : mailbox'[m] \in {<<>>, mailbox[m]}
  BY <1>1 DEF ClusterTypeOK
<1> QED
  BY <1>1, <1>2, <1>3, <1>4, <1>5 DEF ClusterTypeOK, TakesTurn

(* A node that opens the stage of a round. *)
LEMMA ShiftedIs ==
  ASSUME NEW node \in NodeStates, NEW n \in Node, round \in 0 .. MaxRound,
         NEW new, new = Shifted(node, n)
  PROVE  /\ new \in NodeStates
         /\ new.status = node.status /\ new.state = node.state /\ new.config = node.config
         /\ new.sound = node.sound /\ new.pending = node.pending
         /\ new.digest = node.digest
         /\ new.current.round = round /\ new.current.epoch = node.config.epoch
         /\ new.current.row = {n} /\ \A m \in Node : new.current.rows[m] = {}
         /\ new.current.members = node.config.members
         /\ new.previous.members = node.current.members
         /\ new.previous.round = node.current.round
         /\ new.previous.epoch = node.current.epoch
         /\ new.previous.row = node.current.row
         /\ \A m \in Node : new.previous.rows[m] =
              IF m = n THEN node.current.row ELSE node.current.rows[m]
<1> DEFINE rows == [node.current.rows EXCEPT ![n] = node.current.row]
           previous == [node.current EXCEPT !.rows = rows]
           current == [round |-> round, epoch |-> node.config.epoch,
                       members |-> node.config.members, row |-> {n},
                       rows |-> [m \in Node |-> {}]]
<1>1. node.current \in Stages /\ node.config.members \in SUBSET Node
      /\ node.config.epoch \in Nat
  BY NodeTypes DEF Configs
<1>2. rows \in [Node -> SUBSET Node]
  BY <1>1, StageTypes
<1>3. \A m \in Node : rows[m] = IF m = n THEN node.current.row ELSE node.current.rows[m]
  BY <1>1, StageTypes
<1>4. new = [node EXCEPT !.previous = previous, !.current = current]
  BY DEF Shifted
<1> HIDE DEF rows
<1>5. previous \in Stages
  BY <1>1, <1>2, Zenon DEF Stages
<1>6. /\ previous.round = node.current.round /\ previous.epoch = node.current.epoch
      /\ previous.row = node.current.row /\ previous.rows = rows
      /\ previous.members = node.current.members
  BY <1>1 DEF Stages
<1>7. current \in Stages
  BY <1>1, ClusterAssumption DEF Stages
<1>8. /\ current.round = round /\ current.epoch = node.config.epoch
      /\ current.members = node.config.members
      /\ current.row = {n} /\ \A m \in Node : current.rows[m] = {}
  OBVIOUS
<1> HIDE DEF previous, current
<1>9. new \in NodeStates
  BY <1>4, <1>5, <1>7, Zenon DEF NodeStates
<1>10. /\ new.status = node.status /\ new.state = node.state /\ new.config = node.config
       /\ new.sound = node.sound /\ new.pending = node.pending /\ new.digest = node.digest
       /\ new.current = current /\ new.previous = previous
  BY <1>4 DEF NodeStates
<1> QED
  BY <1>3, <1>6, <1>8, <1>9, <1>10

(* All but a crash begin with the mailbox. *)
LEMMA BriefedTurn ==
  ASSUME IInv, NEW n \in Node, NodeTurn(n), NEW node, nodes' = [nodes EXCEPT ![n] = node],
         \A m \in Node : m # n => history'[m] = history[m],
         NEW d, d = ControlPlaneAfterAck(n), cp' \in {d, ControlPlaneAfterStop(d, n)}
  PROVE  /\ TakesTurn(n) /\ nodes'[n] = node /\ mailbox'[n] = <<>>
         /\ cp' = d => cp'.states[n] = cp.states[n]
         /\ cp' = ControlPlaneAfterStop(d, n) => cp'.states[n] = "FAILED"
         /\ cp'.acks \subseteq cp.acks \cup {n}
<1>1. /\ ControlPlaneInv(d)
      /\ d.config = cp.config /\ d.pending = cp.pending /\ d.states = cp.states
      /\ d.repair = cp.repair /\ d.acks \subseteq cp.acks \cup {n}
  BY AfterAck
<1>2. round \in Nat
  BY Types, ClusterAssumption DEF IInv
<1>3. /\ ControlPlaneInv(cp')
      /\ cp'.config = cp.config /\ cp'.pending = cp.pending /\ cp'.repair = cp.repair
      /\ cp'.acks \subseteq cp.acks \cup {n}
      /\ cp' = d => cp'.states[n] = cp.states[n]
      /\ cp' = ControlPlaneAfterStop(d, n) => cp'.states[n] = "FAILED"
      /\ \A m \in Node : m # n => cp'.states[m] = cp.states[m]
  <2>1. CASE cp' = d
    BY <1>1, <1>2, <2>1, AfterStop
  <2>2. CASE cp' = ControlPlaneAfterStop(d, n)
    BY <1>1, <1>2, <2>2, AfterStop
  <2> QED
    BY <2>1, <2>2
<1>4. cp'.states[n] \in {cp.states[n], "FAILED"}
  BY <1>3
<1>5. /\ nodes'[n] = node /\ mailbox'[n] = <<>>
      /\ \A m \in Node : m # n => nodes'[m] = nodes[m] /\ mailbox'[m] = mailbox[m]
  BY DEF IInv, ClusterTypeOK, NodeTurn
<1> QED
  BY <1>3, <1>4, <1>5 DEF TakesTurn, NodeTurn

(* Acknowledgements are of the pending config, which the node has then taken over. *)
LEMMA AcksKeep ==
  ASSUME IInv, NEW n \in Node, TakesTurn(n), cp'.acks \subseteq cp.acks \cup {n},
         nodes'[n].pending = cp.pending
  PROVE  AckInv'
<1>1. cp.acks \subseteq Node
  BY Types, FieldTypes DEF IInv
<1> QED
  BY <1>1 DEF IInv, AckInv, TakesTurn

-----------------------------------------------------------------------------
(* The steps of a node: those after which it is out. *)

(* A node that sits out is not active. *)
LEMMA SitOutKeeps ==
  ASSUME IInv, NEW n \in Node, SitOut(n)
  PROVE  IInv' /\ Stops(n) /\ KeepsLog(n)
<1> DEFINE node == Briefed(n)
           d == ControlPlaneAfterAck(n)
<1>1. /\ NodeTurn(n) /\ ~Participates(node, n) /\ nodes' = [nodes EXCEPT ![n] = node]
      /\ cp' = d /\ history' = history /\ packets' = packets
  BY DEF SitOut
<1>2. /\ node \in NodeStates
      /\ node.config = cp.config /\ node.pending = cp.pending /\ node.state = cp.states[n]
      /\ cp.states[n] = "ACTIVE" => node.status = "RUNNING" /\ n \in node.sound
  BY <1>1, BriefedIs DEF NodeTurn
<1> HIDE DEF node, d
<1>3. cp.states[n] # "ACTIVE"
  BY <1>1, <1>2 DEF Participates
<1>4. d = ControlPlaneAfterAck(n)
  BY DEF d
<1>5. /\ TakesTurn(n) /\ nodes'[n] = node /\ mailbox'[n] = <<>>
      /\ cp'.states[n] = cp.states[n]
      /\ cp'.acks \subseteq cp.acks \cup {n}
  BY <1>1, <1>4, BriefedTurn
<1>6. ~Live(n)'
  BY <1>2, <1>3, <1>5 DEF Live
<1>7. WellBriefed(n)'
  BY <1>2, <1>3, <1>5, <1>6, BriefedKeeps
<1>8. AckInv'
  BY <1>2, <1>5, AcksKeep
<1>9. ClusterTypeOK'
  <2>1. /\ history' \in [Node -> Seq(Entries)] /\ packets' \subseteq OutboundPackets
    BY <1>1 DEF IInv, ClusterTypeOK
  <2>2. mailbox' \in {mailbox, [mailbox EXCEPT ![n] = <<>>]}
    BY <1>1 DEF NodeTurn
  <2> QED
    BY <1>1, <1>2, <1>5, <2>1, <2>2, TurnType
<1>10. IInv'
  BY <1>1, <1>3, <1>5, <1>7, <1>8, <1>9, StopKeeps
<1>11. Stops(n) /\ KeepsLog(n)
  BY <1>1, <1>5, <1>6 DEF Stops, KeepsLog, Going, node
<1> QED
  BY <1>10, <1>11

(* A node that halts reports it. *)
LEMMA HaltKeeps ==
  ASSUME IInv, NEW n \in Node, HaltStage(n)
  PROVE  IInv' /\ Stops(n) /\ KeepsLog(n)
<1> DEFINE node == Briefed(n)
           shifted == Shifted(node, n)
           new == [shifted EXCEPT !.status = "HALTED"]
           d == ControlPlaneAfterAck(n)
<1>1. /\ NodeTurn(n) /\ nodes' = [nodes EXCEPT ![n] = new]
      /\ cp' = ControlPlaneAfterStop(d, n) /\ history' = history /\ packets' = packets
  BY DEF HaltStage
<1>2. /\ node \in NodeStates
      /\ node.config = cp.config /\ node.pending = cp.pending /\ node.state = cp.states[n]
  BY <1>1, BriefedIs DEF NodeTurn
<1> HIDE DEF node, d
<1>3. /\ shifted \in NodeStates /\ shifted.config = node.config
      /\ shifted.pending = node.pending /\ shifted.state = node.state
      /\ shifted.digest = node.digest
  BY <1>2, Types, ShiftedIs DEF IInv
<1> HIDE DEF shifted
<1>4. /\ new \in NodeStates /\ new.config = cp.config
      /\ new.pending = cp.pending /\ new.state = cp.states[n] /\ new.status = "HALTED"
      /\ new.digest = node.digest
  BY <1>2, <1>3 DEF NodeStates, NodeStatuses
<1> HIDE DEF new
<1>5. d = ControlPlaneAfterAck(n)
  BY DEF d
<1>6. /\ TakesTurn(n) /\ nodes'[n] = new /\ mailbox'[n] = <<>>
      /\ cp'.states[n] = "FAILED"
      /\ cp'.acks \subseteq cp.acks \cup {n}
  BY <1>1, <1>5, BriefedTurn
<1>7. ~Live(n)'
  BY <1>4, <1>6 DEF Live
<1>8. WellBriefed(n)'
  BY <1>4, <1>6, <1>7, BriefedKeeps
<1>9. AckInv'
  BY <1>4, <1>6, AcksKeep
<1>10. ClusterTypeOK'
  <2>1. /\ history' \in [Node -> Seq(Entries)] /\ packets' \subseteq OutboundPackets
    BY <1>1 DEF IInv, ClusterTypeOK
  <2>2. mailbox' \in {mailbox, [mailbox EXCEPT ![n] = <<>>]}
    BY <1>1 DEF NodeTurn
  <2> QED
    BY <1>1, <1>4, <1>6, <2>1, <2>2, TurnType
<1>11. IInv'
  BY <1>1, <1>6, <1>8, <1>9, <1>10, StopKeeps
<1>12. Stops(n) /\ KeepsLog(n)
  BY <1>1, <1>4, <1>6, <1>7 DEF Stops, KeepsLog, Going, node
<1> QED
  BY <1>11, <1>12

(* A node that crashes has not pulled its mailbox. *)
LEMMA CrashKeeps ==
  ASSUME IInv, NEW n \in Node, CrashNode(n)
  PROVE  IInv' /\ Stops(n)
<1> DEFINE old == nodes[n]
           new == [old EXCEPT !.status = "CRASHED"]
<1>1. /\ turn = n /\ turn' = n + 1 /\ nodes' = [nodes EXCEPT ![n] = new]
      /\ cp' = ControlPlaneAfterStop(cp, n)
      /\ round' = round /\ mailbox' = mailbox /\ lastUpdate' = lastUpdate
      /\ history' = history /\ packets' = packets
  BY DEF CrashNode
<1>2. /\ old \in NodeStates /\ round \in Nat
      /\ \A m \in Node : m # n => nodes'[m] = nodes[m]
      /\ nodes'[n] = new
  BY <1>1, Types, ClusterAssumption DEF IInv, ClusterTypeOK
<1> HIDE DEF old
<1>3. /\ new \in NodeStates /\ new.config = old.config /\ new.pending = old.pending
      /\ new.state = old.state /\ new.sound = old.sound /\ new.status = "CRASHED"
  BY <1>2 DEF NodeStates, NodeStatuses
<1> HIDE DEF new
<1>4. /\ ControlPlaneInv(cp')
      /\ cp'.config = cp.config /\ cp'.pending = cp.pending /\ cp'.repair = cp.repair
      /\ cp'.acks = cp.acks
      /\ \A m \in Node : cp'.states[m] = (IF m = n THEN "FAILED" ELSE cp.states[m])
  BY <1>1, <1>2, AfterStop DEF IInv
<1>5. TakesTurn(n)
  BY <1>1, <1>2, <1>4 DEF TakesTurn
<1>6. /\ Settled(n)' /\ ~Settled(n) /\ Told(n)' = Told(n) /\ ~Live(n)'
      /\ turn # ControlTurn /\ turn' # ControlTurn
  BY <1>1, <1>2, <1>3, Turns DEF Settled, Turned, Told, Live, ControlTurn
<1>7. WellBriefed(n)'
  <2>1. WellBriefed(n)
    BY DEF IInv, BriefInv
  <2> QED
    BY <1>1, <1>2, <1>3, <1>4, <1>6, <2>1 DEF WellBriefed, old
<1>8. AckInv'
  <2>1. \A m \in Node : nodes'[m].pending = nodes[m].pending
    BY <1>2, <1>3 DEF old
  <2>2. cp.acks \subseteq Node
    BY Types, FieldTypes DEF IInv
  <2> QED
    BY <1>4, <2>1, <2>2 DEF IInv, AckInv
<1>9. ClusterTypeOK'
  <2>1. /\ history' \in [Node -> Seq(Entries)] /\ packets' \subseteq OutboundPackets
    BY <1>1 DEF IInv, ClusterTypeOK
  <2> QED
    BY <1>1, <1>3, <1>5, <2>1, TurnType
<1>10. IInv'
  BY <1>1, <1>4, <1>5, <1>7, <1>8, <1>9, StopKeeps
<1> QED
  BY <1>1, <1>5, <1>6, <1>10 DEF Stops, Going

-----------------------------------------------------------------------------
(* The steps of a node: those with which it goes on. *)

(* Whether it commits or not, it opens a stage and sends a packet. *)
LEMMA GoOnKeeps ==
  ASSUME IInv, NEW n \in Node, TakesTurn(n), WellBriefed(n)',
         NEW node, node = Briefed(n), Participates(node, n),
         NEW shifted, shifted = Shifted(node, n), n \in nodes'[n].sound,
         nodes'[n].current = shifted.current, nodes'[n].previous = shifted.previous,
         packets' = packets \cup {PacketOf(node, n)}
  PROVE  BriefInv' /\ StageInv' /\ PacketInv'
<1>1. /\ n \in Nat /\ turn = n /\ turn' = n + 1 /\ round' = round
      /\ turn # ControlTurn /\ turn' # ControlTurn
  BY Turns DEF TakesTurn, ControlTurn
<1>2. Turned(n)' /\ ~Turned(n) /\ StageRound(n)' = round /\ StageRound(n) = round - 1
  BY <1>1 DEF Turned, StageRound
<1>3. /\ node \in NodeStates /\ node.config = cp.config /\ cp.states[n] = "ACTIVE"
      /\ \/ /\ Going(n)
            /\ node.current = nodes[n].current /\ node.previous = nodes[n].previous
         \/ node.current = NoStage(cp.config) /\ node.previous = NoStage(cp.config)
  BY <1>1, BriefedIs DEF Participates
<1>4. /\ shifted.current.round = round /\ shifted.current.epoch = cp.config.epoch
      /\ shifted.current.row = {n} /\ \A m \in Node : shifted.current.rows[m] = {}
      /\ shifted.previous.round = node.current.round
      /\ shifted.previous.epoch = node.current.epoch
      /\ shifted.previous.row = node.current.row
      /\ \A m \in Node : shifted.previous.rows[m] =
           IF m = n THEN node.current.row ELSE node.current.rows[m]
  <2>1. round \in 0 .. MaxRound
    BY Types DEF IInv
  <2> QED
    BY <1>3, <2>1, ShiftedIs
<1>5. /\ \A m \in Node : node.current.rows[m] = {}
      /\ node.current.round # -1 =>
           node.current.round = round - 1 /\ node.current.epoch = cp.config.epoch
  <2>1. CASE node.current = NoStage(cp.config)
    BY <2>1 DEF NoStage
  <2>2. CASE Going(n) /\ node.current = nodes[n].current
    <3>1. InStep(n)
      BY <2>2 DEF IInv, StageInv
    <3> QED
      BY <1>2, <2>2, <3>1 DEF InStep
  <2> QED
    BY <1>3, <2>1, <2>2
<1>6. cp'.config = cp.config
  BY DEF TakesTurn
<1>7. BriefInv'
  <2>1. \A m \in Node : WellBriefed(m)'
    BY OthersKeep
  <2>2. cp'.pending = cp.pending
    BY DEF TakesTurn
  <2> QED
    BY <1>1, <2>1, <2>2 DEF IInv, BriefInv, CutoverIsDue
<1>8. StageInv'
  <2>1. InStep(n)'
    BY <1>2, <1>4, <1>5, <1>6 DEF InStep
  <2>2. \A m \in Node : m # n => (Going(m)' => InStep(m)')
    BY OthersKeep DEF IInv, StageInv
  <2> QED
    BY <2>1, <2>2 DEF StageInv
<1>9. PacketInv'
  <2> DEFINE new == PacketOf(node, n)
  <2>1. /\ new.round = round /\ new.src = n /\ new.row = node.current.row
        /\ n \notin new.destinations
    BY DEF PacketOf, Destinations
  <2>2. packets' = packets \cup {new}
    OBVIOUS
  <2> HIDE DEF new
  <2>3. \A p \in packets : p.src \in Node
    BY Types DEF IInv, OutboundPackets
  <2>4. \A p \in packets : p.round = round /\ Turned(p.src) /\ p.src \notin p.destinations
    BY DEF IInv, PacketInv
  <2>5. \A p \in packets : p.src # n
    BY <1>2, <2>4
  <2>6. \A m \in Node : Turned(m) => Turned(m)'
    BY <1>2, OthersKeep
  <2>7. \A p \in packets' : p.round = round' /\ Turned(p.src)' /\ p.src \notin p.destinations
    BY <1>1, <1>2, <2>1, <2>2, <2>3, <2>4, <2>6
  <2>8. \A p, q \in packets' : p.src = q.src => p = q
    <3>1. \A p, q \in packets : p.src = q.src => p = q
      BY DEF IInv, PacketInv
    <3> QED
      BY <2>1, <2>2, <2>5, <3>1
  <2>9. ASSUME NEW m \in Node, Going(m)', Turned(m)', nodes'[m].previous.round # -1
        PROVE  Echoed(m)'
    <3>1. CASE m = n
      BY <1>4, <1>5, <2>1, <2>2, <3>1 DEF Echoed
    <3>2. CASE m # n
      <4>1. Going(m) /\ Turned(m) /\ nodes'[m] = nodes[m]
        BY <2>9, <3>2, OthersKeep DEF TakesTurn
      <4>2. Echoed(m)
        BY <2>9, <4>1 DEF IInv, PacketInv
      <4> QED
        BY <2>2, <4>1, <4>2 DEF Echoed
    <3> QED
      BY <3>1, <3>2
  <2> QED
    BY <2>7, <2>8, <2>9 DEF PacketInv
<1> QED
  BY <1>7, <1>8, <1>9

(* A packet has its type. *)
LEMMA PacketType ==
  ASSUME NEW node \in NodeStates, NEW n \in Node, round \in 0 .. MaxRound
  PROVE  PacketOf(node, n) \in OutboundPackets
<1>1. /\ node.config.run \in Nat /\ node.current.row \in SUBSET Node
      /\ node.config.members \in SUBSET Node
  BY NodeTypes, StageTypes DEF Configs
<1> QED
  BY <1>1 DEF PacketOf, OutboundPackets, Destinations

(* A node that fills its pipeline has committed nothing in this run. *)
LEMMA FillKeeps ==
  ASSUME IInv, NEW n \in Node, FillPipeline(n)
  PROVE  /\ IInv' /\ Opens(n) /\ KeepsLog(n)
         /\ Briefed(n).previous.round = -1
<1> DEFINE node == Briefed(n)
           new == Shifted(node, n)
           d == ControlPlaneAfterAck(n)
<1>1. /\ NodeTurn(n) /\ Participates(node, n) /\ StageVerdict(node, n) = "skip"
      /\ nodes' = [nodes EXCEPT ![n] = new] /\ packets' = packets \cup {PacketOf(node, n)}
      /\ cp' = d /\ history' = history
  BY DEF FillPipeline
<1>2. /\ turn = n /\ round \in 0 .. MaxRound
  BY <1>1, Types DEF IInv, NodeTurn
<1>3. /\ node \in NodeStates /\ node.config = cp.config /\ node.pending = cp.pending
      /\ node.state = cp.states[n] /\ cp.states[n] = "ACTIVE"
      /\ node.status = "RUNNING" /\ n \in node.sound
      /\ \/ Going(n) /\ node.previous = nodes[n].previous
         \/ \A e \in Range(history[n]) : e.epoch < cp.config.epoch
  BY <1>1, <1>2, BriefedIs DEF Participates
<1> HIDE DEF d
<1>4. d = ControlPlaneAfterAck(n)
  BY DEF d
<1>5. /\ TakesTurn(n) /\ nodes'[n] = new /\ mailbox'[n] = <<>>
      /\ cp'.states[n] = cp.states[n]
      /\ cp'.acks \subseteq cp.acks \cup {n}
  BY <1>1, <1>4, BriefedTurn
<1>6. /\ new \in NodeStates /\ new.status = node.status /\ new.state = node.state
      /\ new.config = node.config /\ new.sound = node.sound /\ new.pending = node.pending
      /\ new.digest = node.digest
      /\ new.current.round = round /\ new.previous.round = node.current.round
  BY <1>2, <1>3, ShiftedIs
<1>7. Live(n)'
  BY <1>3, <1>5, <1>6 DEF Live
<1>8. WellBriefed(n)'
  BY <1>3, <1>5, <1>6, <1>7, BriefedKeeps
<1>9. AckInv'
  BY <1>3, <1>5, <1>6, AcksKeep
<1>10. ClusterTypeOK'
  <2>1. /\ history' \in [Node -> Seq(Entries)] /\ packets \subseteq OutboundPackets
    BY <1>1 DEF IInv, ClusterTypeOK
  <2>2. mailbox' \in {mailbox, [mailbox EXCEPT ![n] = <<>>]}
    BY <1>1 DEF NodeTurn
  <2>3. packets' \subseteq OutboundPackets
    <3> HIDE DEF node
    <3> QED
      BY <1>1, <1>2, <1>3, <2>1, PacketType
  <2> HIDE DEF new
  <2> QED
    BY <1>1, <1>5, <1>6, <2>1, <2>2, <2>3, TurnType
<1>11. BriefInv' /\ StageInv' /\ PacketInv'
  BY <1>1, <1>3, <1>5, <1>6, <1>8, GoOnKeeps
<1>12. EntriesInv'
  <2>1. AllEntries' = AllEntries
    BY <1>1, <1>5 DEF AllEntries, TakesTurn
  <2>2. turn' # ControlTurn
    BY <1>2, Turns, <1>5 DEF TakesTurn, ControlTurn
  <2> QED
    BY <1>1, <1>5, <2>1, <2>2 DEF IInv, EntriesInv, TakesTurn
<1>13. Turned(n)' /\ StageRound(n) = round - 1
  BY <1>2, <1>5, Turns DEF Turned, TakesTurn, StageRound
<1>14. EvidenceInv'
  <2>1. PICK adv \in [Node -> SUBSET Node] : Evidence(adv)
    BY DEF IInv, EvidenceInv
  <2>2. \A m \in Node : (Going(m)' /\ ~Turned(m)') =>
          m # n /\ Going(m) /\ ~Turned(m) /\ nodes'[m] = nodes[m]
    BY <1>5, <1>13, OthersKeep DEF TakesTurn
  <2>3. round' = round /\ history' = history /\ cp'.config = cp.config
    BY <1>1, <1>5 DEF TakesTurn
  <2> HIDE DEF node, new
  <2>4. Evidence(adv)'
    BY <2>1, <2>2, <2>3 DEF Evidence, Senders
  <2> QED
    BY <2>4 DEF EvidenceInv
<1>17. node.previous.round = -1
  <2>1. node.previous.round \in -1 .. MaxRound
    BY <1>3, NodeTypes, StageTypes
  <2> QED
    BY <1>1, <2>1, ClusterAssumption DEF StageVerdict, Verdict
<1>15. LogInv'
  <2>1. history[n] \in Seq(Entries)
    BY Types DEF IInv
  <2>2. \A i \in 1 .. Len(history[n]) : history[n][i].epoch # cp.config.epoch
    <3>1. CASE \A e \in Range(history[n]) : e.epoch < cp.config.epoch
      <4>1. \A i \in 1 .. Len(history[n]) : history[n][i] \in Range(history[n])
        BY <2>1 DEF Range
      <4>2. cp.config.epoch \in Nat
        BY Types, FieldTypes DEF IInv, Configs
      <4> QED
        BY <3>1, <4>1, <4>2
    <3>2. CASE Going(n) /\ node.previous = nodes[n].previous
      <4>1. node.previous.round = -1
        BY <1>17
      <4>2. UpToDate(n)
        BY <3>2 DEF IInv, LogInv
      <4> SUFFICES ASSUME NEW i \in 1 .. Len(history[n]),
                          history[n][i].epoch = cp.config.epoch
                   PROVE  FALSE
        OBVIOUS
      <4>3. /\ history[n][Len(history[n])].round = round - 3
            /\ node.previous.round = round - 2
        BY <1>2, <1>13, <3>2, <4>2 DEF UpToDate
      <4>4. history[n][Len(history[n])].round \in Nat
        BY <2>1, EntryTypes
      <4>5. round = 1
        BY <1>2, <4>1, <4>3, ClusterAssumption
      <4> QED
        BY <4>3, <4>4, <4>5
    <3> QED
      BY <1>3, <3>1, <3>2
  <2>3. UpToDate(n)'
    BY <1>1, <1>5, <2>2 DEF UpToDate, TakesTurn
  <2>4. \A m \in Node : Going(m)' => UpToDate(m)'
    BY <1>5, <2>3, OthersKeep DEF IInv, LogInv
  <2> QED
    BY <1>1, <1>5, <2>4 DEF IInv, LogInv, TakesTurn
<1>16. ControlPlaneInv(cp)'
  BY <1>5 DEF TakesTurn
<1>18. Opens(n) /\ KeepsLog(n)
  <2> HIDE DEF new
  <2> QED
    BY <1>1, <1>3, <1>5, <1>6 DEF Opens, KeepsLog
<1> QED
  BY <1>9, <1>10, <1>11, <1>12, <1>14, <1>15, <1>16, <1>17, <1>18 DEF IInv

(* A log and one entry more. *)
LEMMA AppendedIs ==
  ASSUME NEW log \in Seq(Entries), NEW e \in Entries
  PROVE  LET new == Append(log, e) IN
         /\ new \in Seq(Entries) /\ Len(log) \in Nat /\ Len(new) \in Nat
         /\ Len(new) = Len(log) + 1
         /\ \A i \in 1 .. Len(log) : new[i] = log[i]
         /\ new[Len(new)] = e
         /\ Range(new) = Range(log) \cup {e}
<1> DEFINE new == Append(log, e)
<1>1. /\ new \in Seq(Entries) /\ Len(log) \in Nat /\ Len(new) = Len(log) + 1
      /\ \A i \in 1 .. Len(log) : new[i] = log[i]
      /\ new[Len(log) + 1] = e
  BY AppendProperties
<1>2. DOMAIN log = 1 .. Len(log) /\ DOMAIN new = 1 .. Len(log) + 1
  BY <1>1, LenProperties
<1>3. Range(new) = Range(log) \cup {e}
  <2>1. \A i \in 1 .. Len(log) + 1 : i \in 1 .. Len(log) \/ i = Len(log) + 1
    BY <1>1
  <2>2. \A i \in 1 .. Len(log) : i \in 1 .. Len(log) + 1
    BY <1>1
  <2>3. Len(log) + 1 \in 1 .. Len(log) + 1
    BY <1>1
  <2> HIDE DEF new
  <2> QED
    BY <1>1, <1>2, <2>1, <2>2, <2>3 DEF Range
<1> QED
  BY <1>1, <1>3

(* What a node knows when it commits: it goes on in the present run, judges the round two
   before, and holds the row that a majority of the nodes has sent it. *)
LEMMA CommitIs ==
  ASSUME IInv, NEW n \in Node, CommitStage(n)
  PROVE  LET node == Briefed(n)
             rows == node.previous.rows
             sound == SoundSet(n, node.previous.members, rows)
         IN
         /\ Going(n) /\ ~Turned(n) /\ StageRound(n) = round - 1
         /\ node.current = nodes[n].current /\ node.previous = nodes[n].previous
         /\ node.previous.round = round - 2 /\ node.previous.round \in Nat
         /\ node.current.round = round - 1
         /\ node.previous.epoch = cp.config.epoch
         /\ rows[n] \in SUBSET Node /\ rows[n] # {} /\ rows[n] = node.previous.row
         /\ sound \in SUBSET Node /\ Cardinality(sound) >= Quorum /\ n \in sound
         /\ \A m \in sound : rows[m] = rows[n] /\ m \in rows[n]
         /\ sound \subseteq nodes[n].sound /\ node.current.row \subseteq nodes[n].sound
<1> DEFINE node == Briefed(n)
           rows == node.previous.rows
           sound == SoundSet(n, node.previous.members, rows)
<1>1. /\ turn = n /\ Participates(node, n) /\ StageVerdict(node, n) = "commit"
  BY DEF CommitStage, NodeTurn
<1>2. /\ node \in NodeStates /\ cp.states[n] = "ACTIVE"
      /\ \/ /\ Going(n)
            /\ node.current = nodes[n].current /\ node.previous = nodes[n].previous
         \/ node.previous = NoStage(cp.config)
  BY <1>1, BriefedIs DEF Participates
<1>3. /\ node.previous.round \in -1 .. MaxRound /\ node.previous.members \in SUBSET Node
      /\ rows \in [Node -> SUBSET Node]
  BY <1>2, NodeTypes, StageTypes
<1>4. /\ node.previous.round \in Nat
      /\ Verdict(n, node.previous.members, rows, ProposalsOf(node.previous), node.sound)
           = "commit"
  BY <1>1, <1>3, ClusterAssumption DEF StageVerdict
<1>5. node.previous # NoStage(cp.config)
  BY <1>4 DEF NoStage
<1>6. /\ Going(n)
      /\ node.current = nodes[n].current /\ node.previous = nodes[n].previous
  BY <1>2, <1>5
<1>7. /\ HasAgreedRow(n, node.previous.members, rows) /\ n \in sound
  BY <1>4 DEF Verdict
<1>8. /\ rows[n] # {} /\ sound \in SUBSET Node /\ Cardinality(sound) >= Quorum
      /\ \A m \in sound : rows[m] = rows[n] /\ m \in rows[n]
  BY <1>3, <1>7 DEF HasAgreedRow, SoundSet, Witnesses, RowIsValid
<1>9. ~Turned(n) /\ StageRound(n) = round - 1
  BY <1>1, Turns DEF Turned, StageRound
<1>10. InStep(n)
  BY <1>6 DEF IInv, StageInv
<1>11. node.previous.round # -1
  BY <1>4
<1>12. /\ node.previous.round = StageRound(n) - 1 /\ node.current.round = StageRound(n)
       /\ node.previous.epoch = cp.config.epoch
       /\ rows[n] = node.previous.row
       /\ \A m \in Node : rows[m] # {} => m \in nodes[n].sound
       /\ node.current.row \subseteq nodes[n].sound
  BY <1>6, <1>10, <1>11 DEF InStep
<1>13. sound \subseteq nodes[n].sound
  BY <1>8, <1>12
<1>14. StageRound(n) - 1 = round - 2
  BY <1>9, Types, ClusterAssumption DEF IInv
<1> QED
  BY <1>3, <1>4, <1>6, <1>7, <1>8, <1>9, <1>12, <1>13, <1>14

(* Two nodes that commit a round in the same turn order hold rows of one node at least in
   common, which has sent one of them. *)
LEMMA CommitAgrees ==
  ASSUME IInv, NEW n \in Node, CommitStage(n),
         NEW e, e = [round |-> Briefed(n).previous.round, epoch |-> Briefed(n).previous.epoch,
                     commitSet |-> AgreedRow(n, Briefed(n).previous.rows)],
         NEW adv \in [Node -> SUBSET Node], Evidence(adv)
  PROVE  /\ e \in Entries /\ e.round = round - 2 /\ e.epoch = cp.config.epoch
         /\ e.commitSet # {} /\ Cardinality(Senders(adv, e)) >= Quorum
         /\ \A f \in AllEntries : f.round = e.round => f = e
<1> DEFINE node == Briefed(n)
           rows == node.previous.rows
           sound == SoundSet(n, node.previous.members, rows)
<1>1. /\ Going(n) /\ ~Turned(n) /\ node.previous = nodes[n].previous
      /\ node.previous.round = round - 2 /\ node.previous.round \in Nat
      /\ node.previous.epoch = cp.config.epoch
      /\ rows[n] \in SUBSET Node /\ rows[n] # {}
      /\ sound \in SUBSET Node /\ Cardinality(sound) >= Quorum
      /\ \A m \in sound : rows[m] = rows[n]
  BY CommitIs
<1>2. e = [round |-> node.previous.round, epoch |-> node.previous.epoch,
           commitSet |-> rows[n]]
  BY DEF AgreedRow
<1> HIDE DEF sound
<1>3. node.previous.round # -1
  BY <1>1
<1>4. \A m \in Node : rows[m] \in {{}, adv[m]}
  BY <1>1, <1>3 DEF Evidence
<1> HIDE DEF node
<1>5. /\ e.round = round - 2 /\ e.epoch = cp.config.epoch /\ e.commitSet = rows[n]
      /\ e.round \in Nat
  BY <1>1, <1>2
<1>6. cp.config.epoch \in Nat /\ round \in Nat
  BY Types, FieldTypes, ClusterAssumption DEF IInv, Configs
<1>7. e \in Entries
  BY <1>1, <1>2, <1>6 DEF Entries
<1>8. sound \subseteq Senders(adv, e) /\ Senders(adv, e) \subseteq Node
  BY <1>1, <1>4, <1>5 DEF Senders
<1>9. Cardinality(Senders(adv, e)) >= Quorum
  <2>1. IsFiniteSet(Senders(adv, e))
    BY <1>8, NodeAssumption, FS_Subset
  <2>2. /\ Cardinality(sound) <= Cardinality(Senders(adv, e))
        /\ Cardinality(sound) \in Nat /\ Cardinality(Senders(adv, e)) \in Nat
    BY <1>8, <2>1, FS_Subset, FS_CardinalityType
  <2>3. Cardinality(Node) \in Nat
    BY NodeAssumption, FS_CardinalityType
  <2> QED
    BY <1>1, <2>2, <2>3 DEF Quorum
<1>10. ASSUME NEW f \in AllEntries, f.round = e.round
       PROVE  f = e
  <2>1. PICK m \in Node : f \in Range(history[m]) \cup Range(cp.repair[m])
    BY <1>10 DEF AllEntries
  <2>2. f \notin Range(cp.repair[m])
    BY <1>5, <1>6, <1>10 DEF IInv, EntriesInv
  <2>3. /\ f.epoch = cp.config.epoch /\ f.commitSet # {}
        /\ Cardinality(Senders(adv, f)) >= Quorum
    BY <1>5, <1>10, <2>1, <2>2 DEF Evidence
  <2>4. PICK k \in Node : k \in Senders(adv, e) /\ k \in Senders(adv, f)
    <3>1. Senders(adv, f) \subseteq Node
      BY DEF Senders
    <3>2. Senders(adv, e) \cap Senders(adv, f) # {}
      BY <1>8, <1>9, <2>3, <3>1, QuorumsIntersect
    <3> QED
      BY <1>8, <3>2
  <2>5. f.commitSet = e.commitSet
    BY <2>4 DEF Senders
  <2>6. f \in Entries
    <3>1. history[m] \in Seq(Entries)
      BY Types DEF IInv
    <3> QED
      BY <2>1, <2>2, <3>1 DEF Range
  <2> QED
    BY <1>5, <1>7, <1>10, <2>3, <2>5, <2>6 DEF Entries
<1> QED
  BY <1>1, <1>5, <1>7, <1>9, <1>10

(* The log that it extends stays in order, and whoever it counts from now on has been in
   every commit of the run. *)
LEMMA CommitLogs ==
  ASSUME IInv, NEW n \in Node, CommitStage(n),
         NEW e \in Entries, e.round = round - 2, e.epoch = cp.config.epoch,
         e.commitSet = Briefed(n).previous.rows[n],
         NEW log, log = Append(history[n], e)
  PROVE  /\ GoodLog(log)
         /\ \A i \in 1 .. Len(log) : log[i].epoch = cp.config.epoch =>
              /\ SoundSet(n, Briefed(n).previous.members, Briefed(n).previous.rows)
                   \subseteq log[i].commitSet
              /\ i # Len(log) => Briefed(n).current.row \subseteq log[i].commitSet
<1> DEFINE node == Briefed(n)
           rows == node.previous.rows
           sound == SoundSet(n, node.previous.members, rows)
           old == history[n]
           N == Len(old)
<1>1. /\ Going(n) /\ StageRound(n) = round - 1
      /\ rows[n] = nodes[n].previous.row
      /\ \A m \in sound : m \in rows[n]
      /\ sound \subseteq nodes[n].sound /\ node.current.row \subseteq nodes[n].sound
  <2>1. /\ Going(n) /\ StageRound(n) = round - 1
        /\ node.previous = nodes[n].previous /\ rows[n] = node.previous.row
        /\ \A m \in sound : rows[m] = rows[n] /\ m \in rows[n]
        /\ sound \subseteq nodes[n].sound /\ node.current.row \subseteq nodes[n].sound
    BY CommitIs
  <2> HIDE DEF sound, node
  <2> QED
    BY <2>1
<1> HIDE DEF sound
<1>2. old \in Seq(Entries)
  BY Types DEF IInv
<1>3. /\ N \in Nat /\ Len(log) = N + 1
      /\ \A i \in 1 .. N : log[i] = old[i]
      /\ log[N + 1] = e
  BY <1>2, AppendedIs
<1>4. /\ round \in Nat /\ cp.config.epoch \in Nat
  BY Types, FieldTypes, ClusterAssumption DEF IInv, Configs
<1>5. \A i \in 1 .. N : old[i].epoch = cp.config.epoch =>
        /\ old[N].epoch = cp.config.epoch /\ old[N].round = round - 3
        /\ nodes[n].sound \subseteq old[i].commitSet
        /\ i # N => rows[n] \subseteq old[i].commitSet
  <2>1. UpToDate(n)
    BY <1>1 DEF IInv, LogInv
  <2> QED
    BY <1>1, <1>4, <2>1 DEF UpToDate
<1>6. NoGaps(old) /\ NobodyBack(old)
  BY DEF IInv, LogInv, GoodLog
<1>7. \A i \in 1 .. N : old[i].round \in Nat /\ old[i].epoch \in Nat
  BY <1>2, EntryTypes
<1>8. N # 0 => \/ old[N].epoch = cp.config.epoch
               \/ old[N].epoch < cp.config.epoch /\ old[N].round < round - 2
  <2> SUFFICES ASSUME N # 0, old[N].epoch # cp.config.epoch
               PROVE  old[N].epoch < cp.config.epoch /\ old[N].round < round - 2
    OBVIOUS
  <2>1. N \in 1 .. N
    BY <1>3
  <2>2. old[N] \in Range(old)
    BY <1>2, <2>1 DEF Range
  <2>3. old[N] \in AllEntries
    BY <2>2 DEF AllEntries
  <2>4. old[N].epoch <= cp.config.epoch /\ old[N].round <= round - 2
    BY <2>3 DEF IInv, EntriesInv
  <2>5. old[N].round # round - 2
    BY <2>2 DEF IInv, EvidenceInv, Evidence
  <2>6. old[N].round \in Nat /\ old[N].epoch \in Nat
    BY <1>7, <2>1
  <2>7. old[N].epoch < cp.config.epoch
    BY <1>4, <2>4, <2>6
  <2>8. old[N].round < round - 2
    BY <1>4, <2>4, <2>5, <2>6
  <2> QED
    BY <2>7, <2>8
<1> HIDE DEF node, old
<1>9. NoGaps(log)
  <2>1. ASSUME NEW i \in 1 .. Len(log) - 1, i # N
        PROVE  \/ log[i + 1].round = log[i].round + 1 /\ log[i + 1].epoch = log[i].epoch
               \/ log[i + 1].round > log[i].round /\ log[i + 1].epoch > log[i].epoch
    <3>1. /\ i \in 1 .. N - 1 /\ i \in 1 .. N /\ i + 1 \in 1 .. N
      BY <1>3, <2>1
    <3>2. log[i] = old[i] /\ log[i + 1] = old[i + 1]
      BY <1>3, <3>1
    <3> QED
      BY <1>6, <3>1, <3>2 DEF NoGaps
  <2>2. ASSUME NEW i \in 1 .. Len(log) - 1, i = N
        PROVE  \/ log[i + 1].round = log[i].round + 1 /\ log[i + 1].epoch = log[i].epoch
               \/ log[i + 1].round > log[i].round /\ log[i + 1].epoch > log[i].epoch
    <3>1. N \in 1 .. N /\ log[i] = old[N] /\ log[i + 1] = e
      BY <1>3, <2>2
    <3>2. old[N].round \in Nat /\ old[N].epoch \in Nat
      BY <1>7, <3>1
    <3>3. CASE old[N].epoch = cp.config.epoch
      <4>1. old[N].round = round - 3
        BY <1>5, <3>1, <3>3
      <4> QED
        BY <1>4, <3>1, <3>3, <4>1
    <3>4. CASE old[N].epoch # cp.config.epoch
      BY <1>3, <1>4, <1>8, <3>1, <3>2, <3>4
    <3> QED
      BY <3>3, <3>4
  <2> QED
    BY <2>1, <2>2 DEF NoGaps
<1>10. NobodyBack(log)
  <2> SUFFICES ASSUME NEW i \in 1 .. Len(log), NEW j \in 1 .. Len(log),
                      i + 1 < j, log[i].epoch = log[j].epoch
               PROVE  log[j].commitSet \subseteq log[i].commitSet
    BY DEF NobodyBack
  <2>1. i \in 1 .. N /\ i # N /\ log[i] = old[i]
    BY <1>3
  <2>2. CASE j = N + 1
    BY <1>3, <1>5, <2>1, <2>2 DEF node
  <2>3. CASE j # N + 1
    <3>1. j \in 1 .. N /\ log[j] = old[j]
      BY <1>3, <2>3
    <3> QED
      BY <1>6, <2>1, <3>1 DEF NobodyBack
  <2> QED
    BY <2>2, <2>3
<1>11. ASSUME NEW i \in 1 .. Len(log), log[i].epoch = cp.config.epoch
       PROVE  /\ sound \subseteq log[i].commitSet
              /\ i # Len(log) => node.current.row \subseteq log[i].commitSet
  <2>1. CASE i = N + 1
    BY <1>1, <1>3, <2>1 DEF node
  <2>2. CASE i # N + 1
    <3>1. i \in 1 .. N /\ log[i] = old[i]
      BY <1>3, <2>2
    <3>2. nodes[n].sound \subseteq log[i].commitSet
      BY <1>5, <1>11, <3>1
    <3> QED
      BY <1>1, <3>2
  <2> QED
    BY <2>1, <2>2
<1> QED
  BY <1>9, <1>10, <1>11 DEF GoodLog, node, sound

(* A commit. *)
LEMMA CommitStageKeeps ==
  ASSUME IInv, NEW n \in Node, CommitStage(n)
  PROVE  IInv' /\ Opens(n) /\ \E e : ExtendsLog(n, e)
<1> DEFINE node == Briefed(n)
           rows == node.previous.rows
           sound == SoundSet(n, node.previous.members, rows)
           e == [round |-> node.previous.round, epoch |-> node.previous.epoch,
                 commitSet |-> AgreedRow(n, rows)]
           shifted == Shifted(node, n)
           digest == Extended(shifted.digest, e)
           new == [shifted EXCEPT !.sound = sound, !.digest = digest]
           log == Append(history[n], e)
           d == ControlPlaneAfterAck(n)
<1>1. /\ NodeTurn(n) /\ Participates(node, n)
      /\ packets' = packets \cup {PacketOf(node, n)} /\ cp' = d
      /\ history' = [history EXCEPT ![n] = log]
  BY DEF CommitStage
<1>2. nodes' = [nodes EXCEPT ![n] = new]
  BY DEF CommitStage
<1>3. /\ turn = n /\ round \in 0 .. MaxRound /\ history[n] \in Seq(Entries)
      /\ \A m \in Node : m # n => history'[m] = history[m]
      /\ history'[n] = log
  BY <1>1, Types DEF IInv, NodeTurn, ClusterTypeOK
<1>4. /\ node \in NodeStates /\ node.config = cp.config /\ node.pending = cp.pending
      /\ node.state = cp.states[n] /\ cp.states[n] = "ACTIVE"
      /\ node.status = "RUNNING"
  BY <1>1, <1>3, BriefedIs DEF Participates
<1>5. /\ Going(n) /\ ~Turned(n)
      /\ node.previous.round = round - 2 /\ node.previous.round \in Nat
      /\ node.current.round = round - 1
      /\ sound \in SUBSET Node /\ n \in sound
  BY CommitIs
<1>6. e.commitSet = rows[n]
  BY DEF AgreedRow
<1>7. PICK adv \in [Node -> SUBSET Node] : Evidence(adv)
  BY DEF IInv, EvidenceInv
<1>8. /\ e \in Entries /\ e.round = round - 2 /\ e.epoch = cp.config.epoch
      /\ e.commitSet # {} /\ Cardinality(Senders(adv, e)) >= Quorum
      /\ \A f \in AllEntries : f.round = e.round => f = e
  BY <1>7, CommitAgrees
<1> HIDE DEF d, sound, e
<1>9. /\ log \in Seq(Entries) /\ Range(log) = Range(history[n]) \cup {e}
      /\ Len(log) \in Nat /\ log[Len(log)] = e
  BY <1>3, <1>8, AppendedIs
<1>10. /\ GoodLog(log)
       /\ \A i \in 1 .. Len(log) : log[i].epoch = cp.config.epoch =>
            /\ sound \subseteq log[i].commitSet
            /\ i # Len(log) => node.current.row \subseteq log[i].commitSet
  <2>1. log = Append(history[n], e)
    OBVIOUS
  <2> HIDE DEF log
  <2> QED
    BY <1>6, <1>8, <2>1, CommitLogs DEF sound
<1> HIDE DEF log
<1>11. /\ shifted \in NodeStates
       /\ shifted.status = node.status /\ shifted.state = node.state
       /\ shifted.config = node.config /\ shifted.pending = node.pending
       /\ shifted.digest \in Seq(Entries) /\ shifted.digest = node.digest
       /\ shifted.current.round = round /\ shifted.previous.round = node.current.round
       /\ shifted.previous.row = node.current.row
  <2> HIDE DEF node
  <2>1. /\ shifted \in NodeStates
        /\ shifted.status = node.status /\ shifted.state = node.state
        /\ shifted.config = node.config /\ shifted.pending = node.pending
        /\ shifted.digest = node.digest
        /\ shifted.current.round = round /\ shifted.previous.round = node.current.round
        /\ shifted.previous.row = node.current.row
    BY <1>3, <1>4, ShiftedIs
  <2> HIDE DEF shifted
  <2>2. shifted.digest \in Seq(Entries)
    BY <2>1, NodeTypes
  <2> QED
    BY <2>1, <2>2
<1>12. shifted = Shifted(node, n)
  OBVIOUS
<1> HIDE DEF shifted
<1>13. digest \in Seq(Entries) /\ digest = Append(node.digest, e)
  BY <1>8, <1>11, AppendProperties DEF Extended
<1> HIDE DEF digest
<1>14. /\ new \in NodeStates /\ new.status = node.status /\ new.state = node.state
       /\ new.config = node.config /\ new.pending = node.pending /\ new.sound = sound
       /\ new.current = shifted.current /\ new.previous = shifted.previous
       /\ new.digest = digest
  <2>1. new \in NodeStates
    BY <1>5, <1>11, <1>13, Zenon DEF NodeStates
  <2> HIDE DEF node
  <2> QED
    BY <1>11, <2>1 DEF NodeStates
<1> HIDE DEF new
<1>15. d = ControlPlaneAfterAck(n)
  BY DEF d
<1>16. /\ TakesTurn(n) /\ nodes'[n] = new /\ mailbox'[n] = <<>>
       /\ cp'.states[n] = cp.states[n]
       /\ cp'.acks \subseteq cp.acks \cup {n}
  BY <1>1, <1>2, <1>3, <1>15, BriefedTurn
<1>17. WellBriefed(n)'
  <2>1. Live(n)'
    BY <1>4, <1>14, <1>16 DEF Live
  <2> QED
    BY <1>4, <1>5, <1>14, <1>16, <2>1, BriefedKeeps
<1>18. AckInv'
  BY <1>4, <1>14, <1>16, AcksKeep
<1>19. ClusterTypeOK'
  <2>1. /\ history' \in [Node -> Seq(Entries)] /\ packets \subseteq OutboundPackets
    BY <1>1, <1>9 DEF IInv, ClusterTypeOK
  <2>2. mailbox' \in {mailbox, [mailbox EXCEPT ![n] = <<>>]}
    BY <1>1 DEF NodeTurn
  <2>3. packets' \subseteq OutboundPackets
    <3> HIDE DEF node
    <3> QED
      BY <1>1, <1>3, <1>4, <2>1, PacketType
  <2> QED
    BY <1>2, <1>14, <1>16, <2>1, <2>2, <2>3, TurnType
<1>20. BriefInv' /\ StageInv' /\ PacketInv'
  BY <1>1, <1>5, <1>12, <1>14, <1>16, <1>17, GoOnKeeps
<1>21. turn' # ControlTurn /\ Turned(n)' /\ round' = round /\ cp'.config = cp.config
       /\ cp'.repair = cp.repair
  BY <1>3, <1>16, Turns DEF TakesTurn, ControlTurn, Turned
<1>22. \A m \in Node : Range(history'[m]) \subseteq Range(history[m]) \cup {e}
  BY <1>3, <1>9
<1>23. EntriesInv'
  <2>1. \A f \in AllEntries' : f \in AllEntries \/ f = e
    BY <1>21, <1>22 DEF AllEntries
  <2>2. e.epoch <= cp.config.epoch /\ e.round <= round - 2
    <3>1. cp.config.epoch \in Nat /\ round \in Nat
      BY Types, FieldTypes, ClusterAssumption DEF IInv, Configs
    <3> QED
      BY <1>8, <3>1
  <2> QED
    BY <1>8, <1>21, <2>1, <2>2 DEF IInv, EntriesInv
<1>24. EvidenceInv'
  <2>1. \A m \in Node : (Going(m)' /\ ~Turned(m)') =>
          m # n /\ Going(m) /\ ~Turned(m) /\ nodes'[m] = nodes[m]
    BY <1>16, <1>21, OthersKeep DEF TakesTurn
  <2>2. \A m \in Node : \A f \in Range(history'[m]) : f.round = round - 2 =>
          /\ f.epoch = cp.config.epoch /\ f.commitSet # {}
          /\ Cardinality(Senders(adv, f)) >= Quorum
    BY <1>7, <1>8, <1>22 DEF Evidence
  <2>3. \A m \in Node : (Going(m)' /\ ~Turned(m)' /\ nodes'[m].previous.round # -1) =>
          \A k \in Node : nodes'[m].previous.rows[k] \in {{}, adv[k]}
    BY <1>7, <2>1 DEF Evidence
  <2>4. Evidence(adv)'
    BY <1>21, <2>2, <2>3 DEF Evidence, Senders
  <2> QED
    BY <2>4 DEF EvidenceInv
<1>25. LogInv'
  <2>1. UpToDate(n)'
    <3>1. StageRound(n)' = round
      BY <1>21 DEF StageRound
    <3>2. /\ nodes'[n].previous.round = round - 1 /\ nodes'[n].sound = sound
          /\ nodes'[n].previous.row = node.current.row
      BY <1>5, <1>11, <1>14, <1>16
    <3> HIDE DEF node
    <3> QED
      BY <1>3, <1>8, <1>9, <1>10, <1>21, <3>1, <3>2 DEF UpToDate
  <2>2. \A m \in Node : m # n => (Going(m)' => UpToDate(m)')
    BY <1>16, OthersKeep DEF IInv, LogInv
  <2>3. \A m \in Node : GoodLog(history'[m])
    BY <1>3, <1>10 DEF IInv, LogInv
  <2> QED
    BY <1>21, <2>1, <2>2, <2>3 DEF IInv, LogInv
<1>26. ControlPlaneInv(cp)'
  BY <1>16 DEF TakesTurn
<1>27. IInv'
  BY <1>18, <1>19, <1>20, <1>23, <1>24, <1>25, <1>26 DEF IInv
<1>28. Opens(n)
  BY <1>4, <1>11, <1>14, <1>16 DEF Opens
<1>29. ExtendsLog(n, e)
  <2>1. history'[n] = Append(history[n], e)
    BY <1>3 DEF log
  <2> QED
    BY <1>8, <1>13, <1>14, <1>16, <2>1 DEF ExtendsLog
<1> QED
  BY <1>27, <1>28, <1>29

-----------------------------------------------------------------------------
(* The control plane's turn. *)

(* What nodes are repaired with is the log of one of them. *)
LEMMA RepairPrefixIsOne ==
  ASSUME NEW logs \in [Node -> Seq(Entries)], Node # {}
  PROVE  \E k \in Node : RepairPrefix(logs) = logs[k]
<1> DEFINE Before(n, m) == \/ Len(logs[n]) > Len(logs[m])
                           \/ Len(logs[n]) = Len(logs[m]) /\ n <= m
           N == Cardinality(Node)
           S == {k \in Nat : k < N => \E n \in 0 .. k : \A m \in 0 .. k : Before(n, m)}
<1>1. N \in Nat /\ Node = 0 .. N - 1 /\ N # 0
  BY NodeAssumption, ClusterAssumption, FS_CardinalityType
<1>2. \A n \in Node : Len(logs[n]) \in Nat
  OBVIOUS
<1> HIDE DEF N
<1>3. \A n, m, k \in Node : Before(n, m) /\ Before(m, k) => Before(n, k)
  BY <1>1, <1>2
<1>4. \A n, m \in Node : Before(n, m) \/ Before(m, n)
  BY <1>1, <1>2
<1> HIDE DEF Before
<1>5. 0 \in S
  <2>1. 0 \in 0 .. 0 /\ 0 \in Node
    BY <1>1
  <2>2. \A m \in 0 .. 0 : m = 0
    OBVIOUS
  <2> QED
    BY <1>4, <2>1, <2>2
<1>6. ASSUME NEW k \in Nat, k \in S
      PROVE  k + 1 \in S
  <2> SUFFICES ASSUME k + 1 < N
               PROVE  \E n \in 0 .. k + 1 : \A m \in 0 .. k + 1 : Before(n, m)
    BY <1>6
  <2>1. PICK n \in 0 .. k : \A m \in 0 .. k : Before(n, m)
    BY <1>1, <1>6
  <2>2. /\ n \in Node /\ k + 1 \in Node /\ n \in 0 .. k + 1 /\ k + 1 \in 0 .. k + 1
        /\ \A m \in 0 .. k : m \in Node
        /\ \A m \in 0 .. k + 1 : m \in 0 .. k \/ m = k + 1
    BY <1>1
  <2>3. CASE Before(n, k + 1)
    BY <2>1, <2>2, <2>3
  <2>4. CASE ~Before(n, k + 1)
    <3>1. Before(k + 1, n) /\ Before(k + 1, k + 1)
      BY <1>4, <2>2, <2>4
    <3>2. \A m \in 0 .. k : Before(k + 1, m)
      BY <1>3, <2>1, <2>2, <3>1
    <3> QED
      BY <2>2, <3>1, <3>2
  <2> QED
    BY <2>3, <2>4
<1>7. N - 1 \in S
  <2> HIDE DEF S
  <2>1. Nat \subseteq S
    BY <1>5, <1>6, SetInduction
  <2>2. N - 1 \in Nat
    BY <1>1
  <2> QED
    BY <2>1, <2>2
<1>8. \E n \in Node : \A m \in Node : Before(n, m)
  BY <1>1, <1>7
<1>9. RepairPrefix(logs) = logs[CHOOSE n \in Node : \A m \in Node : Before(n, m)]
  BY DEF RepairPrefix, Before
<1> QED
  BY <1>8, <1>9

\* What the control plane's turn does, as the nodes' logs and updates have it.
Controls(n) ==
  LET update == UpdateFor(cp', n)
  IN  /\ lastUpdate'[n] = <<update>>
      /\ \/ /\ lastUpdate[n] # <<update>> /\ mailbox'[n] = <<update>>
            /\ cp'.repair[n] # <<>> => history'[n] = cp'.repair[n]
         \/ /\ lastUpdate[n] = <<update>> /\ mailbox'[n] = mailbox[n]
            /\ history'[n] = history[n]
      /\ history'[n] \in {history[n], cp'.repair[n]}
      /\ cp'.repair[n] = <<>> => history'[n] = history[n]
      /\ \/ cp'.repair[n] \in {cp.repair[n], <<>>}
         \/ \E k \in Node : cp'.repair[n] = history[k]

(* What it does to the control plane itself. *)
LEMMA ControlIs ==
  ASSUME IInv, ControlPlaneTurn, round < MaxRound
  PROVE  /\ turn = ControlTurn /\ turn' = 0 /\ round' = round /\ round < MaxRound
         /\ nodes' = nodes /\ packets' = packets
         /\ ControlPlaneInv(cp') /\ ~CutoverIsDue(cp', round)
         /\ StaysInRun(cp, cp') \/ SwitchesRun(cp, cp')
         /\ cp'.config # cp.config => round >= CutoverSlack
         /\ \A n \in Node : Controls(n)
<1> DEFINE time == RoundStart
           c == ControlState(AdvanceToTime(cp, time, history), round, history)
           changed == {n \in Node : lastUpdate[n] # <<UpdateFor(c, n)>>}
<1>1. /\ turn = ControlTurn /\ turn' = 0 /\ round' = round /\ round < MaxRound
      /\ nodes' = nodes /\ packets' = packets
      /\ cp' = c
      /\ mailbox' = [n \in Node |-> IF n \in changed THEN Pushed(UpdateFor(c, n))
                                                      ELSE mailbox[n]]
      /\ lastUpdate' = [n \in Node |-> <<UpdateFor(c, n)>>]
      /\ history' = [n \in Node |-> IF n \in changed /\ c.repair[n] # <<>>
                                     THEN c.repair[n] ELSE history[n]]
  BY Zenon DEF ControlPlaneTurn, RepairSnapshots
<1>2. ControlPlaneInv(cp) /\ round \in Nat /\ time \in Nat
  BY Types, ClusterAssumption, RoundStartType DEF IInv
<1> HIDE DEF time
<1>3. history \in [Node -> Seq(Entries)]
  BY DEF IInv, ClusterTypeOK
<1>4. Node # {} => \E k \in Node : RepairPrefix(history) = history[k]
  BY <1>3, RepairPrefixIsOne
<1>5. Node # {} => RepairPrefix(history) \in Seq(Entries)
  BY <1>3, <1>4
<1>6. /\ ControlPlaneInv(c) /\ ~CutoverIsDue(c, round)
      /\ StaysInRun(cp, c) \/ (SwitchesRun(cp, c) /\ round >= CutoverSlack)
      /\ \A n \in Node : c.repair[n] \in {cp.repair[n], <<>>, RepairPrefix(history)}
  BY <1>2, <1>5, TurnKeeps
<1> HIDE DEF c
<1>7. ASSUME NEW n \in Node PROVE Controls(n)
  <2>1. \/ c.repair[n] \in {cp.repair[n], <<>>}
        \/ \E k \in Node : c.repair[n] = history[k]
    BY <1>4, <1>6
  <2> QED
    BY <1>1, <2>1 DEF Controls, Pushed
<1>8. cp'.config # cp.config => round >= CutoverSlack
  BY <1>1, <1>6 DEF StaysInRun
<1> QED
  BY <1>1, <1>6, <1>7, <1>8

(* Between two cutovers nobody is told that he is active who is not, and a node that is told
   of a cutover has no log of the new epoch. *)
LEMMA ControlKeepsBrief ==
  ASSUME IInv, ControlPlaneTurn, round < MaxRound
  PROVE  /\ BriefInv'
         /\ AllEntries' \subseteq AllEntries
         /\ \A n \in Node : Going(n)' =>
              Going(n) /\ cp'.config = cp.config /\ history'[n] = history[n]
<1>1. /\ turn = ControlTurn /\ turn' = 0 /\ round' = round /\ round < MaxRound
      /\ nodes' = nodes /\ ControlPlaneInv(cp') /\ ~CutoverIsDue(cp', round)
      /\ StaysInRun(cp, cp') \/ SwitchesRun(cp, cp')
      /\ \A n \in Node : Controls(n)
  BY ControlIs
<1>2. /\ cp.config.run \in Nat /\ cp.config.epoch \in Nat
      /\ \A n \in Node : nodes[n].config.run \in Nat
      /\ \A n \in Node : lastUpdate[n] # <<>> => lastUpdate[n] = <<Told(n)>>
  BY Types, FieldTypes, NodeTypes DEF IInv, Configs
<1>3. AllEntries' \subseteq AllEntries
  <2>1. ASSUME NEW n \in Node
        PROVE  Range(cp'.repair[n]) \subseteq AllEntries
    <3>1. CASE cp'.repair[n] = cp.repair[n]
      BY <3>1 DEF AllEntries
    <3>2. CASE cp'.repair[n] = <<>>
      BY <3>2 DEF Range
    <3>3. CASE \E k \in Node : cp'.repair[n] = history[k]
      BY <3>3 DEF AllEntries
    <3> QED
      BY <1>1, <3>1, <3>2, <3>3 DEF Controls
  <2>2. \A n \in Node : Range(history'[n]) \subseteq AllEntries
    BY <1>1, <2>1 DEF Controls, AllEntries
  <2> QED
    BY <2>1, <2>2 DEF AllEntries
<1>4. ASSUME NEW n \in Node
      PROVE  WellBriefed(n)' /\ (Going(n)' =>
               Going(n) /\ cp'.config = cp.config /\ history'[n] = history[n])
  <2>1. /\ Settled(n) /\ ~Settled(n)' /\ turn' # ControlTurn
        /\ Live(n)' <=> Live(n)
    BY <1>1, Turns DEF Settled, Turned, Live, ControlTurn
  <2>2. WellBriefed(n) /\ Controls(n)
    BY <1>1 DEF IInv, BriefInv
  <2>3. /\ Told(n)' = UpdateFor(cp', n) /\ lastUpdate'[n] # <<>>
        /\ Told(n)'.config = cp'.config /\ Told(n)'.pending = cp'.pending
        /\ Told(n)'.state = cp'.states[n]
    BY <2>2 DEF Controls, Told, UpdateFor
  <2>4. mailbox'[n] = <<>> =>
          /\ nodes[n].config = cp'.config /\ nodes[n].pending = cp'.pending
          /\ nodes[n].state = cp'.states[n]
    <3> SUFFICES ASSUME mailbox'[n] = <<>>
                 PROVE  /\ nodes[n].config = cp'.config /\ nodes[n].pending = cp'.pending
                        /\ nodes[n].state = cp'.states[n]
      OBVIOUS
    <3>1. lastUpdate[n] = <<UpdateFor(cp', n)>> /\ mailbox[n] = <<>>
      BY <2>2 DEF Controls
    <3>2. Told(n) = UpdateFor(cp', n) /\ lastUpdate[n] # <<>>
      BY <3>1 DEF Told
    <3>3. /\ nodes[n].config = cp.config /\ nodes[n].pending = cp.pending
          /\ nodes[n].state = Told(n).state
          /\ Told(n).config = cp.config /\ Told(n).pending = cp.pending
      BY <2>2, <3>1, <3>2 DEF WellBriefed
    <3> QED
      BY <3>2, <3>3 DEF UpdateFor
  <2>5. nodes[n].config = cp.config \/ nodes[n].config.run < cp.config.run
    BY <2>2 DEF WellBriefed
  <2>6. Live(n) => n \in nodes[n].sound
    BY <2>2 DEF WellBriefed
  <2>7. CASE StaysInRun(cp, cp')
    <3>1. /\ cp'.config = cp.config
          /\ cp.pending.status = "COMMITTED" => cp'.pending = cp.pending
          /\ cp'.states[n] = "ACTIVE" => cp.states[n] = "ACTIVE"
      BY <2>7 DEF StaysInRun
    <3>2. nodes[n].config = cp'.config /\ nodes[n].pending.status = "COMMITTED" =>
            nodes[n].pending = cp'.pending
      BY <2>2, <3>1 DEF WellBriefed
    <3>3. cp'.states[n] = "ACTIVE" => Going(n) /\ Live(n)
      BY <2>1, <2>2, <3>1 DEF WellBriefed
    <3>4. WellBriefed(n)'
      BY <1>1, <2>1, <2>3, <2>4, <2>5, <2>6, <3>1, <3>2, <3>3 DEF WellBriefed, Going
    <3>5. cp'.states[n] = "ACTIVE" => history'[n] = history[n]
      BY <1>1, <2>2 DEF ControlPlaneInv, InvWith, StatesInv, Controls
    <3> QED
      BY <3>1, <3>3, <3>4, <3>5 DEF Going
  <2>8. CASE SwitchesRun(cp, cp')
    <3>1. cp'.config.run = cp.config.run + 1 /\ cp'.config.epoch = cp.config.epoch + 1
      BY <2>8 DEF SwitchesRun
    <3>2. nodes[n].config.run < cp'.config.run /\ nodes[n].config # cp'.config
      BY <1>2, <2>5, <3>1
    <3>3. \A e \in Range(history'[n]) : e.epoch < cp'.config.epoch
      <4>1. \A e \in AllEntries : e.epoch <= cp.config.epoch /\ e \in Entries
        <5>1. \A m \in Node : history[m] \in Seq(Entries) /\ cp.repair[m] \in Seq(Entries)
          BY Types, FieldTypes DEF IInv
        <5> QED
          BY <5>1 DEF IInv, EntriesInv, AllEntries, Range
      <4>2. \A e \in AllEntries : e.epoch < cp'.config.epoch
        BY <1>2, <3>1, <4>1, EntryTypes
      <4>3. Range(history'[n]) \subseteq AllEntries'
        BY DEF AllEntries
      <4> QED
        BY <1>3, <4>2, <4>3
    <3>4. WellBriefed(n)'
      BY <1>1, <2>1, <2>3, <2>4, <2>6, <3>2, <3>3 DEF WellBriefed
    <3> QED
      BY <1>1, <3>2, <3>4 DEF Going
  <2> QED
    BY <1>1, <2>7, <2>8
<1>5. BriefInv'
  BY <1>1, <1>4 DEF BriefInv
<1> QED
  BY <1>3, <1>4, <1>5

(* The control plane's turn. *)
LEMMA ControlKeeps ==
  ASSUME IInv, ControlPlaneTurn, round < MaxRound
  PROVE  IInv'
<1>1. /\ turn = ControlTurn /\ turn' = 0 /\ round' = round
      /\ nodes' = nodes /\ packets' = packets /\ ControlPlaneInv(cp')
      /\ StaysInRun(cp, cp') \/ SwitchesRun(cp, cp')
      /\ \A n \in Node : Controls(n)
  BY ControlIs
<1>2. /\ BriefInv'
      /\ AllEntries' \subseteq AllEntries
      /\ \A n \in Node : Going(n)' =>
           Going(n) /\ cp'.config = cp.config /\ history'[n] = history[n]
  BY ControlKeepsBrief
<1>3. /\ turn' # ControlTurn /\ round \in Nat
      /\ \A n \in Node : ~Turned(n) /\ ~Turned(n)' /\ StageRound(n)' = StageRound(n)
  BY <1>1, Turns, Types, ClusterAssumption DEF IInv, Turned, StageRound, ControlTurn
<1>4. /\ cp' \in ControlPlaneStates
      /\ cp.config.epoch \in Nat /\ cp'.config.epoch \in Nat
  BY <1>1, Types, FieldTypes DEF IInv, ControlPlaneInv, InvWith, Configs
<1>5. ClusterTypeOK'
  <2>1. ClusterTypeOK
    BY DEF IInv
  <2>2. /\ DOMAIN lastUpdate' = Node /\ DOMAIN mailbox' = Node
        /\ history' = [n \in Node |-> history'[n]]
    BY DEF ControlPlaneTurn
  <2>3. ASSUME NEW n \in Node
        PROVE  /\ lastUpdate'[n] \in Seq(Updates) /\ Len(lastUpdate'[n]) <= 1
               /\ mailbox'[n] \in {<<>>, lastUpdate'[n]}
               /\ history'[n] \in Seq(Entries)
    <3>1. /\ cp'.config \in Configs /\ cp'.states[n] \in MembershipStates
          /\ cp'.pending \in Pendings /\ cp'.repair[n] \in Seq(Entries)
      BY <1>4, FieldTypes
    <3>2. UpdateFor(cp', n) \in Updates
      BY <3>1 DEF UpdateFor, Updates
    <3>3. /\ lastUpdate'[n] = <<UpdateFor(cp', n)>>
          /\ \/ mailbox'[n] = lastUpdate'[n]
             \/ mailbox'[n] = mailbox[n] /\ lastUpdate'[n] = lastUpdate[n]
          /\ history'[n] \in {history[n], cp'.repair[n]}
      BY <1>1 DEF Controls
    <3>4. mailbox[n] \in {<<>>, lastUpdate[n]} /\ history[n] \in Seq(Entries)
      BY <2>1 DEF ClusterTypeOK
    <3>5. lastUpdate'[n] \in Seq(Updates) /\ Len(lastUpdate'[n]) <= 1
      <4> HIDE DEF UpdateFor
      <4> QED
        BY <3>2, <3>3
    <3>6. mailbox'[n] \in {<<>>, lastUpdate'[n]} /\ history'[n] \in Seq(Entries)
      BY <3>1, <3>3, <3>4
    <3> QED
      BY <3>5, <3>6
  <2>4. history' \in [Node -> Seq(Entries)]
    BY <2>2, <2>3
  <2>5. turn' \in ControlTurn .. NetworkTurn
    BY <1>1, Turns DEF ControlTurn
  <2> QED
    BY <1>1, <1>4, <2>1, <2>2, <2>3, <2>4, <2>5 DEF ClusterTypeOK
<1>6. StageInv'
  <2>1. ASSUME NEW n \in Node, Going(n)' PROVE InStep(n)'
    <3>1. InStep(n) /\ cp'.config = cp.config
      BY <1>2, <2>1 DEF IInv, StageInv
    <3> QED
      BY <1>1, <1>3, <3>1 DEF InStep
  <2> QED
    BY <2>1 DEF StageInv
<1>7. PacketInv'
  <2>1. packets = {}
    <3>1. \A p \in packets : p.src \in Node /\ Turned(p.src)
      BY Types DEF IInv, PacketInv, OutboundPackets
    <3> QED
      BY <1>3, <3>1
  <2> QED
    BY <1>1, <1>3, <2>1 DEF PacketInv
<1>8. \A e \in AllEntries : e \in Entries /\ e.round <= round - 3 /\ e.epoch <= cp.config.epoch
  <2>1. \A m \in Node : history[m] \in Seq(Entries) /\ cp.repair[m] \in Seq(Entries)
    BY Types, FieldTypes DEF IInv
  <2> QED
    BY <1>1, <2>1 DEF IInv, EntriesInv, AllEntries, Range
<1>9. EntriesInv'
  <2>1. cp.config.epoch <= cp'.config.epoch
    BY <1>1, <1>4 DEF StaysInRun, SwitchesRun
  <2>2. \A e \in AllEntries : e.epoch <= cp'.config.epoch /\ e.round <= round - 2
    BY <1>3, <1>4, <1>8, <2>1, EntryTypes
  <2>3. \A n \in Node : Range(cp'.repair[n]) \subseteq AllEntries'
    BY DEF AllEntries
  <2>4. \A e, f \in AllEntries : e.round = f.round => e = f
    BY DEF IInv, EntriesInv
  <2> QED
    BY <1>1, <1>2, <1>3, <1>8, <2>2, <2>3, <2>4 DEF EntriesInv
<1>10. EvidenceInv'
  <2>1. PICK adv \in [Node -> SUBSET Node] : Evidence(adv)
    BY DEF IInv, EvidenceInv
  <2>2. \A n \in Node : (Going(n)' /\ nodes'[n].previous.round # -1) =>
          \A m \in Node : nodes'[n].previous.rows[m] \in {{}, adv[m]}
    BY <1>1, <1>2, <1>3, <2>1 DEF Evidence
  <2>3. \A n \in Node : \A e \in Range(history'[n]) : e.round # round - 2
    <3>1. \A n \in Node : Range(history'[n]) \subseteq AllEntries
      BY <1>2 DEF AllEntries
    <3>2. \A e \in AllEntries : e.round # round - 2
      BY <1>3, <1>8, EntryTypes
    <3> QED
      BY <3>1, <3>2
  <2>4. Evidence(adv)'
    BY <1>1, <2>2, <2>3 DEF Evidence
  <2> QED
    BY <2>4 DEF EvidenceInv
<1>11. LogInv'
  <2>1. GoodLog(<<>>)
    BY DEF GoodLog, NoGaps, NobodyBack
  <2>2. \A n \in Node : GoodLog(cp'.repair[n])
    BY <1>1, <2>1 DEF Controls, IInv, LogInv
  <2>3. \A n \in Node : GoodLog(history'[n])
    BY <1>1, <2>2 DEF Controls, IInv, LogInv
  <2>4. ASSUME NEW n \in Node, Going(n)' PROVE UpToDate(n)'
    <3>1. UpToDate(n) /\ cp'.config = cp.config /\ history'[n] = history[n]
      BY <1>2, <2>4 DEF IInv, LogInv
    <3> QED
      BY <1>1, <1>3, <3>1 DEF UpToDate
  <2> QED
    BY <2>2, <2>3, <2>4 DEF LogInv
<1>12. AckInv'
  BY <1>1 DEF IInv, AckInv, StaysInRun, SwitchesRun
<1> QED
  BY <1>1, <1>2, <1>5, <1>6, <1>7, <1>9, <1>10, <1>11, <1>12 DEF IInv

-----------------------------------------------------------------------------
(* The network's turn. *)

(* What a node has after it received some packets. *)
LEMMA ReceivedIs ==
  ASSUME NEW node \in NodeStates, NEW heard, heard \subseteq OutboundPackets
  PROVE  LET new == Received(node, heard) IN
         /\ new \in NodeStates
         /\ new.status = node.status /\ new.state = node.state /\ new.config = node.config
         /\ new.sound = node.sound /\ new.pending = node.pending
         /\ new.digest = node.digest
         /\ new.current.round = node.current.round /\ new.current.epoch = node.current.epoch
         /\ new.current.rows = node.current.rows
         /\ new.current.members = node.current.members
         /\ new.previous.members = node.previous.members
         /\ new.current.row = node.current.row \cup {p.src : p \in heard}
         /\ new.previous.round = node.previous.round
         /\ new.previous.epoch = node.previous.epoch
         /\ new.previous.row = node.previous.row
         /\ \A m \in Node :
              \/ \E p \in heard : p.src = m /\ new.previous.rows[m] = p.row
              \/ /\ \A p \in heard : p.src # m
                 /\ new.previous.rows[m] = node.previous.rows[m]
<1> DEFINE row == node.current.row \cup {p.src : p \in heard}
           RowOf(m) == IF \E p \in heard : p.src = m
                       THEN (CHOOSE p \in heard : p.src = m).row
                       ELSE node.previous.rows[m]
           rows == [m \in Node |-> RowOf(m)]
           current == [node.current EXCEPT !.row = row]
           previous == [node.previous EXCEPT !.rows = rows]
           new == [node EXCEPT !.current = current, !.previous = previous]
<1>1. node.current \in Stages /\ node.previous \in Stages
  BY NodeTypes
<1>2. \A p \in heard : p.src \in Node /\ p.row \in SUBSET Node
  BY DEF OutboundPackets
<1>3. row \in SUBSET Node
  BY <1>1, <1>2, StageTypes
<1>4. \A m \in Node :
        \/ \E p \in heard : p.src = m /\ RowOf(m) = p.row
        \/ (\A p \in heard : p.src # m) /\ RowOf(m) = node.previous.rows[m]
  OBVIOUS
<1>5. node.previous.rows \in [Node -> SUBSET Node]
  BY <1>1, StageTypes
<1> HIDE DEF RowOf
<1>6. rows \in [Node -> SUBSET Node] /\ \A m \in Node : rows[m] = RowOf(m)
  BY <1>2, <1>4, <1>5
<1> HIDE DEF row, rows
<1>7. current \in Stages /\ previous \in Stages
  BY <1>1, <1>3, <1>6, Zenon DEF Stages
<1>8. /\ current.round = node.current.round /\ current.epoch = node.current.epoch
      /\ current.rows = node.current.rows /\ current.row = row
      /\ current.members = node.current.members /\ previous.members = node.previous.members
      /\ previous.round = node.previous.round /\ previous.epoch = node.previous.epoch
      /\ previous.row = node.previous.row /\ previous.rows = rows
  BY <1>1 DEF Stages
<1>9. Received(node, heard) = new
  <2>1. Received(node, heard) =
          [node EXCEPT !.current = [@ EXCEPT !.row = row],
                       !.previous = [@ EXCEPT !.rows = rows]]
    BY DEF Received, row, rows, RowOf
  <2> QED
    BY <2>1 DEF NodeStates
<1> HIDE DEF current, previous
<1>10. new \in NodeStates
  BY <1>7, Zenon DEF NodeStates
<1>11. /\ new.status = node.status /\ new.state = node.state /\ new.config = node.config
       /\ new.sound = node.sound /\ new.pending = node.pending
       /\ new.digest = node.digest
       /\ new.current = current /\ new.previous = previous
  BY DEF NodeStates
<1> HIDE DEF new
<1> QED
  BY <1>4, <1>6, <1>8, <1>9, <1>10, <1>11 DEF row

(* One packet of each node at most is on its way. *)
LEMMA PacketsAreFinite ==
  ASSUME IInv
  PROVE  IsFiniteSet(packets)
<1> DEFINE f == [p \in packets |-> p.src]
<1>1. f \in Injection(packets, Node)
  BY Types DEF IInv, PacketInv, OutboundPackets, Injection, IsInjective
<1> QED
  BY <1>1, NodeAssumption, FS_Injection

\* What the network's turn does to a node; heard are the packets that count.
Receives(n, heard) ==
  LET old == nodes[n]
      new == nodes'[n]
  IN  /\ heard \subseteq packets
      /\ \A p \in heard : n # p.src /\ p.src \in old.sound
      /\ new \in NodeStates
      /\ new.status = old.status /\ new.state = old.state /\ new.config = old.config
      /\ new.sound = old.sound /\ new.pending = old.pending /\ new.digest = old.digest
      /\ new.current.round = old.current.round /\ new.current.epoch = old.current.epoch
      /\ new.current.rows = old.current.rows
      /\ new.current.row = old.current.row \cup {p.src : p \in heard}
      /\ new.previous.round = old.previous.round /\ new.previous.epoch = old.previous.epoch
      /\ new.previous.row = old.previous.row
      /\ \A m \in Node :
           \/ \E p \in heard : p.src = m /\ new.previous.rows[m] = p.row
           \/ (\A p \in heard : p.src # m) /\ new.previous.rows[m] = old.previous.rows[m]

(* A node counts packets of others only, from nodes that it still counts on. *)
LEMMA NetworkIs ==
  ASSUME IInv, NEW lost, DeliverAllBut(lost)
  PROVE  /\ turn = NetworkTurn /\ turn' = ControlTurn /\ round' = round + 1 /\ packets' = {}
         /\ cp' = cp /\ mailbox' = mailbox /\ lastUpdate' = lastUpdate
         /\ history' = history
         /\ DOMAIN nodes' = Node /\ nodes' = [n \in Node |-> nodes'[n]]
         /\ \A n \in Node : \E heard : Receives(n, heard)
<1> DEFINE Arriving == [n \in Node |->
             {p \in packets : n \in p.destinations /\ <<n, p>> \notin lost}]
           Heard(n) == {p \in Arriving[n] : Counts(n, p)}
<1>1. /\ turn = NetworkTurn /\ turn' = ControlTurn /\ round' = round + 1 /\ packets' = {}
      /\ cp' = cp /\ mailbox' = mailbox /\ lastUpdate' = lastUpdate /\ history' = history
      /\ nodes' = [n \in Node |-> Received(nodes[n], Heard(n))]
  BY Zenon DEF DeliverAllBut, Deliver
<1>2. ASSUME NEW n \in Node PROVE \E heard : Receives(n, heard)
  <2>1. PICK heard : heard = Heard(n)
    OBVIOUS
  <2>2. heard \subseteq packets /\ packets \subseteq OutboundPackets
    BY <2>1, Types DEF IInv
  <2>3. \A p \in heard : n # p.src /\ p.src \in nodes[n].sound
    BY <2>1 DEF Counts, IInv, PacketInv
  <2>4. nodes'[n] = Received(nodes[n], heard) /\ nodes[n] \in NodeStates
    BY <1>1, <2>1, Types DEF IInv
  <2>5. heard \subseteq OutboundPackets
    BY <2>2
  <2>6. Receives(n, heard)
    BY <2>2, <2>3, <2>4, <2>5, ReceivedIs DEF Receives
  <2> QED
    BY <2>6
<1> QED
  BY <1>1, <1>2

(* Everybody has taken his turn, and nobody acts before the next. *)
LEMMA NetworkKeepsNodes ==
  ASSUME IInv, NEW lost, DeliverAllBut(lost), NEW n \in Node
  PROVE  /\ WellBriefed(n)'
         /\ Turned(n) /\ ~Turned(n)'
         /\ Going(n)' => Going(n) /\ InStep(n)' /\ UpToDate(n)'
<1>1. /\ turn = NetworkTurn /\ turn' = ControlTurn /\ round' = round + 1
      /\ cp' = cp /\ mailbox' = mailbox /\ lastUpdate' = lastUpdate /\ history' = history
  BY NetworkIs
<1>2. PICK heard : Receives(n, heard)
  BY NetworkIs
<1>3. round \in Nat
  BY Types, ClusterAssumption DEF IInv
<1>4. /\ Turned(n) /\ ~Turned(n)' /\ Settled(n) /\ Settled(n)'
      /\ turn # ControlTurn
      /\ StageRound(n) = round /\ StageRound(n)' = round
  BY <1>1, <1>3, Turns DEF Turned, Settled, StageRound, ControlTurn
<1>5. /\ nodes'[n].config = nodes[n].config /\ nodes'[n].pending = nodes[n].pending
      /\ nodes'[n].state = nodes[n].state /\ nodes'[n].status = nodes[n].status
      /\ nodes'[n].sound = nodes[n].sound
  BY <1>2 DEF Receives
<1>6. /\ Told(n)' = Told(n) /\ (Live(n)' <=> Live(n)) /\ (Going(n)' <=> Going(n))
  BY <1>1, <1>5 DEF Told, Live, Going
<1>7. WellBriefed(n)'
  <2>1. WellBriefed(n)
    BY DEF IInv, BriefInv
  <2> QED
    BY <1>1, <1>4, <1>5, <1>6, <2>1 DEF WellBriefed
<1>8. ASSUME Going(n) PROVE InStep(n)'
  <2> DEFINE old == nodes[n]
             new == nodes'[n]
  <2>1. InStep(n)
    BY <1>8 DEF IInv, StageInv
  <2>2. /\ new.sound = old.sound
        /\ new.current.round = old.current.round /\ new.current.epoch = old.current.epoch
        /\ new.current.rows = old.current.rows
        /\ new.previous.round = old.previous.round
        /\ new.previous.epoch = old.previous.epoch
        /\ new.previous.row = old.previous.row
        /\ new.previous.rows[n] = old.previous.rows[n]
    BY <1>2 DEF Receives
  <2>3. new.current.row \subseteq new.sound
    BY <1>2, <2>1 DEF Receives, InStep
  <2>4. \A m \in Node : new.previous.rows[m] # {} => m \in new.sound
    <3> TAKE m \in Node
    <3>1. CASE \E p \in heard : p.src = m
      BY <1>2, <3>1 DEF Receives
    <3>2. CASE new.previous.rows[m] = old.previous.rows[m]
      BY <2>1, <2>2, <3>2 DEF InStep
    <3> QED
      BY <1>2, <3>1, <3>2 DEF Receives
  <2> HIDE DEF old, new
  <2>5. /\ old = nodes[n] /\ new = nodes'[n]
    BY DEF old, new
  <2> QED
    BY <1>1, <1>4, <2>1, <2>2, <2>3, <2>4, <2>5 DEF InStep
<1>9. ASSUME Going(n) PROVE UpToDate(n)'
  <2>1. UpToDate(n)
    BY <1>9 DEF IInv, LogInv
  <2>2. /\ nodes'[n].previous.round = nodes[n].previous.round
        /\ nodes'[n].previous.row = nodes[n].previous.row
    BY <1>2 DEF Receives
  <2> QED
    BY <1>1, <1>4, <1>5, <2>1, <2>2 DEF UpToDate
<1> QED
  BY <1>4, <1>6, <1>7, <1>8, <1>9

(* The network's turn. *)
LEMMA NetworkKeeps ==
  ASSUME IInv, NEW lost, DeliverAllBut(lost)
  PROVE  IInv'
<1>1. /\ turn = NetworkTurn /\ turn' = ControlTurn /\ round' = round + 1 /\ packets' = {}
      /\ cp' = cp /\ mailbox' = mailbox /\ lastUpdate' = lastUpdate
      /\ history' = history
      /\ nodes' = [n \in Node |-> nodes'[n]]
      /\ \A n \in Node : \E heard : Receives(n, heard)
  BY NetworkIs
<1>2. \A n \in Node :
        /\ WellBriefed(n)' /\ Turned(n) /\ ~Turned(n)'
        /\ Going(n)' => Going(n) /\ InStep(n)' /\ UpToDate(n)'
  BY NetworkKeepsNodes
<1>3. /\ round \in Nat /\ turn # ControlTurn /\ round < MaxRound
      /\ NetworkTurn \in Nat
  BY <1>1, Turns, Types, ClusterAssumption DEF IInv, BriefInv, ControlTurn
<1>4. ClusterTypeOK'
  <2>1. \A n \in Node : nodes'[n] \in NodeStates
    BY <1>1 DEF Receives
  <2>2. nodes' \in [Node -> NodeStates]
    BY <1>1, <2>1
  <2>3. round' \in 0 .. MaxRound /\ turn' \in ControlTurn .. NetworkTurn
    BY <1>1, <1>3, ClusterAssumption DEF ControlTurn
  <2> QED
    BY <1>1, <2>2, <2>3 DEF IInv, ClusterTypeOK
<1>5. BriefInv'
  BY <1>1, <1>2 DEF BriefInv
<1>6. StageInv' /\ LogInv'
  BY <1>1, <1>2 DEF StageInv, LogInv, IInv
<1>7. PacketInv'
  BY <1>1, <1>2 DEF PacketInv
<1>8. \A e \in AllEntries : e.round \in Nat /\ e.round <= round - 2
  <2>1. \A m \in Node : history[m] \in Seq(Entries) /\ cp.repair[m] \in Seq(Entries)
    BY Types, FieldTypes DEF IInv
  <2>2. \A e \in AllEntries : e \in Entries
    BY <2>1 DEF AllEntries, Range
  <2> QED
    BY <2>2, EntryTypes DEF IInv, EntriesInv
<1>9. EntriesInv'
  <2>1. AllEntries' = AllEntries
    BY <1>1 DEF AllEntries
  <2>2. \A e \in AllEntries : e.round <= round' - 3 /\ e.round <= round' - 2
    BY <1>1, <1>3, <1>8
  <2>3. \A n \in Node : Range(cp.repair[n]) \subseteq AllEntries
    BY DEF AllEntries
  <2>4. \A e, f \in AllEntries : e.round = f.round => e = f
    BY DEF IInv, EntriesInv
  <2>5. \A e \in AllEntries : e.epoch <= cp.config.epoch
    BY DEF IInv, EntriesInv
  <2> QED
    BY <1>1, <2>1, <2>2, <2>3, <2>4, <2>5 DEF EntriesInv
<1>10. EvidenceInv'
  <2> DEFINE adv == [m \in Node |-> UNION {p.row : p \in {q \in packets : q.src = m}}]
  <2>1. adv \in [Node -> SUBSET Node]
    BY Types DEF IInv, OutboundPackets
  <2>2. \A p \in packets : adv[p.src] = p.row
    <3> TAKE p \in packets
    <3>1. p.src \in Node /\ {q \in packets : q.src = p.src} = {p}
      BY Types DEF IInv, OutboundPackets, PacketInv
    <3> QED
      BY <3>1
  <2> HIDE DEF adv
  <2>3. ASSUME NEW n \in Node, Going(n)', nodes'[n].previous.round # -1, NEW m \in Node
        PROVE  nodes'[n].previous.rows[m] \in {{}, adv[m]}
    <3>1. PICK heard : Receives(n, heard)
      BY <1>1
    <3>2. Echoed(n)
      BY <1>2, <2>3, <3>1 DEF Receives, IInv, PacketInv
    <3>3. nodes[n].previous.rows[m] \in {{}, adv[m]}
      BY <2>2, <3>2 DEF Echoed
    <3> QED
      BY <2>2, <3>1, <3>3 DEF Receives
  <2>4. \A n \in Node : \A e \in Range(history[n]) : e.round # round' - 2
    <3>1. \A n \in Node : Range(history[n]) \subseteq AllEntries
      BY DEF AllEntries
    <3>2. \A e \in AllEntries : e.round # round' - 2
      BY <1>1, <1>3, <1>8
    <3> QED
      BY <3>1, <3>2
  <2>5. PICK sent \in [Node -> SUBSET Node] : sent = adv
    BY <2>1
  <2>6. Evidence(sent)'
    BY <1>1, <2>3, <2>4, <2>5 DEF Evidence
  <2> QED
    BY <2>6 DEF EvidenceInv
<1>11. AckInv'
  <2>1. cp.acks \subseteq Node
    BY Types, FieldTypes DEF IInv
  <2>2. \A n \in Node : nodes'[n].pending = nodes[n].pending
    BY <1>1 DEF Receives
  <2>3. \A n \in cp.acks : nodes[n].pending.run = cp.pending.run
    BY DEF IInv, AckInv
  <2> QED
    BY <1>1, <2>1, <2>2, <2>3 DEF AckInv
<1> QED
  BY <1>1, <1>4, <1>5, <1>6, <1>7, <1>9, <1>10, <1>11 DEF IInv

-----------------------------------------------------------------------------
(* The cluster under any faults. *)

(* In the beginning nobody has been told anything, and everyone goes on. *)
LEMMA InitIsGood ==
  ASSUME ClusterInit
  PROVE  IInv
<1>1. PICK delay \in InstallDelays : cp = InitialControlPlane(delay)
  BY DEF ClusterInit
<1>2. ControlPlaneInv(cp) /\ cp \in ControlPlaneStates
  BY <1>1, Timing, InitialControlPlaneIsGood DEF ControlPlaneInv, InvWith
<1>3. /\ round = 0 /\ turn = ControlTurn /\ packets = {}
      /\ nodes = [n \in Node |-> NewNode] /\ history = [n \in Node |-> <<>>]
      /\ mailbox = [n \in Node |-> <<>>] /\ lastUpdate = [n \in Node |-> <<>>]
  BY DEF ClusterInit
<1>4. /\ cp.config = InitialConfig /\ cp.pending = NoPending /\ cp.acks = {}
      /\ \A n \in Node : cp.states[n] = "ACTIVE" /\ cp.repair[n] = <<>>
  BY <1>1 DEF InitialControlPlane
<1> DEFINE stage == NoStage(InitialConfig)
<1>5. InitialConfig \in Configs /\ NoPending \in Pendings
  BY NoPendingType DEF InitialConfig, Configs
<1>6. stage \in Stages
  BY <1>5, NoStageType
<1>7. /\ stage.round = -1 /\ stage.row = {} /\ \A m \in Node : stage.rows[m] = {}
  BY DEF NoStage
<1>8. NewNode = [status |-> "RUNNING", state |-> "ACTIVE", config |-> InitialConfig,
                 sound |-> Node, pending |-> NoPending, current |-> stage,
                 previous |-> stage, digest |-> <<>>]
  BY Zenon DEF NewNode
<1> HIDE DEF stage
<1>9. NewNode \in NodeStates
  BY <1>5, <1>6, <1>8 DEF NodeStates, NodeStatuses, MembershipStates
<1>10. \A n \in Node :
         /\ nodes[n].status = "RUNNING" /\ nodes[n].state = "ACTIVE"
         /\ nodes[n].config = InitialConfig /\ nodes[n].sound = Node
         /\ nodes[n].pending = NoPending
         /\ nodes[n].current = stage /\ nodes[n].previous = stage
         /\ history[n] = <<>> /\ mailbox[n] = <<>> /\ lastUpdate[n] = <<>>
  BY <1>3, <1>8
<1>11. ClusterTypeOK
  <2>1. /\ nodes \in [Node -> NodeStates] /\ history \in [Node -> Seq(Entries)]
        /\ DOMAIN lastUpdate = Node /\ DOMAIN mailbox = Node
        /\ \A n \in Node : lastUpdate[n] \in Seq(Updates) /\ Len(lastUpdate[n]) <= 1
    BY <1>3, <1>9
  <2>2. /\ turn \in ControlTurn .. NetworkTurn /\ round \in 0 .. MaxRound
    BY <1>3, Turns, ClusterAssumption DEF ControlTurn
  <2> QED
    BY <1>2, <1>3, <1>10, <2>1, <2>2 DEF ClusterTypeOK
<1>12. BriefInv
  <2>1. \A n \in Node : Settled(n) /\ Live(n) /\ Going(n)
    BY <1>3, <1>4, <1>10 DEF Settled, Live, Going
  <2> QED
    BY <1>3, <1>4, <1>10, <2>1 DEF BriefInv, WellBriefed, NoPending
<1>13. StageInv
  BY <1>7, <1>10 DEF StageInv, InStep
<1>14. PacketInv
  BY <1>3, <1>7, <1>10 DEF PacketInv
<1>15. Range(<<>>) = {}
  BY DEF Range
<1>16. EntriesInv
  <2>1. AllEntries = {}
    BY <1>4, <1>10, <1>15 DEF AllEntries
  <2> QED
    BY <1>4, <1>15, <2>1 DEF EntriesInv
<1>17. EvidenceInv
  <2>1. PICK adv \in [Node -> SUBSET Node] : adv = [n \in Node |-> {}]
    OBVIOUS
  <2>2. Evidence(adv)
    BY <1>7, <1>10, <1>15 DEF Evidence
  <2> QED
    BY <2>2 DEF EvidenceInv
<1>18. LogInv
  <2>1. GoodLog(<<>>)
    BY DEF GoodLog, NoGaps, NobodyBack
  <2> QED
    BY <1>4, <1>10, <2>1 DEF LogInv, UpToDate
<1>19. AckInv
  BY <1>4 DEF AckInv
<1> QED
  BY <1>2, <1>11, <1>12, <1>13, <1>14, <1>16, <1>17, <1>18, <1>19 DEF IInv

(* Every step keeps the invariant. *)
LEMMA NextKeeps ==
  ASSUME IInv, [FaultyNext]_clusterVars
  PROVE  IInv'
<1>1. CASE round < MaxRound /\ ControlPlaneTurn
  BY <1>1, ControlKeeps
<1>2. ASSUME NEW n \in Node, NodeActs(n) PROVE IInv'
  BY <1>2, SitOutKeeps, FillKeeps, CommitStageKeeps, HaltKeeps DEF NodeActs
<1>3. ASSUME NEW n \in Node, CrashNode(n) PROVE IInv'
  BY <1>3, CrashKeeps
<1>4. ASSUME NEW lost, DeliverAllBut(lost) PROVE IInv'
  BY <1>4, NetworkKeeps
<1>5. CASE UNCHANGED clusterVars
  <2>1. /\ round' = round /\ turn' = turn /\ cp' = cp /\ nodes' = nodes
        /\ mailbox' = mailbox /\ lastUpdate' = lastUpdate /\ history' = history
        /\ packets' = packets
    BY <1>5 DEF clusterVars
  <2>2. ClusterTypeOK' /\ ControlPlaneInv(cp)' /\ AckInv'
    BY <2>1 DEF IInv, ClusterTypeOK, AckInv
  <2>3. \A n \in Node : /\ Live(n)' <=> Live(n)
                        /\ Going(n)' <=> Going(n)
                        /\ Turned(n)' <=> Turned(n)
                        /\ Settled(n)' <=> Settled(n)
                        /\ StageRound(n)' = StageRound(n)
                        /\ Told(n)' = Told(n)
    BY <2>1 DEF Live, Going, Turned, Settled, StageRound, Told
  <2>4. BriefInv' /\ StageInv' /\ LogInv'
    BY <2>1, <2>3 DEF IInv, BriefInv, WellBriefed, StageInv, InStep, LogInv, UpToDate
  <2>5. PacketInv'
    <3>1. \A p \in packets : p.src \in Node
      BY Types DEF IInv, OutboundPackets
    <3> QED
      BY <2>1, <2>3, <3>1 DEF IInv, PacketInv, Echoed
  <2>6. EntriesInv'
    BY <2>1 DEF IInv, EntriesInv, AllEntries
  <2>7. EvidenceInv'
    <3>1. PICK adv \in [Node -> SUBSET Node] : Evidence(adv)
      BY DEF IInv, EvidenceInv
    <3>2. Evidence(adv)'
      BY <2>1, <2>3, <3>1 DEF Evidence, Senders
    <3> QED
      BY <3>2 DEF EvidenceInv
  <2> QED
    BY <2>2, <2>4, <2>5, <2>6, <2>7 DEF IInv
<1> QED
  BY <1>1, <1>2, <1>3, <1>4, <1>5 DEF FaultyNext

(* What the nodes know of the control plane, what their stages and packets hold and what
   has been committed fit together in every reachable state, whatever crashes, is lost or is
   aborted: ClusterRun's loop never lets a node act on a config that is no longer the
   control plane's. *)
THEOREM Invariance == FaultySpec => []IInv
<1>1. ClusterInit => IInv
  BY InitIsGood
<1>2. IInv /\ [FaultyNext]_clusterVars => IInv'
  BY NextKeeps
<1> QED
  BY <1>1, <1>2, PTL DEF FaultySpec

(* What the invariant comes to. *)
LEMMA ClusterIsSafe ==
  ASSUME IInv
  PROVE  /\ NoConflictingCommits /\ GapsOnlyAtCutovers /\ NobodyComesBackWithinARun
         /\ NoStoppedNodeIsForgotten /\ CommittedConfigHasReachedItsMembers
<1>1. NoConflictingCommits
  <2>1. \A n \in Node : Range(history[n]) \subseteq AllEntries
    BY DEF AllEntries
  <2> QED
    BY <2>1 DEF IInv, EntriesInv, NoConflictingCommits
<1>2. GapsOnlyAtCutovers
  BY DEF IInv, LogInv, GoodLog, NoGaps, GapsOnlyAtCutovers
<1>3. NobodyComesBackWithinARun
  BY DEF IInv, LogInv, GoodLog, NobodyBack, NobodyComesBackWithinARun
<1>4. NoStoppedNodeIsForgotten
  <2> SUFFICES ASSUME turn = NetworkTurn, NEW n \in Node,
                      nodes[n].status # "RUNNING" \/ cp.states[n] = "FAILED"
               PROVE  n \in Tracked
    BY DEF NoStoppedNodeIsForgotten
  <2>1. Settled(n)
    BY Turns DEF Settled, Turned
  <2>2. cp.states[n] # "ACTIVE"
    BY <2>1 DEF IInv, BriefInv, WellBriefed, Live
  <2>3. cp.states[n] \in MembershipStates
    BY Types, FieldTypes DEF IInv
  <2> QED
    BY <2>2, <2>3 DEF IInv, ControlPlaneInv, InvWith, StatesInv, Tracked, MembershipStates
<1>5. CommittedConfigHasReachedItsMembers
  BY DEF IInv, ControlPlaneInv, InvWith, PendingInv, AckInv,
         CommittedConfigHasReachedItsMembers
<1> QED
  BY <1>1, <1>2, <1>3, <1>4, <1>5

-----------------------------------------------------------------------------
(* The first run of the cluster, up to the first cutover. *)

\* A log of the rounds from the first on.
Prefixed(log) == \A i \in 1 .. Len(log) : log[i].round = i - 1

\* Node n has committed every round that can be judged.
Filled(n) ==
  /\ nodes[n].current.round = StageRound(n)
  /\ nodes[n].previous.round = MaxOf(StageRound(n), 0) - 1
  /\ Len(history[n]) = MaxOf(StageRound(n) - 1, 0)

FirstRunInv ==
  cp.config = InitialConfig =>
    /\ \A n \in Node : Prefixed(history[n]) /\ Prefixed(cp.repair[n])
    /\ \A n \in Node : Going(n) => Filled(n)

(* In its turn a node extends its log by the next round, or has none to judge. *)
LEMMA TurnKeepsFirstRun ==
  ASSUME IInv, FirstRunInv, NEW n \in Node, turn = n,
         \/ Stops(n)
         \/ Opens(n) /\ KeepsLog(n) /\ Briefed(n).previous.round = -1
         \/ Opens(n) /\ \E e : ExtendsLog(n, e)
  PROVE  FirstRunInv'
<1> SUFFICES ASSUME cp'.config = InitialConfig
             PROVE  /\ \A m \in Node : Prefixed(history'[m]) /\ Prefixed(cp'.repair[m])
                    /\ \A m \in Node : Going(m)' => Filled(m)'
  BY DEF FirstRunInv
<1>1. TakesTurn(n) /\ cp'.config = cp.config /\ cp'.repair = cp.repair /\ round' = round
  BY DEF Stops, Opens, TakesTurn
<1>2. /\ \A m \in Node : Prefixed(history[m]) /\ Prefixed(cp.repair[m])
      /\ \A m \in Node : Going(m) => Filled(m)
  BY <1>1 DEF FirstRunInv
<1>3. ASSUME NEW m \in Node, m # n
      PROVE  Prefixed(history'[m]) /\ (Going(m)' => Filled(m)')
  <2>1. /\ Going(m)' <=> Going(m)
        /\ nodes'[m] = nodes[m] /\ history'[m] = history[m]
        /\ StageRound(m)' = StageRound(m)
    BY <1>1, <1>3, OthersKeep DEF TakesTurn, StageRound
  <2> QED
    BY <1>2, <2>1 DEF Filled
<1>4. /\ ~Turned(n) /\ StageRound(n) = round - 1 /\ StageRound(n)' = round
      /\ round \in Nat
  BY <1>1, Turns, Types, ClusterAssumption DEF IInv, Turned, StageRound, TakesTurn
<1>5. Stops(n) => history'[n] = history[n] /\ ~Going(n)'
  BY DEF Stops
<1>6. ASSUME Opens(n)
      PROVE  /\ nodes'[n].current.round = round /\ nodes'[n].previous.round = round - 1
             /\ Briefed(n).previous.round = MaxOf(round - 1, 0) - 1
             /\ Len(history[n]) = MaxOf(round - 2, 0)
  <2>1. cp.states[n] = "ACTIVE"
    BY <1>6 DEF Opens
  <2>2. nodes[n].config = cp.config
    <3>1. nodes[n].config = cp.config \/ nodes[n].config.run < cp.config.run
      BY DEF IInv, BriefInv, WellBriefed
    <3>2. nodes[n].config.run \in Nat
      BY Types, NodeTypes DEF IInv, Configs
    <3>3. cp.config.run = 0
      BY <1>1 DEF InitialConfig
    <3> QED
      BY <3>1, <3>2, <3>3
  <2>3. /\ Going(n) /\ Briefed(n).current = nodes[n].current
        /\ Briefed(n).previous = nodes[n].previous
    BY <2>1, <2>2, BriefedIs
  <2>4. /\ nodes[n].current.round = round - 1
        /\ nodes[n].previous.round = MaxOf(round - 1, 0) - 1
        /\ Len(history[n]) = MaxOf(round - 1 - 1, 0)
    BY <1>2, <1>4, <2>3 DEF Filled
  <2>5. round - 1 - 1 = round - 2
    BY <1>4
  <2> QED
    BY <1>6, <2>3, <2>4, <2>5 DEF Opens
<1>7. CASE Stops(n)
  BY <1>1, <1>2, <1>3, <1>5, <1>7
<1>8. CASE Opens(n) /\ KeepsLog(n) /\ Briefed(n).previous.round = -1
  <2>1. history'[n] = history[n]
    BY <1>8 DEF KeepsLog
  <2>2. Filled(n)'
    <3>1. MaxOf(round - 1, 0) - 1 = -1
      BY <1>6, <1>8
    <3>2. round \in {0, 1}
      BY <1>4, <3>1 DEF MaxOf
    <3>3. /\ MaxOf(round, 0) = round /\ MaxOf(round - 2, 0) = MaxOf(round - 1, 0)
      BY <3>2 DEF MaxOf
    <3> QED
      BY <1>4, <1>6, <1>8, <2>1, <3>3 DEF Filled
  <2> QED
    BY <1>1, <1>2, <1>3, <2>1, <2>2
<1>9. CASE Opens(n) /\ \E e : ExtendsLog(n, e)
  <2>1. PICK e : ExtendsLog(n, e)
    BY <1>9
  <2>2. history[n] \in Seq(Entries)
    BY Types DEF IInv
  <2>3. /\ history'[n] = Append(history[n], e) /\ e \in Entries /\ e.round = round - 2
        /\ e.round \in Nat
    BY <2>1, EntryTypes DEF ExtendsLog
  <2>4. PICK log : log = history'[n]
    OBVIOUS
  <2>5. /\ Len(history[n]) \in Nat /\ Len(log) = Len(history[n]) + 1
        /\ \A i \in 1 .. Len(history[n]) : log[i] = history[n][i]
        /\ log[Len(log)] = e
    BY <2>2, <2>3, <2>4, AppendedIs
  <2>6. Len(history[n]) = round - 2 /\ Len(log) = round - 1
    BY <1>4, <1>6, <1>9, <2>3, <2>5 DEF MaxOf
  <2>7. Prefixed(log)
    <3> SUFFICES ASSUME NEW i \in 1 .. Len(log) PROVE log[i].round = i - 1
      BY DEF Prefixed
    <3>1. i \in 1 .. Len(history[n]) \/ i = Len(log)
      BY <2>5
    <3>2. \A k \in 1 .. Len(history[n]) : history[n][k].round = k - 1
      BY <1>2 DEF Prefixed
    <3>3. e.round = Len(log) - 1
      BY <1>4, <2>3, <2>6
    <3> QED
      BY <2>5, <3>1, <3>2, <3>3
  <2>8. MaxOf(round, 0) = round /\ MaxOf(round - 1, 0) = round - 1
    BY <1>4, <2>3 DEF MaxOf
  <2>9. Filled(n)'
    BY <1>4, <1>6, <1>9, <2>4, <2>6, <2>8 DEF Filled
  <2> QED
    BY <1>1, <1>2, <1>3, <2>4, <2>7, <2>9
<1> QED
  BY <1>7, <1>8, <1>9

(* Every step does, for nobody is brought back before the first cutover. *)
LEMMA NextKeepsFirstRun ==
  ASSUME IInv, FirstRunInv, [FaultyNext]_clusterVars
  PROVE  FirstRunInv'
<1>1. CASE round < MaxRound /\ ControlPlaneTurn
  <2> SUFFICES ASSUME cp'.config = InitialConfig
               PROVE  /\ \A n \in Node : Prefixed(history'[n]) /\ Prefixed(cp'.repair[n])
                      /\ \A n \in Node : Going(n)' => Filled(n)'
    BY DEF FirstRunInv
  <2>1. /\ turn = ControlTurn /\ turn' = 0 /\ round' = round /\ nodes' = nodes
        /\ StaysInRun(cp, cp') \/ SwitchesRun(cp, cp')
        /\ \A n \in Node : Controls(n)
    BY <1>1, ControlIs
  <2>2. cp.config = InitialConfig
    <3>1. CASE SwitchesRun(cp, cp')
      <4>1. cp.config.run \in Nat /\ cp'.config.run = 0 /\ cp'.config.run = cp.config.run + 1
        BY <3>1, Types, FieldTypes DEF IInv, Configs, InitialConfig, SwitchesRun
      <4> QED
        BY <4>1
    <3> QED
      BY <2>1, <3>1 DEF StaysInRun
  <2>3. /\ \A n \in Node : Prefixed(history[n]) /\ Prefixed(cp.repair[n])
        /\ \A n \in Node : Going(n) => Filled(n)
    BY <2>2 DEF FirstRunInv
  <2>4. Prefixed(<<>>)
    BY DEF Prefixed
  <2>5. \A n \in Node : Prefixed(cp'.repair[n])
    BY <2>1, <2>3, <2>4 DEF Controls
  <2>6. \A n \in Node : Prefixed(history'[n])
    BY <2>1, <2>3, <2>5 DEF Controls
  <2>7. \A n \in Node : Going(n)' => Going(n) /\ history'[n] = history[n]
    BY <1>1, ControlKeepsBrief
  <2>8. \A n \in Node : StageRound(n)' = StageRound(n)
    BY <2>1, Turns DEF StageRound, Turned, ControlTurn
  <2> QED
    BY <2>1, <2>3, <2>5, <2>6, <2>7, <2>8 DEF Filled
<1>2. ASSUME NEW n \in Node, NodeActs(n) PROVE FirstRunInv'
  <2>1. turn = n
    BY <1>2 DEF NodeActs, SitOut, FillPipeline, CommitStage, HaltStage, NodeTurn
  <2> QED
    BY <1>2, <2>1, SitOutKeeps, FillKeeps, CommitStageKeeps, HaltKeeps, TurnKeepsFirstRun
    DEF NodeActs
<1>3. ASSUME NEW n \in Node, CrashNode(n) PROVE FirstRunInv'
  BY <1>3, CrashKeeps, TurnKeepsFirstRun DEF CrashNode
<1>4. ASSUME NEW lost, DeliverAllBut(lost) PROVE FirstRunInv'
  <2>1. /\ turn = NetworkTurn /\ turn' = ControlTurn /\ round' = round + 1
        /\ cp' = cp /\ history' = history
        /\ \A n \in Node : \E heard : Receives(n, heard)
    BY <1>4, NetworkIs
  <2>2. ASSUME NEW n \in Node, Going(n)', Going(n) => Filled(n)
        PROVE  Filled(n)'
    <3>1. Going(n) /\ Turned(n) /\ ~Turned(n)'
      BY <1>4, <2>2, NetworkKeepsNodes
    <3>2. StageRound(n)' = StageRound(n)
      BY <2>1, <3>1, Types, ClusterAssumption DEF IInv, StageRound
    <3>3. /\ nodes'[n].current.round = nodes[n].current.round
          /\ nodes'[n].previous.round = nodes[n].previous.round
      BY <2>1 DEF Receives
    <3> QED
      BY <2>1, <2>2, <3>1, <3>2, <3>3 DEF Filled
  <2> QED
    BY <2>1, <2>2 DEF FirstRunInv
<1>5. CASE UNCHANGED clusterVars
  BY <1>5 DEF clusterVars, FirstRunInv, Going, Live, Filled, StageRound, Turned
<1> QED
  BY <1>1, <1>2, <1>3, <1>4, <1>5 DEF FaultyNext

(* The cluster starts without an entry or a stage. *)
LEMMA InitIsFirst == ClusterInit => FirstRunInv
<1> SUFFICES ASSUME ClusterInit PROVE FirstRunInv
  OBVIOUS
<1>1. /\ round = 0 /\ turn = ControlTurn
      /\ \A n \in Node : nodes[n] = NewNode /\ history[n] = <<>>
      /\ \A n \in Node : cp.repair[n] = <<>>
  BY DEF ClusterInit, InitialControlPlane
<1>2. NewNode.current.round = -1 /\ NewNode.previous.round = -1
  BY DEF NewNode, NoStage
<1>3. \A n \in Node : StageRound(n) = -1
  BY <1>1, Turns DEF StageRound, Turned, ControlTurn
<1>4. MaxOf(-1, 0) = 0 /\ MaxOf(-1 - 1, 0) = 0 /\ Len(<<>>) = 0
  BY DEF MaxOf
<1> QED
  BY <1>1, <1>2, <1>3, <1>4 DEF FirstRunInv, Prefixed, Filled

(* Logs of the rounds from the first on that agree are what the campaign looks for. *)
LEMMA FirstRunIsClean ==
  ASSUME IInv, FirstRunInv, cp.config = InitialConfig
  PROVE  SafetyViolations = {}
<1>1. ASSUME NEW n \in Node PROVE ~NonPrefix(n)
  <2>1. history[n] \in Seq(Entries) /\ Prefixed(history[n])
    BY Types DEF IInv, FirstRunInv
  <2>2. PICK log \in Seq(Entries) : log = history[n]
    BY <2>1
  <2> DEFINE rounds == [i \in 1 .. Len(log) |-> log[i].round]
  <2>3. rounds = [i \in 1 .. Len(log) |-> i - 1]
    BY <2>1, <2>2 DEF Prefixed
  <2>4. Len(log) \in Nat /\ DOMAIN log = 1 .. Len(log)
    BY LenProperties
  <2>5. rounds \in Seq(Int) /\ Len(rounds) = Len(log)
    <3> DEFINE N == Len(log)
    <3>1. [i \in 1 .. N |-> i - 1] \in Seq(Int) /\ Len([i \in 1 .. N |-> i - 1]) = N
      <4> HIDE DEF N
      <4>1. N \in Nat
        BY <2>4 DEF N
      <4> QED
        BY <4>1
    <3> QED
      BY <2>3, <3>1
  <2>6. Len(log) - 1 + 1 = Len(log)
    BY <2>4
  <2>7. Upto(Len(rounds) - 1) = [i \in 1 .. Len(log) |-> i - 1]
    BY <2>5, <2>6 DEF Upto
  <2>8. [i \in DOMAIN history[n] |-> history[n][i].round] = rounds
    BY <2>2, <2>4
  <2> QED
    BY <2>3, <2>7, <2>8 DEF NonPrefix, Contiguous
<1>2. Conflicts = {}
  BY ClusterIsSafe DEF Conflicts, NoConflictingCommits, CommittedValue
<1> QED
  BY <1>1, <1>2 DEF SafetyViolations

(* Up to the first cutover safety_violations() of random_campaign.py finds nothing, however
   many nodes there are and whatever crashes and is lost. *)
THEOREM NothingIsFoundBeforeACutover ==
  FaultySpec => [](cp.config = InitialConfig => SafetyViolations = {})
<1>1. ClusterInit => IInv /\ FirstRunInv
  BY InitIsGood, InitIsFirst
<1>2. IInv /\ FirstRunInv /\ [FaultyNext]_clusterVars => IInv' /\ FirstRunInv'
  BY NextKeeps, NextKeepsFirstRun
<1>3. IInv /\ FirstRunInv => (cp.config = InitialConfig => SafetyViolations = {})
  BY FirstRunIsClean
<1> QED
  BY <1>1, <1>2, <1>3, PTL DEF FaultySpec

-----------------------------------------------------------------------------
(* The node's account of its log, and the cluster's. *)

\* A repair is in the cluster's log when it is pushed and in the node's when it is pulled,
\* which it is in the same round.
DigestInv ==
  \A n \in Node :
    /\ Settled(n) => mailbox[n] = <<>>
    /\ history[n] = IF mailbox[n] = <<>> \/ Told(n).repair = <<>>
                    THEN nodes[n].digest ELSE Told(n).repair

(* Whatever is in its mailbox, a node that has pulled it accounts for the log the cluster
   keeps for it. *)
LEMMA BriefedDigest ==
  ASSUME ClusterTypeOK, DigestInv, NEW n \in Node
  PROVE  Briefed(n).digest = history[n]
<1> DEFINE old == Switched(nodes[n])
<1>1. nodes[n] \in NodeStates /\ mailbox[n] \in {<<>>, lastUpdate[n]}
      /\ (lastUpdate[n] # <<>> => Told(n) \in Updates /\ lastUpdate[n] = <<Told(n)>>)
  BY Types
<1>2. old \in NodeStates /\ old.digest = nodes[n].digest
  BY <1>1, SwitchedIs
<1> HIDE DEF old
<1>3. CASE mailbox[n] = <<>>
  BY <1>2, <1>3 DEF Briefed, DigestInv, old
<1>4. CASE mailbox[n] # <<>>
  <2>1. mailbox[n] = <<Told(n)>> /\ Told(n) \in Updates
    BY <1>1, <1>4
  <2>2. Briefed(n) = Updated(old, Told(n))
    BY <2>1 DEF Briefed, old
  <2>3. Briefed(n).digest = IF Told(n).repair = <<>> THEN old.digest ELSE Told(n).repair
    BY <1>2, <2>1, <2>2, UpdatedIs
  <2> QED
    BY <1>2, <1>4, <2>3 DEF DigestInv
<1> QED
  BY <1>3, <1>4

(* A node that takes its turn pulls its mailbox, and commits to both. *)
LEMMA TurnKeepsDigest ==
  ASSUME IInv, DigestInv, NEW n \in Node, TakesTurn(n),
         KeepsLog(n) \/ \E e : ExtendsLog(n, e)
  PROVE  DigestInv'
<1>1. Briefed(n).digest = history[n]
  BY BriefedDigest DEF IInv
<1>2. mailbox'[n] = <<>> /\ history'[n] = nodes'[n].digest
  BY <1>1 DEF KeepsLog, ExtendsLog
<1>3. ASSUME NEW m \in Node, m # n
      PROVE  /\ Settled(m)' => mailbox'[m] = <<>>
             /\ history'[m] = IF mailbox'[m] = <<>> \/ Told(m)'.repair = <<>>
                              THEN nodes'[m].digest ELSE Told(m)'.repair
  <2>1. /\ nodes'[m] = nodes[m] /\ history'[m] = history[m] /\ mailbox'[m] = mailbox[m]
        /\ Told(m)' = Told(m)
    BY <1>3 DEF TakesTurn, Told
  <2>2. Settled(m)' => Settled(m)
    BY <1>3, Turns DEF TakesTurn, Settled, Turned, ControlTurn
  <2> QED
    BY <2>1, <2>2 DEF DigestInv
<1> QED
  BY <1>2, <1>3 DEF DigestInv

(* The control plane puts a repair into the cluster's log when it pushes it. *)
LEMMA ControlKeepsDigest ==
  ASSUME IInv, DigestInv, ControlPlaneTurn, round < MaxRound
  PROVE  DigestInv'
<1>1. turn = ControlTurn /\ turn' = 0 /\ nodes' = nodes /\ \A n \in Node : Controls(n)
  BY ControlIs
<1>2. ASSUME NEW n \in Node
      PROVE  /\ Settled(n)' => mailbox'[n] = <<>>
             /\ history'[n] = IF mailbox'[n] = <<>> \/ Told(n)'.repair = <<>>
                              THEN nodes'[n].digest ELSE Told(n)'.repair
  <2>1. mailbox[n] = <<>> /\ history[n] = nodes[n].digest
    BY <1>1 DEF DigestInv, Settled
  <2>2. ~Settled(n)'
    BY <1>1, Turns DEF Settled, Turned, ControlTurn
  <2>3. Told(n)' = UpdateFor(cp', n) /\ Told(n)'.repair = cp'.repair[n]
    BY <1>1 DEF Controls, Told, UpdateFor
  <2>4. CASE lastUpdate[n] # <<UpdateFor(cp', n)>>
    BY <1>1, <2>1, <2>2, <2>3, <2>4 DEF Controls
  <2>5. CASE lastUpdate[n] = <<UpdateFor(cp', n)>>
    BY <1>1, <2>1, <2>2, <2>3, <2>5 DEF Controls
  <2> QED
    BY <2>4, <2>5
<1> QED
  BY <1>2 DEF DigestInv

\* A step of the cluster in which no node crashes.
StaysUp ==
  \/ round < MaxRound /\ ControlPlaneTurn
  \/ \E n \in Node : NodeActs(n)
  \/ \E lost \in SUBSET (Node \X packets) : DeliverAllBut(lost)
  \/ UNCHANGED clusterVars

(* Only a crash parts the two. *)
LEMMA NextKeepsDigest ==
  ASSUME IInv, DigestInv, StaysUp
  PROVE  DigestInv'
<1>1. CASE round < MaxRound /\ ControlPlaneTurn
  BY <1>1, ControlKeepsDigest
<1>2. ASSUME NEW n \in Node, NodeActs(n)
      PROVE  DigestInv'
  <2>1. TakesTurn(n) /\ (KeepsLog(n) \/ \E e : ExtendsLog(n, e))
    BY <1>2, SitOutKeeps, FillKeeps, CommitStageKeeps, HaltKeeps
    DEF NodeActs, Stops, Opens
  <2> QED
    BY <2>1, TurnKeepsDigest
<1>3. ASSUME NEW lost, DeliverAllBut(lost)
      PROVE  DigestInv'
  <2>1. /\ turn = NetworkTurn /\ mailbox' = mailbox /\ history' = history
        /\ \A n \in Node : nodes'[n].digest = nodes[n].digest
        /\ \A n \in Node : Told(n)' = Told(n)
    BY <1>3, NetworkIs DEF Receives, Told
  <2>2. \A n \in Node : Settled(n)
    BY <2>1, Turns DEF Settled, Turned
  <2> QED
    BY <2>1, <2>2 DEF DigestInv
<1>4. CASE UNCHANGED clusterVars
  BY <1>4 DEF clusterVars, DigestInv, Settled, Turned, Told
<1> QED
  BY <1>1, <1>2, <1>3, <1>4 DEF StaysUp

(* At first there is no log. *)
LEMMA InitDigest == ClusterInit => DigestInv
  BY DEF ClusterInit, DigestInv, NewNode

-----------------------------------------------------------------------------
(* The first run with one fault. *)

\* What a row of round r can be if node v alone may be missing in it.
Rows(v, r) == IF r < 0 THEN {{}} ELSE {Node, Node \ {v}}

\* Before its turn: C and P are the rows of the last two rounds, R is what v has sent, and
\* W is the sound set.
Waits(n, v, C, P, R, W) ==
  LET node == nodes[n]
  IN  /\ node.sound = W /\ node.current.row = C /\ node.previous.row = P
      /\ \A m \in Node : node.previous.rows[m] = IF m = v THEN R ELSE P

\* Once P has been judged, and v left out if it did not agree.
Judged(v, P, R) == IF round < 2 \/ R = P THEN Node ELSE Node \ {v}

Opened(n, v, C, P, R) ==
  LET node == nodes[n]
  IN  /\ node.sound = Judged(v, P, R) /\ node.current.row = {n} /\ node.previous.row = C
      /\ \A m \in Node : node.previous.rows[m] = IF m = n THEN C ELSE {}
      /\ \E p \in packets : p.src = n /\ p.row = C

AlikeAt(n, v, C, P, R, W) ==
  /\ Going(n)
  /\ nodes[n].current.members = Node /\ nodes[n].previous.members = Node
  /\ IF Turned(n) THEN Opened(n, v, C, P, R) ELSE Waits(n, v, C, P, R, W)

\* All nodes but v have heard the same.
Alike(v, C, P, R, W) ==
  /\ C \in Rows(v, round - 1) /\ P \in Rows(v, round - 2)
  /\ R = {} \/ v \in R
  /\ W \in {Node, Node \ {v}}
  /\ W # Node => round >= 2 /\ R = {}
  /\ \A n \in Node : n # v => AlikeAt(n, v, C, P, R, W)

\* Packets go to everybody, and v says nothing that could not be.
Sane(v) ==
  /\ \A p \in packets : p.run = cp.config.run /\ p.destinations = Node \ {p.src}
  /\ \A p \in packets : p.src = v => p.row = {} \/ v \in p.row
  /\ \A n \in Node : (n = v /\ Going(n)) =>
       n \in nodes[n].current.row \/ (~Turned(n) /\ nodes[n].current.row = {})

\* Node v is the only one to which something may have happened.
Uniform(v) == Sane(v) /\ \E C, P, R, W \in SUBSET Node : Alike(v, C, P, R, W)

FirstRun == IInv /\ FirstRunInv /\ cp.config = InitialConfig

\* A stage in which everyone but v has sent the row P, and v R.
Heard(v, P, R, rows, proposals, sound) ==
  /\ P \in {Node, Node \ {v}} /\ (R = {} \/ v \in R)
  /\ \A m \in Node : rows[m] = IF m = v THEN R ELSE P
  /\ \A m \in P : proposals[m] # NoProposal
  /\ sound \in {Node, Node \ {v}} /\ (sound # Node => R = {})

(* Of three nodes or more, those that have heard the same are a majority without v: they
   commit the round, and keep v if it agrees. *)
LEMMA VerdictIs ==
  ASSUME Cardinality(Node) >= 3, NEW n \in Node, NEW v, n # v, NEW P, NEW R, NEW rows,
         NEW proposals, NEW sound, Heard(v, P, R, rows, proposals, sound)
  PROVE  /\ Verdict(n, Node, rows, proposals, sound) = "commit"
         /\ SoundSet(n, Node, rows) = IF R = P THEN Node ELSE Node \ {v}
<1> USE DEF Heard
<1>1. rows[n] = P /\ P # {} /\ n \in P
  OBVIOUS
<1>2. Witnesses(n, Node, rows) = IF R = P THEN Node ELSE Node \ {v}
  BY <1>1 DEF Witnesses
<1>3. Cardinality(Witnesses(n, Node, rows)) >= Quorum
  <2>1. IsFiniteSet(Node) /\ Cardinality(Node) \in Nat
    BY NodeAssumption, FS_CardinalityType
  <2>2. Cardinality(Node \ {v}) \in {Cardinality(Node), Cardinality(Node) - 1}
    <3>1. CASE v \in Node
      BY <2>1, <3>1, FS_RemoveElement
    <3>2. CASE v \notin Node
      <4>1. Node \ {v} = Node
        BY <3>2
      <4> QED
        BY <4>1
    <3> QED
      BY <3>1, <3>2
  <2>3. Cardinality(Witnesses(n, Node, rows)) \in {Cardinality(Node), Cardinality(Node) - 1}
    BY <1>2, <2>2
  <2> QED
    BY <2>1, <2>3 DEF Quorum
<1>4. \A m \in Node : RowIsValid(m, rows[m])
  BY DEF RowIsValid
<1>5. HasAgreedRow(n, Node, rows)
  BY <1>1, <1>3, <1>4 DEF HasAgreedRow
<1>6. SoundSet(n, Node, rows) = IF R = P THEN Node ELSE Node \ {v}
  BY <1>2 DEF SoundSet
<1>7. n \in SoundSet(n, Node, rows) /\ SoundSet(n, Node, rows) \subseteq sound
  BY <1>1, <1>6
<1>8. CommitSetIsValid(n, rows, proposals)
  BY <1>1 DEF CommitSetIsValid, AgreedRow
<1> QED
  BY <1>5, <1>6, <1>7, <1>8 DEF Verdict

(* In its turn such a node neither sits out nor halts. *)
LEMMA TurnIsOpened ==
  ASSUME Cardinality(Node) >= 3, FirstRun, NEW v, NEW C, NEW P, NEW R, NEW W,
         Alike(v, C, P, R, W), NEW n \in Node, n # v, NodeActs(n),
         NEW node, node = Briefed(n)
  PROVE  /\ packets' = packets \cup {PacketOf(node, n)}
         /\ node.config = InitialConfig /\ node.current.row = C
         /\ Live(n)'
         /\ nodes'[n].current.members = Node /\ nodes'[n].previous.members = Node
         /\ nodes'[n].sound = Judged(v, P, R)
         /\ nodes'[n].current.row = {n} /\ nodes'[n].previous.row = C
         /\ \A m \in Node : nodes'[n].previous.rows[m] = IF m = n THEN C ELSE {}
<1>1. IInv /\ cp.config = InitialConfig /\ round \in 0 .. MaxRound /\ round \in Nat
  BY Types, ClusterAssumption DEF FirstRun, IInv
<1>2. NodeTurn(n) /\ turn = n /\ ~Turned(n)
  BY Turns DEF NodeActs, SitOut, FillPipeline, CommitStage, HaltStage, NodeTurn, Turned
<1>3. /\ Going(n) /\ nodes[n].current.members = Node /\ nodes[n].previous.members = Node
      /\ Waits(n, v, C, P, R, W)
      /\ C \in Rows(v, round - 1) /\ P \in Rows(v, round - 2) /\ (R = {} \/ v \in R)
      /\ W \in {Node, Node \ {v}} /\ (W # Node => round >= 2 /\ R = {})
  BY <1>2 DEF Alike, AlikeAt
<1>4. /\ node \in NodeStates /\ node.config = InitialConfig /\ node.state = "ACTIVE"
      /\ node.status = "RUNNING" /\ n \in node.sound
      /\ node.current = nodes[n].current /\ node.previous = nodes[n].previous
      /\ node.sound \in {W, Node}
  <2>1. cp.states[n] = "ACTIVE" /\ nodes[n].config = cp.config /\ nodes[n].sound = W
    BY <1>3 DEF Going, Waits
  <2>2. InitialConfig.members = Node
    BY DEF InitialConfig
  <2> QED
    BY <1>1, <1>2, <2>1, <2>2, BriefedIs
<1>5. Participates(node, n)
  BY <1>4 DEF Participates
<1>6. node.previous.round = MaxOf(round - 1, 0) - 1
  BY <1>1, <1>2, <1>3, <1>4 DEF FirstRun, FirstRunInv, Filled, StageRound
<1>7. /\ node.current.row = C /\ node.previous.row = P
      /\ \A m \in Node : node.previous.rows[m] = IF m = v THEN R ELSE P
      /\ node.current.members = Node /\ node.previous.members = Node
  BY <1>3, <1>4 DEF Waits
<1>8. \A m \in Node : node.current.rows[m] = {}
  BY <1>1, <1>3, <1>4 DEF IInv, StageInv, InStep
<1>9. PICK shifted : shifted = Shifted(node, n)
  OBVIOUS
<1>10. /\ shifted \in NodeStates
      /\ shifted.status = "RUNNING" /\ shifted.state = "ACTIVE"
      /\ shifted.sound = node.sound
      /\ shifted.current.row = {n} /\ shifted.current.members = Node
      /\ shifted.previous.row = C /\ shifted.previous.members = Node
      /\ \A m \in Node : shifted.previous.rows[m] = IF m = n THEN C ELSE {}
  <2>1. node.config.members = Node
    BY <1>4 DEF InitialConfig
  <2> QED
    <3>1. /\ shifted \in NodeStates
          /\ shifted.status = node.status /\ shifted.state = node.state
          /\ shifted.sound = node.sound
          /\ shifted.current.row = {n} /\ shifted.current.members = node.config.members
          /\ shifted.previous.members = node.current.members
          /\ shifted.previous.row = node.current.row
          /\ \A m \in Node : shifted.previous.rows[m] =
               IF m = n THEN node.current.row ELSE node.current.rows[m]
      <4>1. node \in NodeStates /\ round \in 0 .. MaxRound
        BY <1>1, <1>4
      <4> QED
        BY <1>9, <4>1, ShiftedIs
    <3> QED
      BY <1>4, <1>7, <1>8, <2>1, <3>1
<1>11. CASE round < 2
  <2>1. StageVerdict(node, n) = "skip"
    BY <1>1, <1>6, <1>11 DEF StageVerdict, MaxOf
  <2>2. FillPipeline(n)
    BY <1>5, <2>1 DEF NodeActs, SitOut, CommitStage, HaltStage
  <2>3. nodes' = [nodes EXCEPT ![n] = shifted] /\ packets' = packets \cup {PacketOf(node, n)}
    BY <1>9, <2>2, Zenon DEF FillPipeline
  <2>4. nodes'[n] = shifted
    BY <1>1, <2>3 DEF IInv, ClusterTypeOK
  <2>5. node.sound = Judged(v, P, R)
    <3>1. ~(round >= 2)
      BY <1>1, <1>11
    <3> QED
      BY <1>3, <1>4, <1>11, <3>1 DEF Judged
  <2> QED
    BY <1>4, <1>7, <1>10, <2>3, <2>4, <2>5 DEF Live
<1>12. CASE ~(round < 2)
  <2>1. node.previous.round = round - 2
    BY <1>1, <1>6, <1>12 DEF MaxOf
  <2> DEFINE proposals == ProposalsOf(node.previous)
  <2>2. P \in {Node, Node \ {v}}
    BY <1>1, <1>3, <1>12 DEF Rows
  <2>3. \A m \in P : proposals[m] # NoProposal
    BY <1>1, <1>7, <1>12, <2>1, <2>2 DEF ProposalsOf, NoProposal
  <2> HIDE DEF proposals
  <2>4. /\ Verdict(n, Node, node.previous.rows, proposals, node.sound) = "commit"
        /\ SoundSet(n, Node, node.previous.rows) = IF R = P THEN Node ELSE Node \ {v}
    <3>1. PICK rows, sound : rows = node.previous.rows /\ sound = node.sound
      OBVIOUS
    <3>2. sound \in {Node, Node \ {v}}
      BY <1>3, <1>4, <3>1
    <3>3. sound # Node => R = {}
      BY <1>3, <1>4, <3>1
    <3>4. \A m \in Node : rows[m] = IF m = v THEN R ELSE P
      BY <1>7, <3>1
    <3>5. R = {} \/ v \in R
      BY <1>3
    <3>6. /\ Verdict(n, Node, rows, proposals, sound) = "commit"
          /\ SoundSet(n, Node, rows) = IF R = P THEN Node ELSE Node \ {v}
      <4>1. Heard(v, P, R, rows, proposals, sound)
        BY <2>2, <2>3, <3>2, <3>3, <3>4, <3>5 DEF Heard
      <4> QED
        BY <4>1, VerdictIs
    <3> QED
      BY <3>1, <3>6
  <2>5. StageVerdict(node, n) = "commit"
    BY <1>1, <1>7, <1>12, <2>1, <2>4 DEF StageVerdict, proposals
  <2>6. CommitStage(n)
    BY <1>5, <2>5 DEF NodeActs, SitOut, FillPipeline, HaltStage
  <2>7. PICK entry : /\ nodes' = [nodes EXCEPT ![n] =
                          [shifted EXCEPT
                             !.sound = SoundSet(n, node.previous.members, node.previous.rows),
                             !.digest = Extended(@, entry)]]
                     /\ packets' = packets \cup {PacketOf(node, n)}
    BY <1>9, <2>6, Zenon DEF CommitStage
  <2>8. nodes'[n] = [shifted EXCEPT
                       !.sound = SoundSet(n, node.previous.members, node.previous.rows),
                       !.digest = Extended(@, entry)]
    BY <1>1, <2>7, Zenon DEF IInv, ClusterTypeOK
  <2>9. /\ nodes'[n].sound = SoundSet(n, Node, node.previous.rows)
        /\ nodes'[n].current = shifted.current /\ nodes'[n].previous = shifted.previous
        /\ nodes'[n].status = shifted.status /\ nodes'[n].state = shifted.state
    BY <1>7, <1>10, <2>8 DEF NodeStates
  <2>10. nodes'[n].sound = Judged(v, P, R)
    BY <1>12, <2>4, <2>9 DEF Judged
  <2> QED
    BY <1>4, <1>7, <1>10, <2>7, <2>9, <2>10 DEF Live
<1> QED
  BY <1>11, <1>12

(* Whatever v does in its turn, and be it a crash, the others hear the same. *)
LEMMA TurnKeepsUniform ==
  ASSUME Cardinality(Node) >= 3, FirstRun, NEW v, Uniform(v),
         NEW n \in Node, NodeActs(n) \/ (n = v /\ CrashNode(n))
  PROVE  Uniform(v)'
<1> DEFINE node == Briefed(n)
<1>1. /\ IInv /\ IInv' /\ TakesTurn(n) /\ (Stops(n) \/ Opens(n))
  BY SitOutKeeps, FillKeeps, CommitStageKeeps, HaltKeeps, CrashKeeps
  DEF FirstRun, NodeActs, Stops, Opens
<1>2. /\ turn = n /\ turn' = n + 1 /\ round' = round /\ cp'.config = cp.config
      /\ turn' # ControlTurn
      /\ \A m \in Node : m # n => nodes'[m] = nodes[m]
      /\ cp.config = InitialConfig /\ InitialConfig.members = Node
  BY <1>1, Turns DEF TakesTurn, FirstRun, InitialConfig, ControlTurn
<1>3. ~Turned(n) /\ Turned(n)' /\ Settled(n)'
  BY <1>2, Turns DEF Turned, Settled
<1>4. packets \subseteq packets'
  BY DEF NodeActs, SitOut, FillPipeline, CommitStage, HaltStage, CrashNode
<1>5. Sane(v) /\ \E C, P, R, W \in SUBSET Node : Alike(v, C, P, R, W)
  BY DEF Uniform
<1>6. PICK C, P, R, W \in SUBSET Node : Alike(v, C, P, R, W)
  BY <1>5
<1>7. ASSUME NEW m \in Node, m # v, m # n
      PROVE  AlikeAt(m, v, C, P, R, W)'
  <2>1. AlikeAt(m, v, C, P, R, W)
    BY <1>6, <1>7 DEF Alike
  <2>2. /\ Going(m)' <=> Going(m)
        /\ Turned(m)' <=> Turned(m)
        /\ nodes'[m] = nodes[m]
    BY <1>1, <1>2, <1>7, OthersKeep
  <2>3. Opened(m, v, C, P, R) => Opened(m, v, C, P, R)'
    BY <1>2, <1>4, <2>2 DEF Opened, Judged
  <2>4. Waits(m, v, C, P, R, W) => Waits(m, v, C, P, R, W)'
    BY <2>2 DEF Waits
  <2> QED
    BY <2>1, <2>2, <2>3, <2>4 DEF AlikeAt
<1>8. ASSUME n # v
      PROVE  AlikeAt(n, v, C, P, R, W)'
  <2>1. NodeActs(n)
    BY <1>8
  <2>2. /\ packets' = packets \cup {PacketOf(node, n)} /\ node.current.row = C
        /\ Live(n)'
        /\ nodes'[n].current.members = Node /\ nodes'[n].previous.members = Node
        /\ nodes'[n].sound = Judged(v, P, R)
        /\ nodes'[n].current.row = {n} /\ nodes'[n].previous.row = C
        /\ \A m \in Node : nodes'[n].previous.rows[m] = IF m = n THEN C ELSE {}
    BY <1>6, <1>8, <2>1, TurnIsOpened
  <2>3. Going(n)'
    <3>1. Live(n)' => Going(n)'
      BY <1>1, <1>3 DEF IInv, BriefInv, WellBriefed
    <3> QED
      BY <2>2, <3>1
  <2>4. PacketOf(node, n) \in packets' /\ PacketOf(node, n).src = n
        /\ PacketOf(node, n).row = C
    BY <2>2 DEF PacketOf
  <2>5. Opened(n, v, C, P, R)'
    BY <1>2, <2>2, <2>4 DEF Opened, Judged
  <2> QED
    BY <1>3, <2>2, <2>3, <2>5 DEF AlikeAt
<1>9. Alike(v, C, P, R, W)'
  <2>1. \A m \in Node : m # v => AlikeAt(m, v, C, P, R, W)'
    BY <1>7, <1>8
  <2> QED
    BY <1>2, <1>6, <2>1 DEF Alike, Rows
<1>10. packets' = packets \/ (Participates(node, n) /\ packets' = packets \cup {PacketOf(node, n)})
  BY DEF NodeActs, SitOut, FillPipeline, CommitStage, HaltStage, CrashNode
<1>11. ASSUME Participates(node, n)
       PROVE  /\ PacketOf(node, n).run = cp.config.run
              /\ PacketOf(node, n).destinations = Node \ {n} /\ PacketOf(node, n).src = n
              /\ n = v => \/ PacketOf(node, n).row = {}
                         \/ n \in PacketOf(node, n).row
  <2>1. /\ node.config = cp.config /\ node.state = cp.states[n]
        /\ cp.states[n] = "ACTIVE" =>
             \/ Going(n) /\ node.current = nodes[n].current
             \/ node.current = NoStage(cp.config)
    BY <1>1, <1>2, BriefedIs
  <2>2. \/ Going(n) /\ node.current = nodes[n].current
        \/ node.current = NoStage(cp.config)
    BY <1>11, <2>1 DEF Participates
  <2>3. n = v => node.current.row = {} \/ n \in node.current.row
    BY <1>3, <1>5, <2>2 DEF Sane, NoStage
  <2> QED
    BY <1>2, <2>1, <2>3 DEF PacketOf, Destinations
<1>12. ASSUME Going(n)', n = v
       PROVE  n \in nodes'[n].current.row
  <2>1. FillPipeline(n) \/ CommitStage(n)
    BY <1>1, <1>12, SitOutKeeps, HaltKeeps, CrashKeeps DEF NodeActs, Stops
  <2>2. node \in NodeStates
    BY <1>1, <1>2, BriefedIs
  <2>3. PICK shifted : shifted = Shifted(node, n)
    OBVIOUS
  <2>4. round \in 0 .. MaxRound
    BY <1>1, Types DEF IInv
  <2>5. shifted \in NodeStates /\ shifted.current.row = {n}
    BY <2>2, <2>3, <2>4, ShiftedIs
  <2>6. nodes'[n].current = shifted.current
    <3>1. nodes \in [Node -> NodeStates]
      BY <1>1 DEF IInv, ClusterTypeOK
    <3>2. CASE FillPipeline(n)
      <4>1. nodes' = [nodes EXCEPT ![n] = shifted]
        BY <2>3, <3>2, Zenon DEF FillPipeline
      <4> QED
        BY <3>1, <4>1
    <3>3. CASE CommitStage(n)
      <4>1. PICK sound, entry : nodes' = [nodes EXCEPT ![n] =
                                  [shifted EXCEPT !.sound = sound,
                                                  !.digest = Extended(@, entry)]]
        BY <2>3, <3>3, Zenon DEF CommitStage
      <4>2. nodes'[n] = [shifted EXCEPT !.sound = sound, !.digest = Extended(@, entry)]
        BY <3>1, <4>1, Zenon
      <4> QED
        BY <2>5, <4>2 DEF NodeStates
    <3> QED
      BY <2>1, <3>2, <3>3
  <2> QED
    BY <2>5, <2>6
<1> HIDE DEF node
<1>13. Sane(v)'
  <2>1. \A p \in packets' : p.run = cp.config.run /\ p.destinations = Node \ {p.src}
    BY <1>5, <1>10, <1>11 DEF Sane
  <2>2. \A p \in packets' : p.src = v => p.row = {} \/ v \in p.row
    BY <1>5, <1>10, <1>11 DEF Sane
  <2>3. ASSUME NEW m \in Node, m = v, Going(m)'
        PROVE  m \in nodes'[m].current.row \/ (~Turned(m)' /\ nodes'[m].current.row = {})
    <3>1. CASE m = n
      BY <1>12, <2>3, <3>1
    <3>2. CASE m # n
      <4>1. /\ Going(m)' <=> Going(m)
            /\ Turned(m)' <=> Turned(m)
            /\ nodes'[m] = nodes[m]
        BY <1>1, <1>2, <3>2, OthersKeep
      <4> QED
        BY <1>5, <2>3, <4>1 DEF Sane
    <3> QED
      BY <3>1, <3>2
  <2> QED
    BY <1>2, <2>1, <2>2, <2>3 DEF Sane
<1> QED
  BY <1>9, <1>13 DEF Uniform

(* A step that leaves nodes, packets and control plane alone leaves them alike. *)
LEMMA SameIsUniform ==
  ASSUME NEW v, Uniform(v), cp' = cp, nodes' = nodes, packets' = packets, round' = round,
         \A n \in Node : Turned(n)' <=> Turned(n)
  PROVE  Uniform(v)'
<1>1. \A n \in Node : Going(n)' <=> Going(n)
  BY DEF Going, Live
<1>2. Sane(v)'
  BY <1>1 DEF Uniform, Sane
<1>3. PICK C, P, R, W \in SUBSET Node : Alike(v, C, P, R, W)
  BY DEF Uniform
<1>4. \A n \in Node : AlikeAt(n, v, C, P, R, W) => AlikeAt(n, v, C, P, R, W)'
  BY <1>1 DEF AlikeAt, Opened, Waits, Judged
<1>5. Alike(v, C, P, R, W)'
  BY <1>3, <1>4 DEF Alike, Rows
<1> QED
  BY <1>2, <1>5 DEF Uniform

(* What is lost on the way to v does not disturb the others either. *)
LEMMA NetworkKeepsUniform ==
  ASSUME FirstRun, NEW v, Uniform(v), NEW lost, DeliverAllBut(lost),
         \A d \in lost : d[1] = v
  PROVE  Uniform(v)'
<1>1. /\ IInv /\ turn = NetworkTurn /\ turn' = ControlTurn /\ round' = round + 1
      /\ packets' = {} /\ cp' = cp /\ round \in Nat
      /\ \A n \in Node : \E heard : Receives(n, heard)
  BY NetworkIs, Types, ClusterAssumption DEF FirstRun, IInv
<1>2. \A n \in Node : Turned(n) /\ ~Turned(n)'
  BY <1>1, Turns DEF Turned, ControlTurn
<1>3. \A n \in Node : Going(n)' <=> Going(n)
  BY <1>1 DEF Going, Live, Receives
<1>4. Sane(v)'
  <2>1. ASSUME NEW n \in Node, n = v, Going(n)'
        PROVE  n \in nodes'[n].current.row
    <3>1. n \in nodes[n].current.row
      BY <1>2, <1>3, <2>1 DEF Uniform, Sane
    <3> QED
      BY <1>1, <3>1 DEF Receives
  <2> QED
    BY <1>1, <2>1 DEF Sane
<1>5. PICK C, P, R, W \in SUBSET Node : Alike(v, C, P, R, W)
  BY DEF Uniform
<1>6. /\ C \in Rows(v, round - 1)
      /\ \A n \in Node : n # v =>
           /\ Going(n) /\ Opened(n, v, C, P, R)
           /\ nodes[n].current.members = Node /\ nodes[n].previous.members = Node
  BY <1>2, <1>5 DEF Alike, AlikeAt
<1>7. PICK sound : sound = Judged(v, P, R)
  OBVIOUS
<1>8. /\ sound \in {Node, Node \ {v}}
      /\ sound # Node => round >= 2 /\ sound = Node \ {v} /\ v \notin sound
  BY <1>1, <1>7 DEF Judged
<1>9. /\ \A p, q \in packets : p.src = q.src => p = q
      /\ \A p \in packets : p.round = round /\ p.src \in Node /\ p.row \in SUBSET Node
      /\ \A p \in packets : p.run = cp.config.run /\ p.destinations = Node \ {p.src}
      /\ packets \subseteq OutboundPackets
  BY <1>1, Types DEF IInv, PacketInv, Uniform, Sane, OutboundPackets
\* Whether v is heard, and the row it has sent.
<1> DEFINE heardOf == \E p \in packets : p.src = v /\ v \in sound
<1>10. PICK S \in SUBSET Node : /\ S = {} \/ v \in S
                                /\ ~heardOf => S = {}
                                /\ \A p \in packets : (p.src = v /\ v \in sound) => p.row = S
  <2>1. CASE heardOf
    <3>1. PICK p \in packets : p.src = v /\ v \in sound
      BY <2>1
    <3>2. p.row = {} \/ v \in p.row
      BY <3>1 DEF Uniform, Sane
    <3>3. \A q \in packets : q.src = v => q.row = p.row
      BY <1>9, <3>1
    <3>4. p.row \in SUBSET Node
      BY <1>9
    <3> QED
      BY <2>1, <3>2, <3>3, <3>4
  <2>2. CASE ~heardOf
    <3>1. \A p \in packets : ~(p.src = v /\ v \in sound)
      BY <2>2
    <3> WITNESS {} \in SUBSET Node
    <3> QED
      BY <3>1
  <2> QED
    BY <2>1, <2>2
<1>11. PICK D \in SUBSET Node : D = IF heardOf THEN Node ELSE Node \ {v}
  OBVIOUS
<1>12. ASSUME NEW n \in Node, n # v
       PROVE  /\ nodes'[n].sound = sound
              /\ nodes'[n].current.row = D /\ nodes'[n].previous.row = C
              /\ \A m \in Node : nodes'[n].previous.rows[m] = IF m = v THEN S ELSE C
              /\ nodes'[n].current.members = Node /\ nodes'[n].previous.members = Node
  <2> DEFINE reaching == {p \in packets : n \in p.destinations /\ <<n, p>> \notin lost}
  <2>1. PICK heard : heard = {p \in reaching : Counts(n, p)}
    OBVIOUS
  <2>2. nodes'[n] = Received(nodes[n], heard)
    BY <2>1, Zenon DEF DeliverAllBut, Deliver
  <2>3. /\ nodes[n].sound = sound
        /\ nodes[n].current.row = {n} /\ nodes[n].previous.row = C
        /\ \A m \in Node : nodes[n].previous.rows[m] = IF m = n THEN C ELSE {}
        /\ nodes[n].status = "RUNNING" /\ nodes[n].state = "ACTIVE"
        /\ nodes[n].config = cp.config
        /\ nodes[n].current.members = Node /\ nodes[n].previous.members = Node
    BY <1>6, <1>7, <1>12 DEF Opened, Going, Live
  <2>4. \A p : p \in heard <=> p \in packets /\ p.src # n /\ p.src \in sound
    <3> TAKE p
    <3>1. <<n, p>> \notin lost
      BY <1>12
    <3> QED
      BY <1>9, <2>1, <2>3, <3>1 DEF Counts
  <2>5. \A m \in Node : m # v => \E p \in packets : p.src = m /\ p.row = C
    BY <1>6 DEF Opened
  <2>6. \A p \in packets : p.src # v => p.row = C
    BY <1>9, <2>5
  <2>7. nodes[n] \in NodeStates /\ heard \subseteq OutboundPackets
    BY <1>1, <1>9, <2>4, Types DEF IInv
  <2> HIDE DEF reaching
  <2>8. PICK new : new = Received(nodes[n], heard)
    OBVIOUS
  <2>9. /\ new.sound = sound /\ new.previous.row = C
        /\ new.current.members = Node /\ new.previous.members = Node
        /\ new.current.row = {n} \cup {p.src : p \in heard}
        /\ \A m \in Node :
             \/ \E p \in heard : p.src = m /\ new.previous.rows[m] = p.row
             \/ /\ \A p \in heard : p.src # m
                /\ new.previous.rows[m] = nodes[n].previous.rows[m]
    BY <2>3, <2>7, <2>8, ReceivedIs
  <2>10. new.current.row = D
    <3>1. \A m \in Node : m # v => (m = n \/ \E p \in heard : p.src = m)
      BY <1>8, <2>4, <2>5
    <3>2. heardOf => v \in Node /\ \E p \in heard : p.src = v
      BY <1>9, <1>12, <2>4
    <3>3. ~heardOf => \A p \in heard : p.src # v
      BY <2>4
    <3>4. \A p \in heard : p.src \in Node
      BY <1>9, <2>4
    <3> HIDE DEF heardOf
    <3>5. \A m : m \in {n} \cup {p.src : p \in heard} <=> m \in D
      BY <1>11, <1>12, <3>1, <3>2, <3>3, <3>4
    <3> QED
      BY <2>9, <3>5
  <2>11. \A m \in Node : new.previous.rows[m] = IF m = v THEN S ELSE C
    <3> TAKE m \in Node
    <3>1. CASE \E p \in heard : p.src = m /\ new.previous.rows[m] = p.row
      <4>1. PICK p \in heard : p.src = m /\ new.previous.rows[m] = p.row
        BY <3>1
      <4>2. p \in packets /\ p.src \in sound
        BY <2>4
      <4> QED
        BY <1>10, <2>6, <4>1, <4>2
    <3>2. CASE /\ \A p \in heard : p.src # m
               /\ new.previous.rows[m] = nodes[n].previous.rows[m]
      <4>1. CASE m = n
        BY <1>12, <2>3, <3>2, <4>1
      <4>2. CASE m # n
        <5>1. m = v
          BY <1>8, <2>4, <2>5, <3>2, <4>2
        <5>2. ~heardOf
          BY <2>4, <3>2, <4>2, <5>1
        <5> QED
          BY <1>10, <2>3, <3>2, <4>2, <5>1, <5>2
      <4> QED
        BY <4>1, <4>2
    <3> QED
      BY <2>9, <3>1, <3>2
  <2> QED
    BY <2>2, <2>8, <2>9, <2>10, <2>11
<1>13. sound # Node => S = {}
  BY <1>8, <1>10
<1> HIDE DEF heardOf
<1>14. ASSUME NEW n \in Node, n # v
       PROVE  AlikeAt(n, v, D, C, S, sound)'
  <2>1. Waits(n, v, D, C, S, sound)'
    BY <1>12, <1>14 DEF Waits
  <2> QED
    BY <1>2, <1>3, <1>6, <1>12, <1>14, <2>1 DEF AlikeAt
<1>15. sound \in SUBSET Node
  BY <1>8
<1>16. round' - 1 = round /\ round' - 2 = round - 1 /\ ~(round < 0)
  BY <1>1
<1>17. D \in Rows(v, round) /\ C \in Rows(v, round - 1)
  BY <1>6, <1>11, <1>16 DEF Rows
<1>18. Alike(v, D, C, S, sound)'
  <2>1. sound # Node => round' >= 2
    BY <1>1, <1>8
  <2>2. (D \in Rows(v, round - 1) /\ C \in Rows(v, round - 2))'
    BY <1>16, <1>17 DEF Rows
  <2> QED
    BY <1>8, <1>10, <1>13, <1>14, <2>1, <2>2 DEF Alike
<1>19. \E A, B, E, F \in SUBSET Node : Alike(v, A, B, E, F)'
  BY <1>15, <1>18
<1> QED
  BY <1>4, <1>19 DEF Uniform

(* As long as nothing has happened, it can happen to anybody. *)
LEMMA AnyVictim ==
  ASSUME IInv, Uniform(None), NEW v \in Node
  PROVE  Uniform(v)
<1>1. None \notin Node /\ round \in Nat
  BY Turns, Types, ClusterAssumption DEF IInv, None
<1>2. PICK C, P, R, W \in SUBSET Node : Alike(None, C, P, R, W)
  BY DEF Uniform
<1>3. Node \ {None} = Node
  BY <1>1
<1>4. /\ C \in {{}, Node} /\ P \in {{}, Node} /\ W = Node
      /\ C \in Rows(v, round - 1) /\ P \in Rows(v, round - 2)
  BY <1>2, <1>3 DEF Alike, Rows
<1>5. \A n \in Node : AlikeAt(n, None, C, P, R, W)
  BY <1>1, <1>2 DEF Alike
<1>6. Judged(None, P, R) = Node /\ Judged(v, P, P) = Node
  BY <1>3 DEF Judged
<1>7. \A n \in Node : AlikeAt(n, v, C, P, P, W)
  BY <1>1, <1>5, <1>6 DEF AlikeAt, Opened, Waits
<1>8. Alike(v, C, P, P, W)
  BY <1>4, <1>7 DEF Alike
<1>9. Sane(v)
  <2>1. ASSUME NEW p \in packets, p.src = v
        PROVE  p.row = {} \/ v \in p.row
    <3>1. Turned(v)
      BY <2>1 DEF IInv, PacketInv
    <3>2. PICK q \in packets : q.src = v /\ q.row = C
      BY <1>5, <3>1 DEF AlikeAt, Opened
    <3>3. p = q
      BY <2>1, <3>2 DEF IInv, PacketInv
    <3> QED
      BY <1>4, <3>2, <3>3
  <2>2. v \in nodes[v].current.row \/ (~Turned(v) /\ nodes[v].current.row = {})
    BY <1>4, <1>5 DEF AlikeAt, Opened, Waits
  <2> QED
    BY <2>1, <2>2 DEF Uniform, Sane
<1> QED
  BY <1>8, <1>9 DEF Uniform

(* The cluster starts that way. *)
LEMMA InitUniform == ClusterInit => Uniform(None)
<1> SUFFICES ASSUME ClusterInit PROVE Uniform(None)
  OBVIOUS
<1>1. /\ round = 0 /\ turn = ControlTurn /\ packets = {}
      /\ \A n \in Node : nodes[n] = NewNode
      /\ cp.config = InitialConfig /\ \A n \in Node : cp.states[n] = "ACTIVE"
      /\ None \notin Node
  BY Turns DEF ClusterInit, InitialControlPlane, None
<1>2. \A n \in Node : ~Turned(n)
  BY <1>1, Turns DEF Turned, ControlTurn
<1>3. /\ NewNode.status = "RUNNING" /\ NewNode.state = "ACTIVE"
      /\ NewNode.config = InitialConfig /\ NewNode.sound = Node
      /\ NewNode.current.row = {} /\ NewNode.previous.row = {}
      /\ NewNode.current.members = Node /\ NewNode.previous.members = Node
      /\ \A m \in Node : NewNode.previous.rows[m] = {}
  BY DEF NewNode, NoStage, InitialConfig
<1>4. \A n \in Node : AlikeAt(n, None, {}, {}, {}, Node)
  BY <1>1, <1>2, <1>3 DEF AlikeAt, Going, Live, Waits
<1>5. Alike(None, {}, {}, {}, Node)
  BY <1>1, <1>4 DEF Alike, Rows
<1>6. Sane(None)
  BY <1>1 DEF Sane
<1>7. \E C, P, R, W \in SUBSET Node : Alike(None, C, P, R, W)
  BY <1>5
<1> QED
  BY <1>6, <1>7 DEF Uniform

-----------------------------------------------------------------------------
(* Before the first window of the control plane closes. *)

\* The control plane takes nobody for failed who runs.
EarlyInv ==
  /\ BeforeFirstEpisode(cp)
  /\ \A n \in Node : cp.states[n] = "FAILED" => nodes[n].status # "RUNNING"

(* A node's turn leads to a report at most. *)
LEMMA TurnKeepsEarly ==
  ASSUME IInv, EarlyInv, NEW n \in Node, NodeActs(n) \/ CrashNode(n)
  PROVE  EarlyInv'
<1>1. /\ TakesTurn(n) /\ turn = n /\ \A m \in Node : m # n => nodes'[m] = nodes[m]
      /\ \A m \in Node : m # n => cp'.states[m] = cp.states[m]
  BY SitOutKeeps, FillKeeps, CommitStageKeeps, HaltKeeps, CrashKeeps
  DEF NodeActs, Stops, Opens, TakesTurn
<1>2. ControlPlaneAfterAck(n) = cp
  BY DEF ControlPlaneAfterAck, NotePrepareAck, EarlyInv, BeforeFirstEpisode
<1>3. nodes \in [Node -> NodeStates] /\ round \in Nat /\ ControlPlaneInv(cp)
  BY ClusterAssumption DEF IInv, ClusterTypeOK
<1>4. BeforeFirstEpisode(cp')
  <2>1. PICK time \in Nat : time = RoundStart + HaltReportDelay /\ time >= HaltReportDelay
    BY <1>3, RoundStartType, Timing
  <2>2. cp' \in {cp, NoteInterruption(cp, n, time)}
    BY <1>2, <2>1
    DEF NodeActs, SitOut, FillPipeline, CommitStage, HaltStage, CrashNode,
        ControlPlaneAfterStop
  <2> QED
    BY <1>3, <2>1, <2>2, StopBeforeFirstEpisode DEF EarlyInv
<1>5. cp'.states[n] = "FAILED" => nodes'[n].status # "RUNNING"
  <2>1. CASE SitOut(n)
    <3>1. nodes'[n] = Briefed(n) /\ cp' = cp
      BY <1>2, <1>3, <2>1 DEF SitOut
    <3>2. cp.states[n] = "FAILED" => Briefed(n).status = nodes[n].status
      BY <1>1, BriefedIs
    <3> QED
      BY <3>1, <3>2 DEF EarlyInv
  <2>2. CASE FillPipeline(n) \/ CommitStage(n)
    <3>1. Opens(n)
      BY <2>2, FillKeeps, CommitStageKeeps
    <3>2. cp' = cp /\ cp.states[n] = "ACTIVE"
      BY <1>2, <2>2, <3>1 DEF FillPipeline, CommitStage, Opens
    <3> QED
      BY <3>2
  <2>3. CASE HaltStage(n)
    <3>1. nodes' = [nodes EXCEPT ![n] = [Shifted(Briefed(n), n) EXCEPT !.status = "HALTED"]]
      BY <2>3, Zenon DEF HaltStage
    <3>2. nodes'[n] = [Shifted(Briefed(n), n) EXCEPT !.status = "HALTED"]
      BY <1>3, <3>1, Zenon
    <3>3. "status" \in DOMAIN Shifted(Briefed(n), n)
      <4>1. Briefed(n) \in NodeStates
        BY <1>1, BriefedIs
      <4> QED
        BY <4>1 DEF Shifted, NodeStates
    <3> QED
      BY <3>2, <3>3
  <2>4. CASE CrashNode(n)
    BY <1>3, <2>4 DEF CrashNode, NodeStates
  <2> QED
    BY <2>1, <2>2, <2>3, <2>4 DEF NodeActs
<1> QED
  BY <1>1, <1>4, <1>5 DEF EarlyInv

(* The control plane has nothing to do. *)
LEMMA ControlKeepsEarly ==
  ASSUME IInv, EarlyInv, ControlPlaneTurn, RoundStart < HaltReportDelay + CollectionDelay
  PROVE  cp' = cp /\ EarlyInv'
<1>1. round \in Nat /\ cp \in ControlPlaneStates
  BY ClusterAssumption DEF IInv, ClusterTypeOK
<1>2. PICK time \in Nat : time = RoundStart
  BY <1>1, RoundStartType
<1>3. PICK snapshots : snapshots = RepairSnapshots
  OBVIOUS
<1>4. cp' = ControlState(AdvanceToTime(cp, time, snapshots), round, snapshots)
  BY <1>2, <1>3, Zenon DEF ControlPlaneTurn
<1>5. ControlState(AdvanceToTime(cp, time, snapshots), round, snapshots) = cp
  BY <1>1, <1>2, NothingIsDue DEF EarlyInv
<1>6. nodes' = nodes
  BY DEF ControlPlaneTurn
<1> QED
  BY <1>4, <1>5, <1>6 DEF EarlyInv

(* The network does not reach the control plane. *)
LEMMA NetworkKeepsEarly ==
  ASSUME IInv, EarlyInv, NEW lost, DeliverAllBut(lost)
  PROVE  EarlyInv'
  BY NetworkIs DEF EarlyInv, Receives

(* Nobody has stopped in the beginning. *)
LEMMA InitEarly == ClusterInit => EarlyInv
  BY InitialBeforeFirstEpisode DEF ClusterInit, EarlyInv, InitialControlPlane

(* Until then, who runs goes on, and has committed whatever could be judged. *)
LEMMA RunningIsFilled ==
  ASSUME IInv, EarlyInv, FirstRunInv, cp.config = InitialConfig, turn = ControlTurn,
         round >= 2, NEW n \in Node, nodes[n].status = "RUNNING"
  PROVE  Len(history[n]) = round - 2
<1>1. cp.states[n] = "ACTIVE"
  BY DEF EarlyInv, BeforeFirstEpisode
<1>2. Going(n)
  BY <1>1 DEF IInv, BriefInv, WellBriefed, Settled
<1>3. round \in Nat /\ StageRound(n) = round - 1
  BY Turns, ClusterAssumption DEF IInv, ClusterTypeOK, StageRound, Turned, ControlTurn
<1>4. Len(history[n]) = MaxOf(round - 1 - 1, 0)
  BY <1>2, <1>3 DEF FirstRunInv, Filled
<1> QED
  BY <1>3, <1>4 DEF MaxOf

-----------------------------------------------------------------------------
(* Rejoin: a few faults of any kind. *)

(* A step of Rejoin is one of the cluster, or counts nothing; crashes are counted. *)
LEMMA RejoinStep ==
  ASSUME [Next]_vars
  PROVE  /\ [FaultyNext]_clusterVars
         /\ \/ crashes' = crashes /\ StaysUp
            \/ crashes' = crashes + 1
<1>1. ASSUME NetworkRound
      PROVE  \E lost \in SUBSET (Node \X packets) : DeliverAllBut(lost)
  <2>1. PICK lost \in SUBSET {d \in Node \X packets :
                               d[1] \in d[2].destinations /\ Counts(d[1], d[2])} :
          DeliverAllBut(lost)
    BY <1>1, Zenon DEF NetworkRound
  <2>2. lost \in SUBSET (Node \X packets)
    OBVIOUS
  <2> QED
    BY <2>1, <2>2
<1>2. UNCHANGED vars => UNCHANGED clusterVars
  BY DEF vars
<1>3. ASSUME NEW n \in Node, Crash(n)
      PROVE  crashes' = crashes + 1 /\ CrashNode(n)
  BY <1>3 DEF Crash
<1>4. \/ \E n \in Node : Crash(n)
      \/ crashes' = crashes /\ StaysUp
  BY <1>1, <1>2 DEF Next, ControlPlaneStep, NodeStep, NetworkRound, Finished, vars, faultVars,
     StaysUp
<1> QED
  BY <1>3, <1>4 DEF StaysUp, FaultyNext

(* Whatever Rejoin's bounds on the faults are, it is the cluster under some faults. *)
THEOREM RejoinIsFaulty == Spec => FaultySpec
<1>1. Init => ClusterInit
  BY DEF Init
<1>2. [Next]_vars => [FaultyNext]_clusterVars
  BY RejoinStep
<1> QED
  BY <1>1, <1>2, PTL DEF Spec, FaultySpec

(* The faults are counted. *)
LEMMA FaultsAreCounted ==
  ASSUME IInv, crashes \in 0 .. MaxCrash, losses \in 0 .. MaxLoss, [Next]_vars
  PROVE  crashes' \in 0 .. MaxCrash /\ losses' \in 0 .. MaxLoss
<1>1. ASSUME NetworkRound
      PROVE  crashes' = crashes /\ losses' \in 0 .. MaxLoss
  <2> DEFINE Losable == {d \in Node \X packets :
                           d[1] \in d[2].destinations /\ Counts(d[1], d[2])}
  <2>1. PICK lost \in SUBSET Losable :
          /\ losses + Cardinality(lost) <= MaxLoss
          /\ losses' = losses + Cardinality(lost)
          /\ crashes' = crashes
    BY <1>1, Zenon DEF NetworkRound
  <2>2. IsFiniteSet(Node \X packets)
    BY PacketsAreFinite, NodeAssumption, FS_Product
  <2>3. IsFiniteSet(lost)
    BY <2>2, FS_Subset
  <2>4. Cardinality(lost) \in Nat
    BY <2>3, FS_CardinalityType
  <2> QED
    BY <2>1, <2>4, RejoinAssumption
<1>2. ASSUME NEW n \in Node, Crash(n)
      PROVE  crashes' \in 0 .. MaxCrash /\ losses' = losses
  BY <1>2, RejoinAssumption DEF Crash
<1> QED
  BY <1>1, <1>2 DEF Next, ControlPlaneStep, NodeStep, Finished, vars, faultVars

(* Every variable of the cluster keeps its type; no operation builds an ill-formed node,
   config or update. *)
THEOREM Typing == Spec => []TypeOK
<1>1. Spec => []IInv
  BY Invariance, RejoinIsFaulty, PTL
<1> DEFINE Counted == crashes \in 0 .. MaxCrash /\ losses \in 0 .. MaxLoss
<1>2. Init => Counted
  BY RejoinAssumption DEF Init
<1>3. IInv /\ Counted /\ [Next]_vars => Counted'
  BY FaultsAreCounted
<1>4. IInv /\ Counted => TypeOK
  BY DEF IInv, TypeOK
<1> HIDE DEF Counted
<1> QED
  BY <1>1, <1>2, <1>3, <1>4, PTL DEF Spec

(* What the cluster promises under any faults it promises in Rejoin. *)
LEMMA RejoinIsSafe ==
  Spec => [](/\ NoConflictingCommits /\ GapsOnlyAtCutovers /\ NobodyComesBackWithinARun
             /\ NoStoppedNodeIsForgotten /\ CommittedConfigHasReachedItsMembers)
  BY ClusterIsSafe, Invariance, RejoinIsFaulty, PTL

(* The claim of node.py above _quorum(), for any number of nodes, cutovers and faults: no
   two nodes ever hold different entries for a round, be they committed or taken over by a
   repair. *)
THEOREM Agreement == Spec => []NoConflictingCommits
  BY RejoinIsSafe, PTL

(* _evaluate_round_boundary() commits the rounds of a run one after the other, and a repair
   brings over a log that is in order itself. *)
THEOREM NoGapsWithinARun == Spec => []GapsOnlyAtCutovers
  BY RejoinIsSafe, PTL

(* The sound set that an update widens does not let anyone back into the commits of a run
   who missed one, but for the run's second round. *)
THEOREM ExclusionLasts == Spec => []NobodyComesBackWithinARun
  BY RejoinIsSafe, PTL

(* Whoever crashes or halts is collected, repaired or queued by the control plane until it
   is active again, whatever order the stops, aborts and cutovers come in. *)
THEOREM StoppedNodesAreTracked == Spec => []NoStoppedNodeIsForgotten
  BY RejoinIsSafe, PTL

(* The last acknowledgement is what schedules the commit of a config, so a committed config
   is one that each of its members has taken over. *)
THEOREM CommitsAreAcknowledged == Spec => []CommittedConfigHasReachedItsMembers
  BY RejoinIsSafe, PTL

(* push_control_plane_update() keeps one update, so a crash may keep a node from pulling a
   repair that ClusterRun has entered in its history.  Nothing else can: without a crash,
   committed_frontier and commit_digest are those of the history, whoever halts, is repaired
   or comes back. *)
THEOREM DigestsFollowHistories ==
  Spec => [](crashes = 0 =>
               \A n \in Node : mailbox[n] = <<>> => nodes[n].digest = history[n])
<1> DEFINE Inv == crashes \in Nat /\ (crashes = 0 => DigestInv)
<1>1. Spec => []IInv
  BY Invariance, RejoinIsFaulty, PTL
<1>2. Init => Inv
  BY InitDigest DEF Init
<1>3. IInv /\ Inv /\ [Next]_vars => Inv'
  <2> SUFFICES ASSUME IInv, Inv, [Next]_vars
               PROVE  Inv'
    OBVIOUS
  <2>1. CASE crashes' = crashes + 1
    BY <2>1
  <2>2. CASE crashes' = crashes /\ StaysUp
    BY <2>2, NextKeepsDigest
  <2> QED
    BY <2>1, <2>2, RejoinStep
<1>4. Inv => (crashes = 0 =>
                \A n \in Node : mailbox[n] = <<>> => nodes[n].digest = history[n])
  BY DEF DigestInv
<1> HIDE DEF Inv
<1> QED
  BY <1>1, <1>2, <1>3, <1>4, PTL DEF Spec

-----------------------------------------------------------------------------
(* Scenarios: the fault models the repository ships. *)

\* The run's fault model leaves what a packet says as it is.
Faithful == run.name # "ack_bitmap_corruption"

\* What is still under way comes too late.
FlightInv ==
  /\ run \in Runs
  /\ \A a \in inFlight : a.packet.round \in 0 .. round - 1

\* What a fault model may make of packet p: it drops it, keeps it for later, puts a copy on
\* the queue, or labels it with a round that is not its own and delivers it at once.
Harmless(d, p) ==
  /\ d.row = p.row /\ d.extra \subseteq {p.round}
  /\ \/ d.round = p.round /\ d.deliverRound \in {None, p.round, p.round + 1, 2}
     \/ d.round # p.round /\ d.deliverRound = p.round

(* The answers of the fault models are such. *)
LEMMA AnswersAreHarmless ==
  ASSUME Faithful, NEW p \in OutboundPackets, NEW n \in Node
  PROVE  /\ Harmless(NetworkFaultModel(p, n), p)
         /\ \A fault \in PacketFaults : Harmless(RandomDelivery(p, fault), p)
<1> DEFINE D(deliver, label, extra) == [deliverRound |-> deliver, round |-> label,
                                        row |-> p.row, extra |-> extra]
<1>1. /\ OnTime(p) = D(p.round, p.round, {})
      /\ Dropped(p) = D(None, p.round, {})
      /\ [OnTime(p) EXCEPT !.deliverRound = 2] = D(2, p.round, {})
      /\ [OnTime(p) EXCEPT !.deliverRound = p.round + 1] = D(p.round + 1, p.round, {})
      /\ [OnTime(p) EXCEPT !.round = 1] = D(p.round, 1, {})
      /\ [OnTime(p) EXCEPT !.extra = {p.round}] = D(p.round, p.round, {p.round})
  BY DEF OnTime, Dropped
<1>2. /\ Harmless(D(p.round, p.round, {}), p)
      /\ Harmless(D(None, p.round, {}), p)
      /\ Harmless(D(2, p.round, {}), p)
      /\ Harmless(D(p.round + 1, p.round, {}), p)
      /\ Harmless(D(p.round, p.round, {p.round}), p)
      /\ p.round = 0 => Harmless(D(p.round, 1, {}), p)
  BY DEF Harmless
<1> HIDE DEF D
<1>3. \A fault \in PacketFaults : Harmless(RandomDelivery(p, fault), p)
  BY <1>1, <1>2 DEF PacketFaults, RandomDelivery
<1>4. /\ Harmless(OnTime(p), p) /\ Harmless(Dropped(p), p)
      /\ Harmless([OnTime(p) EXCEPT !.deliverRound = 2], p)
      /\ p.round = 0 => Harmless([OnTime(p) EXCEPT !.round = 1], p)
  BY <1>1, <1>2
<1>5. /\ Harmless(AsymmetricLossAt(p, n, 0), p)
      /\ Harmless(BridgePartitionAt(p, n, 0, {1}, {2}), p)
      /\ Harmless(OneRoundDelay(p, n), p)
      /\ Harmless(FutureRoundSkew(p, n), p)
  BY <1>4, Zenon DEF AsymmetricLossAt, BridgePartitionAt, OneRoundDelay, FutureRoundSkew
<1>6. Harmless(NetworkFaultModel(p, n), p)
  BY <1>4, <1>5 DEF NetworkFaultModel, Faithful
<1> QED
  BY <1>3, <1>6

(* Of a packet so treated an arrival that is due either is the packet or is of another
   round, and one that is not due is of this round. *)
LEMMA ScheduledIs ==
  ASSUME NEW p \in OutboundPackets, p.round = round, NEW n, NEW d, Harmless(d, p),
         NEW a \in Scheduled(p, n, d)
  PROVE  /\ a.dst = n
         /\ ArrivesNow(a) => a.packet = p \/ a.packet.round # round
         /\ ~ArrivesNow(a) => a.packet.round = round
<1>1. PICK at \in {d.deliverRound} \cup {r \in d.extra : r > round} :
             a = Arrival(at, n, Materialized(p, d))
  BY DEF Scheduled
<1>2. a.dst = n /\ a.at = at /\ a.packet = Materialized(p, d)
  BY <1>1 DEF Arrival
<1>3. a.packet.round = d.round
  BY <1>2 DEF Materialized, OutboundPackets
<1>4. d.round = p.round => a.packet = p
  <2> SUFFICES ASSUME d.round = p.round PROVE a.packet = p
    OBVIOUS
  <2>1. a.packet = [p EXCEPT !.round = p.round, !.row = p.row]
    BY <1>2 DEF Materialized, Harmless
  <2> QED
    BY <2>1 DEF OutboundPackets
<1>5. d.round # p.round => ArrivesNow(a)
  <2> SUFFICES ASSUME d.round # p.round PROVE ArrivesNow(a)
    OBVIOUS
  <2>1. round \in Nat /\ d.extra \subseteq {round} /\ d.deliverRound = round
    BY ClusterAssumption DEF Harmless, OutboundPackets
  <2>2. at = round
    BY <2>1
  <2> QED
    BY <1>2, <2>1, <2>2 DEF ArrivesNow
<1> QED
  BY <1>2, <1>3, <1>4, <1>5

\* What a campaign takes are packets it has picked for a fault.
Took(lost) ==
  Trial => \E hit \in SUBSET Sent :
             /\ faults' = faults + Cardinality(hit)
             /\ \A d \in lost : <<d[2], d[1]>> \in hit

(* What is received in a round is what was sent in it, but for what the faults took. *)
LEMMA AdvanceIsFaulty ==
  ASSUME IInv, FlightInv, Faithful, AdvanceNetwork
  PROVE  /\ \E lost \in SUBSET (Node \X packets) : DeliverAllBut(lost) /\ Took(lost)
         /\ FlightInv'
<1>1. PICK injected \in Injections :
        LET delivery(s) == IF s \in DOMAIN injected THEN RandomDelivery(s[1], injected[s])
                           ELSE NetworkFaultModel(s[1], s[2])
            arrivals == inFlight \cup UNION {Scheduled(s[1], s[2], delivery(s)) : s \in Sent}
        IN  /\ Deliver([n \in Node |->
                 {a.packet : a \in {b \in arrivals : b.dst = n /\ ArrivesNow(b)}}])
            /\ inFlight' = {a \in arrivals : ~ArrivesNow(a)}
            /\ faults' = faults + Cardinality(DOMAIN injected)
            /\ UNCHANGED run
  BY Zenon DEF AdvanceNetwork
<1> DEFINE delivery(s) == IF s \in DOMAIN injected THEN RandomDelivery(s[1], injected[s])
                          ELSE NetworkFaultModel(s[1], s[2])
           arrivals == inFlight \cup UNION {Scheduled(s[1], s[2], delivery(s)) : s \in Sent}
           arriving == [n \in Node |->
                 {a.packet : a \in {b \in arrivals : b.dst = n /\ ArrivesNow(b)}}]
           lost == {d \in Node \X packets :
                      d[1] \in d[2].destinations /\ d[2] \notin arriving[d[1]]}
           reaching == [n \in Node |->
                 {p \in packets : n \in p.destinations /\ <<n, p>> \notin lost}]
<1>2. /\ Deliver(arriving) /\ inFlight' = {a \in arrivals : ~ArrivesNow(a)} /\ run' = run
      /\ faults' = faults + Cardinality(DOMAIN injected)
  BY <1>1, Zenon
<1>3. /\ round \in Nat /\ packets \subseteq OutboundPackets
      /\ \A p \in packets : p.round = round
  BY Types, ClusterAssumption DEF IInv, PacketInv
<1>4. ASSUME NEW s \in Sent
      PROVE  s[1] \in packets /\ s[2] \in Node /\ s[2] \in s[1].destinations
  BY DEF Sent
<1>5. ASSUME NEW s \in Sent
      PROVE  Harmless(delivery(s), s[1])
  <2>1. s[1] \in OutboundPackets /\ s[2] \in Node
    BY <1>3, <1>4
  <2>2. CASE s \in DOMAIN injected
    <3>1. injected[s] \in PacketFaults
      <4>1. CASE ~Trial
        <5>1. injected = <<>>
          BY <1>1, <4>1 DEF Injections
        <5> QED
          BY <2>2, <5>1
      <4>2. CASE Trial
        <5>1. \E S : injected \in [S -> PacketFaults]
          BY <1>1, <4>2 DEF Injections
        <5> QED
          BY <2>2, <5>1
      <4> QED
        BY <4>1, <4>2
    <3>2. Harmless(RandomDelivery(s[1], injected[s]), s[1])
      BY <2>1, <3>1, AnswersAreHarmless
    <3> QED
      BY <2>2, <3>2
  <2>3. CASE s \notin DOMAIN injected
    BY <2>1, <2>3, AnswersAreHarmless
  <2> QED
    BY <2>2, <2>3
<1>6. Trial => DOMAIN injected \in SUBSET Sent
  BY <1>1 DEF Injections
<1>7. ASSUME Trial, NEW s \in Sent, s \notin DOMAIN injected
       PROVE  delivery(s) = OnTime(s[1])
  BY <1>7 DEF Trial, NetworkFaultModel
<1> HIDE DEF delivery
<1>8. ASSUME Trial, NEW s \in Sent, s \notin DOMAIN injected
       PROVE  s[1] \in arriving[s[2]]
  <2>1. s[1] \in OutboundPackets /\ s[1].round = round /\ s[2] \in Node
    BY <1>3, <1>4
  <2>2. PICK p, n : p = s[1] /\ n = s[2]
    OBVIOUS
  <2> DEFINE a == Arrival(round, n, Materialized(p, OnTime(p)))
  <2>3. a \in Scheduled(p, n, OnTime(p))
    <3>1. OnTime(p).deliverRound = round /\ round # None
      BY <1>3, <2>1, <2>2 DEF OnTime, None
    <3> QED
      BY <3>1 DEF Scheduled
  <2>4. a \in arrivals
    BY <1>7, <1>8, <2>2, <2>3
  <2>5. a.dst = n /\ ArrivesNow(a)
    BY <1>3 DEF Arrival, ArrivesNow
  <2>6. a.packet = p
    <3>1. a.packet = [p EXCEPT !.round = p.round, !.row = p.row]
      BY DEF Arrival, Materialized, OnTime
    <3> QED
      BY <2>1, <2>2, <3>1 DEF OutboundPackets
  <2> HIDE DEF a
  <2> QED
    BY <2>1, <2>2, <2>4, <2>5, <2>6
<1>9. Took(lost)
  <2> SUFFICES ASSUME Trial PROVE \A d \in lost : <<d[2], d[1]>> \in DOMAIN injected
    BY <1>2, <1>6 DEF Took
  <2> TAKE d \in lost
  <2>1. d[1] \in Node /\ d[2] \in packets /\ d[1] \in d[2].destinations
        /\ d[2] \notin arriving[d[1]]
    OBVIOUS
  <2>2. PICK s : s = <<d[2], d[1]>>
    OBVIOUS
  <2>3. s \in Sent /\ s[1] = d[2] /\ s[2] = d[1]
    BY <2>1, <2>2 DEF Sent
  <2> QED
    BY <1>8, <2>1, <2>2, <2>3
<1>10. ASSUME NEW a \in arrivals
      PROVE  \/ a.packet.round \in 0 .. round - 1
             \/ \E p \in packets : \E n \in Node :
                  /\ n \in p.destinations /\ a.dst = n
                  /\ ArrivesNow(a) => a.packet = p \/ a.packet.round # round
                  /\ ~ArrivesNow(a) => a.packet.round = round
  <2>1. CASE a \in inFlight
    BY <2>1 DEF FlightInv
  <2>2. CASE a \notin inFlight
    <3>1. PICK s \in Sent : a \in Scheduled(s[1], s[2], delivery(s))
      BY <2>2
    <3>2. s[1] \in packets /\ s[2] \in Node /\ s[2] \in s[1].destinations
      BY <1>4
    <3>3. s[1] \in OutboundPackets /\ s[1].round = round
      BY <1>3, <3>2
    <3>4. /\ a.dst = s[2]
          /\ ArrivesNow(a) => a.packet = s[1] \/ a.packet.round # round
          /\ ~ArrivesNow(a) => a.packet.round = round
      BY <1>5, <3>1, <3>3, ScheduledIs
    <3> QED
      BY <3>2, <3>4
  <2> QED
    BY <2>1, <2>2
<1> HIDE DEF arrivals
<1>11. ASSUME NEW n \in Node, NEW p \in arriving[n], Counts(n, p)
      PROVE  p \in packets /\ n \in p.destinations
  <2>1. PICK a \in arrivals : a.dst = n /\ ArrivesNow(a) /\ a.packet = p
    BY <1>11
  <2>2. p.round = round
    BY <1>11 DEF Counts
  <2> QED
    BY <1>3, <1>10, <2>1, <2>2
<1> HIDE DEF arriving
<1>12. ASSUME NEW n \in Node
      PROVE  {p \in arriving[n] : Counts(n, p)} = {p \in reaching[n] : Counts(n, p)}
  BY <1>11
<1>13. lost \in SUBSET (Node \X packets)
  OBVIOUS
<1> HIDE DEF lost
<1>14. DeliverAllBut(lost)
  <2>1. [n \in Node |-> Received(nodes[n], {p \in arriving[n] : Counts(n, p)})]
          = [n \in Node |-> Received(nodes[n], {p \in reaching[n] : Counts(n, p)})]
    <3> DEFINE old(n) == Received(nodes[n], {p \in arriving[n] : Counts(n, p)})
               new(n) == Received(nodes[n], {p \in reaching[n] : Counts(n, p)})
    <3>1. \A n \in Node : old(n) = new(n)
      BY <1>12, Zenon
    <3> HIDE DEF old, new
    <3>2. [n \in Node |-> old(n)] = [n \in Node |-> new(n)]
      BY <3>1
    <3> QED
      BY <3>2, Zenon DEF old, new
  <2>2. Deliver(reaching)
    <3> HIDE DEF reaching
    <3> QED
      BY <1>2, <2>1, Zenon DEF Deliver
  <2> QED
    BY <2>2, Zenon DEF DeliverAllBut
<1>15. FlightInv'
  <2>1. round' = round + 1
    BY <1>2 DEF Deliver
  <2>2. \A a \in inFlight' : a.packet.round \in 0 .. round' - 1
    <3> TAKE a \in inFlight'
    <3>1. a \in arrivals /\ ~ArrivesNow(a)
      BY <1>2
    <3>2. a.packet.round \in 0 .. round - 1 \/ a.packet.round = round
      BY <1>10, <3>1
    <3> QED
      BY <1>3, <2>1, <3>2
  <2> QED
    BY <1>2, <2>2 DEF FlightInv
<1> QED
  BY <1>13, <1>14, <1>15, <1>9

(* A step of a scenario is one of the cluster under some faults. *)
LEMMA ScenarioStep ==
  ASSUME IInv, FlightInv, Faithful, [ScenarioNext]_scenarioVars
  PROVE  [FaultyNext]_clusterVars /\ FlightInv' /\ Faithful'
<1>1. CASE AdvanceNetwork
  <2>1. run' = run
    BY <1>1 DEF AdvanceNetwork
  <2> QED
    BY <1>1, <2>1, AdvanceIsFaulty DEF FaultyNext, Faithful
<1>2. CASE ScenarioControlPlane
  <2>1. run.rounds \in 0 .. MaxRound
    BY ScenariosAssumption DEF FlightInv
  <2>2. round < MaxRound
    BY <1>2, <2>1, Types, ClusterAssumption DEF IInv, ScenarioControlPlane
  <2>3. round' = round /\ run' = run /\ inFlight' = inFlight
    BY <1>2 DEF ScenarioControlPlane, ControlPlaneTurn
  <2> QED
    BY <1>2, <2>2, <2>3 DEF ScenarioControlPlane, FaultyNext, FlightInv, Faithful
<1>3. ASSUME NEW n \in Node, ScenarioNode(n)
      PROVE  [FaultyNext]_clusterVars /\ FlightInv' /\ Faithful'
  <2>1. run' = run /\ inFlight' = inFlight /\ NodeActs(n)
    BY <1>3 DEF ScenarioNode
  <2>2. round' = round
    BY <2>1 DEF NodeActs, SitOut, FillPipeline, CommitStage, HaltStage, NodeTurn
  <2> QED
    BY <2>1, <2>2 DEF FaultyNext, FlightInv, Faithful
<1>4. ASSUME NEW n \in Node, ScheduledCrash(n) \/ RandomCrash(n)
      PROVE  [FaultyNext]_clusterVars /\ FlightInv' /\ Faithful'
  <2>1. run' = run /\ inFlight' = inFlight /\ CrashNode(n)
    BY <1>4 DEF ScheduledCrash, RandomCrash
  <2>2. round' = round
    BY <2>1 DEF CrashNode
  <2> QED
    BY <2>1, <2>2 DEF FaultyNext, FlightInv, Faithful
<1>5. CASE UNCHANGED scenarioVars
  BY <1>5 DEF scenarioVars, clusterVars, FlightInv, Faithful
<1> QED
  BY <1>1, <1>2, <1>3, <1>4, <1>5 DEF ScenarioNext, ScenarioFinished

(* Every built-in scenario and every trial of the campaign, but for the scenario that
   corrupts a row, is the cluster under some losses and crashes: a packet that is late,
   doubled or labelled with another round is to receive() a lost one or one it has. *)
THEOREM ScenariosAreFaulty == ScenarioSpec /\ Faithful => FaultySpec
<1>1. ScenarioInit => ClusterInit /\ FlightInv
  BY DEF ScenarioInit, FlightInv
<1>2. ClusterInit => IInv
  BY InitIsGood
<1>3. IInv /\ FlightInv /\ Faithful /\ [ScenarioNext]_scenarioVars
        => [FaultyNext]_clusterVars /\ FlightInv' /\ Faithful'
  BY ScenarioStep
<1>4. IInv /\ [FaultyNext]_clusterVars => IInv'
  BY NextKeeps
<1> QED
  BY <1>1, <1>2, <1>3, <1>4, PTL DEF ScenarioSpec, FaultySpec

(* So whatever these fault models do, nodes never commit differently, leave no gap, let
   nobody back in, forget nobody and switch to no config a member has not acknowledged. *)
THEOREM ScenariosAreSafe ==
  ScenarioSpec /\ Faithful =>
    [](/\ NoConflictingCommits /\ GapsOnlyAtCutovers /\ NobodyComesBackWithinARun
       /\ NoStoppedNodeIsForgotten /\ CommittedConfigHasReachedItsMembers)
  BY ClusterIsSafe, Invariance, ScenariosAreFaulty, PTL

\* A trial of the campaign is over before there can be a cutover: it has 8 rounds
\* (random_campaign.py) where a cutover comes 10 after it is prepared (control_plane.py).
CampaignIsShort == \A r \in Runs : r.name = "random_campaign" => r.rounds <= CutoverSlack

\* What the campaign's runs keep.
TrialInv == IInv /\ FlightInv /\ FirstRunInv /\ cp.config = InitialConfig

(* A trial stays in its first run, unless the control plane ends it. *)
LEMMA TrialStep ==
  ASSUME Trial, TrialInv, [ScenarioNext]_scenarioVars,
         ScenarioControlPlane => cp'.config = cp.config
  PROVE  Trial' /\ TrialInv'
<1>1. run' = run
  BY DEF ScenarioNext, ScenarioControlPlane, ScenarioNode, ScheduledCrash, RandomCrash,
         AdvanceNetwork, ScenarioFinished, scenarioVars
<1>2. IInv /\ FlightInv /\ FirstRunInv /\ cp.config = InitialConfig /\ Faithful
  BY DEF TrialInv, Trial, Faithful
<1>3. [FaultyNext]_clusterVars /\ FlightInv'
  BY <1>2, ScenarioStep
<1>4. IInv' /\ FirstRunInv'
  BY <1>2, <1>3, NextKeeps, NextKeepsFirstRun
<1>5. cp'.config = cp.config
  <2>1. ASSUME NEW n \in Node, NodeActs(n) \/ CrashNode(n) PROVE cp'.config = cp.config
    <3>1. TakesTurn(n)
      BY <1>2, <2>1, SitOutKeeps, FillKeeps, CommitStageKeeps, HaltKeeps, CrashKeeps
      DEF NodeActs, Stops, Opens
    <3> QED
      BY <3>1 DEF TakesTurn
  <2>2. CASE AdvanceNetwork
    BY <2>2 DEF AdvanceNetwork, Deliver
  <2>3. CASE UNCHANGED scenarioVars
    BY <2>3 DEF scenarioVars, clusterVars
  <2> QED
    BY <2>1, <2>2, <2>3
    DEF ScenarioNext, ScenarioNode, ScheduledCrash, RandomCrash, ScenarioFinished
<1> QED
  BY <1>1, <1>2, <1>3, <1>4, <1>5 DEF TrialInv, Trial

(* It begins in it. *)
LEMMA TrialStarts ==
  ASSUME ScenarioInit
  PROVE  TrialInv
<1>1. ClusterInit /\ FlightInv
  BY DEF ScenarioInit, FlightInv
<1>2. cp.config = InitialConfig
  BY <1>1 DEF ClusterInit, InitialControlPlane
<1> QED
  BY <1>1, <1>2, InitIsGood, InitIsFirst DEF TrialInv

(* It is over before a cutover. *)
LEMMA ShortTrial ==
  ASSUME CampaignIsShort, Trial, TrialInv, ScenarioControlPlane
  PROVE  cp'.config = cp.config
<1>1. run.rounds \in 0 .. MaxRound /\ run.rounds <= CutoverSlack
  BY ScenariosAssumption DEF TrialInv, FlightInv, Trial, CampaignIsShort
<1>2. round < run.rounds /\ ControlPlaneTurn /\ round \in Nat
  BY Types, ClusterAssumption DEF ScenarioControlPlane, TrialInv, IInv
<1>3. round < MaxRound /\ ~(round >= CutoverSlack)
  BY <1>1, <1>2, Timing, ClusterAssumption
<1> QED
  BY <1>2, <1>3, ControlIs DEF TrialInv

(* In trials that short, of any number of nodes and any number of losses, delays, duplicates
   and crashes, safety_violations() of random_campaign.py counts no run as unsafe. *)
THEOREM CampaignIsClean ==
  CampaignIsShort => (ScenarioSpec => []CampaignFindsNoViolation)
<1> SUFFICES ASSUME CampaignIsShort PROVE ScenarioSpec => []CampaignFindsNoViolation
  OBVIOUS
<1> DEFINE Inv == Trial => TrialInv
<1>1. ScenarioInit => Inv
  BY TrialStarts
<1>2. Inv /\ [ScenarioNext]_scenarioVars => Inv'
  <2> SUFFICES ASSUME Inv, [ScenarioNext]_scenarioVars, Trial'
               PROVE  TrialInv'
    OBVIOUS
  <2>1. Trial
    BY DEF Trial, ScenarioNext, ScenarioControlPlane, ScenarioNode, ScheduledCrash,
           RandomCrash, AdvanceNetwork, ScenarioFinished, scenarioVars
  <2> QED
    BY <2>1, ShortTrial, TrialStep
<1>3. Inv => CampaignFindsNoViolation
  BY FirstRunIsClean DEF TrialInv, CampaignFindsNoViolation
<1> HIDE DEF Inv
<1> QED
  BY <1>1, <1>2, <1>3, PTL DEF ScenarioSpec

\* A trial is over before the first window can close: the last of its 8 rounds
\* (random_campaign.py) starts at 28, and a stop is known after 10 and collected for 20.
CampaignIsEarly ==
  \A r \in Runs : r.name = "random_campaign" =>
    r.rounds >= 2 /\ (r.rounds - 1) * RoundLength < HaltReportDelay + CollectionDelay

\* With one fault there is one node to which it has happened.
FaultsInv ==
  /\ faults \in Nat
  /\ faults = 0 => downed = {} /\ Uniform(None)
  /\ faults = 1 => \E v \in Node : downed \subseteq {v} /\ Uniform(v)

(* In such a trial the control plane does nothing. *)
LEMMA EarlyTrial ==
  ASSUME CampaignIsEarly, Trial, TrialInv, EarlyInv, ScenarioControlPlane
  PROVE  cp' = cp /\ EarlyInv'
<1>1. round < run.rounds /\ round \in Nat /\ run.rounds \in Nat /\ RoundLength \in Nat
  BY Timing, ScenariosAssumption, ClusterAssumption
  DEF ScenarioControlPlane, TrialInv, FlightInv, IInv, ClusterTypeOK
<1>2. (run.rounds - 1) * RoundLength < HaltReportDelay + CollectionDelay
  BY DEF CampaignIsEarly, Trial, TrialInv, FlightInv
<1>3. PICK r, last, len \in Nat : r = round /\ last = run.rounds - 1 /\ len = RoundLength
  BY <1>1
<1>4. r * len <= last * len
  <2>1. PICK d \in Nat : last = r + d
    BY <1>1, <1>3
  <2>2. last * len = r * len + d * len
    BY <2>1
  <2>3. r * len \in Nat /\ d * len \in Nat
    OBVIOUS
  <2> QED
    BY <2>2, <2>3
<1>5. PICK start, end, delays \in Nat :
        start = r * len /\ end = last * len /\ delays = HaltReportDelay + CollectionDelay
  BY Timing
<1>6. start < delays
  BY <1>2, <1>3, <1>4, <1>5
<1>7. RoundStart < HaltReportDelay + CollectionDelay
  BY <1>3, <1>5, <1>6 DEF RoundStart
<1> QED
  BY <1>7, ControlKeepsEarly DEF TrialInv, ScenarioControlPlane

(* A node that is crashed for the first time is the one. *)
LEMMA CrashKeepsFaults ==
  ASSUME Cardinality(Node) >= 3, Trial, TrialInv, FaultsInv,
         NEW n \in Node, ScheduledCrash(n) \/ RandomCrash(n)
  PROVE  FaultsInv'
<1>1. FirstRun /\ CrashNode(n)
  BY DEF TrialInv, FirstRun, ScheduledCrash, RandomCrash
<1>2. Uniform(n) => Uniform(n)'
  BY <1>1, TurnKeepsUniform
<1>3. CASE ScheduledCrash(n)
  <2>1. faults' = faults /\ downed' = downed /\ n \in downed
    BY <1>3 DEF ScheduledCrash, IsDown, Trial
  <2> QED
    BY <1>2, <2>1 DEF FaultsInv
<1>4. CASE RandomCrash(n)
  <2>1. faults' = faults + 1 /\ downed' = downed \cup {n} /\ faults \in Nat
    BY <1>4 DEF RandomCrash, FaultsInv
  <2>2. faults = 0 => downed' = {n} /\ Uniform(n)'
    BY <1>1, <1>2, <2>1, AnyVictim DEF FaultsInv, FirstRun
  <2>3. faults' # 0 /\ (faults' = 1 => faults = 0)
    BY <2>1
  <2> QED
    BY <2>1, <2>2, <2>3 DEF FaultsInv
<1> QED
  BY <1>3, <1>4

(* The receiver of the first packet a campaign picks is. *)
LEMMA AdvanceKeepsFaults ==
  ASSUME Trial, TrialInv, FaultsInv, AdvanceNetwork
  PROVE  FaultsInv'
<1>1. FirstRun /\ downed' = downed /\ faults \in Nat
  BY DEF TrialInv, FirstRun, AdvanceNetwork, FaultsInv
<1>2. PICK lost \in SUBSET (Node \X packets) : DeliverAllBut(lost) /\ Took(lost)
  BY AdvanceIsFaulty DEF TrialInv, Trial, Faithful
<1>3. PICK hit \in SUBSET Sent : /\ faults' = faults + Cardinality(hit)
                                /\ \A d \in lost : <<d[2], d[1]>> \in hit
  BY <1>2 DEF Took
<1>4. IsFiniteSet(hit) /\ Cardinality(hit) \in Nat
  <2>1. IsFiniteSet(packets \X Node)
    BY PacketsAreFinite, NodeAssumption, FS_Product DEF TrialInv
  <2>2. hit \in SUBSET (packets \X Node)
    BY DEF Sent
  <2> QED
    BY <2>1, <2>2, FS_Subset, FS_CardinalityType
<1>5. Cardinality(hit) = 0 => lost = {}
  BY <1>3, <1>4, FS_EmptySet
<1>6. ASSUME Cardinality(hit) = 1
      PROVE  \E v \in Node : \A d \in lost : d[1] = v
  <2>1. PICK s : hit = {s}
    BY <1>4, <1>6, FS_Singleton
  <2>2. s[2] \in Node
    BY <2>1 DEF Sent
  <2>3. \A d \in lost : d[1] = s[2]
    <3> TAKE d \in lost
    <3>1. <<d[2], d[1]>> = s
      BY <1>3, <2>1
    <3> QED
      BY <3>1
  <2> QED
    BY <2>2, <2>3
<1>7. \A v : (Uniform(v) /\ \A d \in lost : d[1] = v) => Uniform(v)'
  BY <1>1, <1>2, NetworkKeepsUniform
<1>8. CASE faults' = 0
  <2>1. faults = 0 /\ Cardinality(hit) = 0
    BY <1>1, <1>3, <1>4, <1>8
  <2> QED
    BY <1>1, <1>5, <1>7, <1>8, <2>1 DEF FaultsInv
<1>9. CASE faults' = 1
  <2>1. \/ faults = 1 /\ Cardinality(hit) = 0
        \/ faults = 0 /\ Cardinality(hit) = 1
    BY <1>1, <1>3, <1>4, <1>9
  <2>2. CASE faults = 1 /\ Cardinality(hit) = 0
    BY <1>1, <1>5, <1>7, <1>9, <2>2 DEF FaultsInv
  <2>3. CASE faults = 0 /\ Cardinality(hit) = 1
    <3>1. PICK v \in Node : \A d \in lost : d[1] = v
      BY <1>6, <2>3
    <3>2. Uniform(v)
      BY <1>1, <2>3, AnyVictim DEF FaultsInv, FirstRun
    <3> QED
      BY <1>1, <1>7, <1>9, <2>3, <3>1, <3>2 DEF FaultsInv
  <2> QED
    BY <2>1, <2>2, <2>3
<1> QED
  BY <1>1, <1>3, <1>4, <1>8, <1>9 DEF FaultsInv

(* So the faults are accounted for. *)
LEMMA TrialKeepsFaults ==
  ASSUME Cardinality(Node) >= 3, CampaignIsEarly, Trial, TrialInv, EarlyInv, FaultsInv,
         [ScenarioNext]_scenarioVars
  PROVE  /\ EarlyInv' /\ FaultsInv'
         /\ ScenarioControlPlane => cp'.config = cp.config
<1>1. FirstRun
  BY DEF TrialInv, FirstRun
<1>2. ASSUME ScenarioControlPlane PROVE EarlyInv' /\ FaultsInv'
  <2>1. cp' = cp /\ EarlyInv' /\ ControlPlaneTurn /\ faults' = faults /\ downed' = downed
    BY <1>2, EarlyTrial DEF ScenarioControlPlane
  <2>2. /\ nodes' = nodes /\ packets' = packets /\ round' = round
        /\ turn = ControlTurn /\ turn' = 0
    BY <2>1 DEF ControlPlaneTurn
  <2>3. \A n \in Node : Turned(n)' <=> Turned(n)
    BY <2>2, Turns DEF Turned, ControlTurn
  <2>4. \A v : Uniform(v) => Uniform(v)'
    BY <2>1, <2>2, <2>3, SameIsUniform
  <2> QED
    BY <2>1, <2>4 DEF FaultsInv
<1>3. ASSUME NEW n \in Node, ScenarioNode(n) PROVE EarlyInv' /\ FaultsInv'
  <2>1. NodeActs(n) /\ faults' = faults /\ downed' = downed
    BY <1>3 DEF ScenarioNode
  <2>2. \A v : Uniform(v) => Uniform(v)'
    BY <1>1, <2>1, TurnKeepsUniform
  <2>3. EarlyInv'
    BY <1>1, <2>1, TurnKeepsEarly DEF FirstRun
  <2> QED
    BY <2>1, <2>2, <2>3 DEF FaultsInv
<1>4. ASSUME NEW n \in Node, ScheduledCrash(n) \/ RandomCrash(n)
      PROVE  EarlyInv' /\ FaultsInv'
  <2>1. CrashNode(n)
    BY <1>4 DEF ScheduledCrash, RandomCrash
  <2> QED
    BY <1>1, <1>4, <2>1, CrashKeepsFaults, TurnKeepsEarly DEF FirstRun
<1>5. ASSUME AdvanceNetwork PROVE EarlyInv' /\ FaultsInv'
  <2>1. \E lost : DeliverAllBut(lost)
    BY <1>5, AdvanceIsFaulty DEF TrialInv, Trial, Faithful
  <2> QED
    BY <1>1, <1>5, <2>1, AdvanceKeepsFaults, NetworkKeepsEarly DEF FirstRun
<1>6. ASSUME UNCHANGED scenarioVars PROVE EarlyInv' /\ FaultsInv'
  <2>1. /\ faults' = faults /\ downed' = downed /\ nodes' = nodes /\ cp' = cp
        /\ round' = round /\ turn' = turn /\ packets' = packets
    BY <1>6 DEF scenarioVars, clusterVars
  <2>2. \A n \in Node : Turned(n)' <=> Turned(n)
    BY <2>1 DEF Turned
  <2>3. \A v : Uniform(v) => Uniform(v)'
    BY <2>1, <2>2, SameIsUniform
  <2> QED
    BY <2>1, <2>3 DEF EarlyInv, FaultsInv
<1>7. ScenarioControlPlane => cp'.config = cp.config
  BY EarlyTrial
<1> QED
  BY <1>2, <1>3, <1>4, <1>5, <1>6, <1>7 DEF ScenarioNext, ScenarioFinished

(* Who is not the one runs. *)
LEMMA OneStops ==
  ASSUME NEW v, Uniform(v)
  PROVE  TrialSummary.haltedNodes + TrialSummary.crashedNodes <= 1
<1> DEFINE with(status) == {n \in Node : nodes[n].status = status}
<1>1. \A n \in Node : n # v => nodes[n].status = "RUNNING"
  BY DEF Uniform, Alike, AlikeAt, Going, Live
<1>2. PICK H, C \in SUBSET {v} : /\ H = with("HALTED") /\ C = with("CRASHED")
                                 /\ H = {} \/ C = {}
  <2>1. with("HALTED") \in SUBSET {v} /\ with("CRASHED") \in SUBSET {v}
    BY <1>1
  <2>2. \A n : ~(n \in with("HALTED") /\ n \in with("CRASHED"))
    OBVIOUS
  <2> HIDE DEF with
  <2>3. with("HALTED") = {} \/ with("CRASHED") = {}
    BY <2>1, <2>2
  <2> QED
    BY <2>1, <2>3
<1>3. ASSUME NEW S \in SUBSET {v} PROVE Cardinality(S) \in Nat /\ Cardinality(S) <= 1
  <2>1. IsFiniteSet({v}) /\ Cardinality({v}) = 1
    BY FS_Singleton
  <2>2. IsFiniteSet(S) /\ Cardinality(S) <= Cardinality({v})
    BY <2>1, FS_Subset
  <2> QED
    BY <2>1, <2>2, FS_CardinalityType
<1> HIDE DEF with
<1>4. PICK h, c \in Nat : /\ h = Cardinality(H) /\ c = Cardinality(C)
                          /\ h <= 1 /\ c <= 1 /\ (h = 0 \/ c = 0)
  <2>1. Cardinality(H) = 0 \/ Cardinality(C) = 0
    BY <1>2, FS_EmptySet
  <2> QED
    BY <1>3, <2>1
<1>5. h + c <= 1
  BY <1>4
<1>6. /\ TrialSummary.haltedNodes = Cardinality(with("HALTED"))
      /\ TrialSummary.crashedNodes = Cardinality(with("CRASHED"))
  BY DEF TrialSummary, with
<1> QED
  BY <1>2, <1>4, <1>5, <1>6

(* Of three nodes or more, whatever single packet is lost, late or doubled, or whichever node
   crashes, one node at most stops, and the others commit all that can be judged. *)
THEOREM OneFaultIsTolerated ==
  Cardinality(Node) >= 3 /\ CampaignIsEarly => (ScenarioSpec => []OneFaultStopsOneNode)
<1> SUFFICES ASSUME Cardinality(Node) >= 3, CampaignIsEarly
             PROVE  ScenarioSpec => []OneFaultStopsOneNode
  OBVIOUS
<1> DEFINE Inv == Trial => TrialInv /\ EarlyInv /\ FaultsInv
<1>1. ScenarioInit => Inv
  <2> SUFFICES ASSUME ScenarioInit PROVE TrialInv /\ EarlyInv /\ FaultsInv
    OBVIOUS
  <2>1. ClusterInit /\ faults = 0 /\ downed = {}
    BY DEF ScenarioInit
  <2> QED
    BY <2>1, TrialStarts, InitEarly, InitUniform DEF FaultsInv
<1>2. Inv /\ [ScenarioNext]_scenarioVars => Inv'
  <2> SUFFICES ASSUME Inv, [ScenarioNext]_scenarioVars, Trial'
               PROVE  (TrialInv /\ EarlyInv /\ FaultsInv)'
    OBVIOUS
  <2>1. Trial
    BY DEF Trial, ScenarioNext, ScenarioControlPlane, ScenarioNode, ScheduledCrash,
           RandomCrash, AdvanceNetwork, ScenarioFinished, scenarioVars
  <2> QED
    BY <2>1, TrialKeepsFaults, TrialStep
<1>3. Inv => OneFaultStopsOneNode
  <2> SUFFICES ASSUME Inv, Trial, faults <= 1 PROVE OneFaultStopsOneNode
    BY DEF OneFaultStopsOneNode
  <2>1. IInv /\ FirstRunInv /\ cp.config = InitialConfig /\ EarlyInv /\ FaultsInv
    BY DEF TrialInv
  <2>2. PICK v : Uniform(v)
    BY <2>1 DEF FaultsInv
  <2>3. TrialSummary.haltedNodes + TrialSummary.crashedNodes <= 1
    BY <2>2, OneStops
  <2>4. ASSUME AtEnd, NEW n \in Node, nodes[n].status = "RUNNING"
        PROVE  TrialSummary.committedCounts[n] = run.rounds - 2
    <3>1. run.rounds >= 2
      BY DEF CampaignIsEarly, Trial, TrialInv, FlightInv
    <3>2. round = run.rounds /\ turn = ControlTurn
      BY <2>4 DEF AtEnd
    <3>3. Len(history[n]) = run.rounds - 2
      BY <2>1, <2>4, <3>1, <3>2, RunningIsFilled
    <3> QED
      BY <3>3 DEF TrialSummary
  <2> HIDE DEF Inv
  <2> QED
    BY <2>3, <2>4 DEF OneFaultStopsOneNode
<1> HIDE DEF Inv
<1> QED
  BY <1>1, <1>2, <1>3, PTL DEF ScenarioSpec

=============================================================================
