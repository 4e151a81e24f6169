------------------------------- MODULE FastPath -------------------------------
(***************************************************************************)
(* The fast path of one run: the nodes of sim/protocol/node.py between two *)
(* cutovers of the control plane, driven round by round as                 *)
(* sim/runtime/cluster.py drives them, over a network that loses,          *)
(* duplicates, delays and (up to MaxCorrupt times) corrupts packets.       *)
(*                                                                         *)
(* A stage lives two rounds.  In round r it is a node's `current` stage    *)
(* and collects proposals, so current.row is the set of peers heard in r;  *)
(* in round r + 1 it is the `previous` stage and collects the rows that    *)
(* the peers' round r + 1 packets carry, each peer's observation of round  *)
(* r.  The boundary into round r + 2 judges it.                            *)
(*                                                                         *)
(* Abstractions, and why they lose nothing here:                           *)
(*  - bitmaps are sets of nodes;                                           *)
(*  - payload_factory(node_id, round_id) is deterministic, so the payload  *)
(*    of a proposal is identified by the round it was made in;             *)
(*  - within a run the installed config and run_id do not change, so the   *)
(*    run_id filter of receive() always passes and the two control-plane   *)
(*    calls at the top of advance_round() find nothing to do;              *)
(*  - `sent` only grows: a packet may be received at any later time (a     *)
(*    delay), again (a duplicate) or never (a loss).  receive() changes    *)
(*    nothing for a packet it ignores, so only accepted ones are steps;    *)
(*  - a crash may come between any two steps of the node; the simulator    *)
(*    crashes nodes at round boundaries only.                              *)
(***************************************************************************)
EXTENDS SoundMatrix

CONSTANTS
  MaxRound,    \* bound: the last round that is started
  MaxCrash,    \* bound: how many nodes may crash
  MaxCorrupt,  \* bound: how many deliveries carry a corrupted row
  Lossy        \* FALSE: no round ends before its packets are received

ASSUME FastPathAssumption ==
  /\ MaxRound \in Nat
  /\ MaxCrash \in Nat
  /\ MaxCorrupt \in Nat
  /\ Lossy \in BOOLEAN

VARIABLES
  round,       \* current_round; -1 before the first advance_round()
  status,      \* NodeStatus
  haltVerdict, \* the halt_reason of the node's HaltRecord, "commit" if none
  soundSet,    \* current_sound_set: whose evidence this node still counts
  current,     \* current_stage
  previous,    \* previous_stage
  frontier,    \* committed_frontier
  log,         \* ClusterRun.commit_history_by_node
  sent,        \* every packet ever broadcast
  corrupted    \* deliveries whose row the network has overwritten

vars == <<round, status, haltVerdict, soundSet, current, previous, frontier,
          log, sent, corrupted>>

Rounds == 0 .. MaxRound

Payloads == Rounds \cup {NoProposal}

Stages == [round : Rounds \cup {-1},
           row : SUBSET Node,
           proposals : [Node -> Payloads],
           rows : [Node -> SUBSET Node]]

Packets == [round : Rounds, src : Node, row : SUBSET Node, payload : Rounds]

CommittedRounds == [round : Rounds,
                    commitSet : SUBSET Node,
                    proposals : [Node -> Payloads]]

EmptyStage ==
  [round |-> -1, row |-> {},
   proposals |-> [m \in Node |-> NoProposal],
   rows |-> [m \in Node |-> {}]]

\* The stage a node opens for round r: so far it has heard only itself.
NewStage(n, r) ==
  [round |-> r, row |-> {n},
   proposals |-> [m \in Node |-> IF m = n THEN r ELSE NoProposal],
   rows |-> [m \in Node |-> {}]]

\* A proposal arrives: stage.row and stage.proposals.
Heard(stage, p) == [stage EXCEPT !.row = @ \cup {p.src},
                                 !.proposals[p.src] = p.payload]

\* An observation of the stage's round arrives: stage.rows.
WithRow(stage, src, row) == [stage EXCEPT !.rows[src] = row]

\* MUTANT: the sound set is committed in place of the agreed row.
CommittedSoundSet(n, stage) ==
  LET members == SoundSet(n, Node, stage.rows)
  IN  [round |-> stage.round,
       commitSet |-> members,
       proposals |-> [m \in Node |-> IF m \in members THEN stage.proposals[m]
                                                      ELSE NoProposal]]

\* The record a node commits for a stage: the agreed row and its payloads.
Committed(n, stage) ==
  LET members == AgreedRow(n, stage.rows)
  IN  [round |-> stage.round,
       commitSet |-> members,
       proposals |-> [m \in Node |-> IF m \in members THEN stage.proposals[m]
                                                      ELSE NoProposal]]

\* MUTANT: `round_id <= 0` for `round_id < 0`.
PipelineFullAfterRoundZero(n) == previous[n].round > 0

\* There is a stage to judge.
PipelineFull(n) == previous[n].round >= 0

StageVerdict(n) ==
  Verdict(n, Node, previous[n].rows, previous[n].proposals, soundSet[n])

Init ==
  /\ round = [n \in Node |-> -1]
  /\ status = [n \in Node |-> "RUNNING"]
  /\ haltVerdict = [n \in Node |-> "commit"]
  /\ soundSet = [n \in Node |-> Node]
  /\ current = [n \in Node |-> EmptyStage]
  /\ previous = [n \in Node |-> EmptyStage]
  /\ frontier = [n \in Node |-> -1]
  /\ log = [n \in Node |-> {}]
  /\ sent = {}
  /\ corrupted = 0

-----------------------------------------------------------------------------
(* The round boundary, advance_round(). *)

Participates(n) == status[n] = "RUNNING" /\ n \in soundSet[n]

\* Every packet of n's round that n would count has reached it.
RoundDelivered(n) ==
  \A p \in sent :
    (p.round = round[n] /\ p.src \in soundSet[n]) => p.src \in current[n].row

\* cluster.run() starts a round on every node before the network delivers it
\* and before any node starts the next one.
BoundaryDue(n) ==
  /\ round[n] < MaxRound
  /\ \A m \in Node : round[m] >= round[n]
  /\ Lossy \/ ~Participates(n) \/ RoundDelivered(n)

\* MUTANT: the node's own row is never filed.
ShiftWithoutOwnRow(n) ==
  /\ round' = [round EXCEPT ![n] = @ + 1]
  /\ previous' = [previous EXCEPT ![n] = current[n]]
  /\ current' = [current EXCEPT ![n] = NewStage(n, round[n] + 1)]

\* The two stage buffers shift; the stage that becomes previous gets the
\* node's own observation as its own row.
Shift(n) ==
  /\ round' = [round EXCEPT ![n] = @ + 1]
  /\ previous' = [previous EXCEPT ![n] = WithRow(current[n], n, current[n].row)]
  /\ current' = [current EXCEPT ![n] = NewStage(n, round[n] + 1)]

\* The packet of the new round: its proposal, and what the round just ended
\* let the node observe.
Broadcast(n) ==
  sent' = sent \cup {[round |-> round[n] + 1, src |-> n,
                      row |-> current[n].row, payload |-> round[n] + 1]}

\* A node that does not run, or that has lost its own seat, only keeps count.
SitOut(n) ==
  /\ BoundaryDue(n)
  /\ ~Participates(n)
  /\ round' = [round EXCEPT ![n] = @ + 1]
  /\ UNCHANGED <<status, haltVerdict, soundSet, current, previous, frontier,
                 log, sent, corrupted>>

\* The pipeline is still filling: there is no stage to judge.
FillPipeline(n) ==
  /\ BoundaryDue(n)
  /\ Participates(n)
  /\ ~PipelineFull(n)
  /\ Shift(n)
  /\ Broadcast(n)
  /\ UNCHANGED <<status, haltVerdict, soundSet, frontier, log, corrupted>>

\* The judged stage is committed and the node goes on.
CommitStage(n) ==
  /\ BoundaryDue(n)
  /\ Participates(n)
  /\ PipelineFull(n)
  /\ StageVerdict(n) = "commit"
  /\ log' = [log EXCEPT ![n] = @ \cup {Committed(n, previous[n])}]
  /\ frontier' = [frontier EXCEPT ![n] = previous[n].round]
  /\ soundSet' = [soundSet EXCEPT ![n] = SoundSet(n, Node, previous[n].rows)]
  /\ Shift(n)
  /\ Broadcast(n)
  /\ UNCHANGED <<status, haltVerdict, corrupted>>

\* The judged stage is refused: the node halts and sends nothing.
HaltStage(n) ==
  /\ BoundaryDue(n)
  /\ Participates(n)
  /\ PipelineFull(n)
  /\ StageVerdict(n) # "commit"
  /\ status' = [status EXCEPT ![n] = "HALTED"]
  /\ haltVerdict' = [haltVerdict EXCEPT ![n] = StageVerdict(n)]
  /\ Shift(n)
  /\ UNCHANGED <<soundSet, frontier, log, sent, corrupted>>

-----------------------------------------------------------------------------
(* The network and the faults. *)

\* MUTANT: a late packet counts for the round it arrives in.
AcceptsLate(n, p) ==
  /\ status[n] = "RUNNING"
  /\ p.src # n
  /\ p.src \in soundSet[n]
  /\ p.round <= round[n]

\* MUTANT: nodes outside the sound set are still listened to.
AcceptsFromAnyone(n, p) ==
  /\ status[n] = "RUNNING"
  /\ p.src # n
  /\ p.round = round[n]

Accepts(n, p) ==
  /\ status[n] = "RUNNING"
  /\ p.src # n
  /\ p.src \in soundSet[n]
  /\ p.round = round[n]

\* receive(): a current-round packet is a proposal for the current stage and,
\* by the row it carries, evidence about the previous one.
Record(n, p, row) ==
  /\ current' = [current EXCEPT ![n] = Heard(@, p)]
  /\ previous' = [previous EXCEPT ![n] = WithRow(@, p.src, row)]

Receive(n, p) ==
  /\ Accepts(n, p)
  /\ Record(n, p, p.row)
  /\ UNCHANGED <<round, status, haltVerdict, soundSet, frontier, log, sent,
                 corrupted>>

\* The network overwrites the row of one delivery (Delivery.row_override).
ReceiveCorrupted(n, p, row) ==
  /\ corrupted < MaxCorrupt
  /\ Accepts(n, p)
  /\ row # p.row
  /\ Record(n, p, row)
  /\ corrupted' = corrupted + 1
  /\ UNCHANGED <<round, status, haltVerdict, soundSet, frontier, log, sent>>

Crashed == {n \in Node : status[n] = "CRASHED"}

Crash(n) ==
  /\ status[n] = "RUNNING"
  /\ Cardinality(Crashed) < MaxCrash
  /\ status' = [status EXCEPT ![n] = "CRASHED"]
  /\ UNCHANGED <<round, haltVerdict, soundSet, current, previous, frontier,
                 log, sent, corrupted>>

\* cluster.run() has done its last round.
Finished ==
  /\ \A n \in Node : round[n] = MaxRound
  /\ UNCHANGED vars

Next ==
  \/ \E n \in Node : SitOut(n)
  \/ \E n \in Node : FillPipeline(n)
  \/ \E n \in Node : CommitStage(n)
  \/ \E n \in Node : HaltStage(n)
  \/ \E n \in Node, p \in sent : Receive(n, p)
  \/ \E n \in Node, p \in sent, row \in SUBSET Node : ReceiveCorrupted(n, p, row)
  \/ \E n \in Node : Crash(n)
  \/ Finished

Spec == Init /\ [][Next]_vars

\* The simulator's loop runs every node in every round, and a network without
\* loss hands over each packet of the round.
Boundary(n) == SitOut(n) \/ FillPipeline(n) \/ CommitStage(n) \/ HaltStage(n)

FairSpec ==
  /\ Spec
  /\ \A n \in Node : WF_vars(Boundary(n))
  /\ \A n \in Node : WF_vars(\E p \in sent : Receive(n, p))

-----------------------------------------------------------------------------
(* Properties. *)

\* Every variable keeps its type; in particular no round is started past the
\* last one and a stage never holds a payload no node has proposed.
TypeOK ==
  /\ round \in [Node -> Rounds \cup {-1}]
  /\ status \in [Node -> {"RUNNING", "HALTED", "CRASHED"}]
  /\ haltVerdict \in [Node -> Verdicts]
  /\ soundSet \in [Node -> SUBSET Node]
  /\ current \in [Node -> Stages]
  /\ previous \in [Node -> Stages]
  /\ frontier \in [Node -> Rounds \cup {-1}]
  /\ log \in [Node -> SUBSET CommittedRounds]
  /\ sent \subseteq Packets
  /\ corrupted \in 0 .. MaxCorrupt

\* The agreement the tests assert as assert_no_conflicting_committed_rounds
\* (tests/test_safety_invariants.py): whatever packets the network loses,
\* repeats or delivers late, two nodes that commit the same round commit the
\* same members with the same payloads.
NoConflictingCommits ==
  \A n, m \in Node : \A e \in log[n], f \in log[m] : e.round = f.round => e = f

\* A node commits a round only on evidence: a quorum of the physical nodes
\* really broadcast, one round later, the very row that was committed.  The
\* row a node files under a stage was meant for that stage (receive()).
CommittedRowsAreWitnessed ==
  \A n \in Node : \A e \in log[n] :
    \E Q \in SUBSET Node :
      /\ Cardinality(Q) >= Quorum
      /\ \A w \in Q : \E p \in sent :
           p.src = w /\ p.round = e.round + 1 /\ p.row = e.commitSet

\* Within a run a node commits every round from 0 to its frontier, none of them
\* twice (assert_each_node_commits_a_contiguous_prefix): no stage is dropped
\* by the two-buffer pipeline, and a node that stops leaves no hole.
ContiguousCommits ==
  \A n \in Node :
    /\ {e.round : e \in log[n]} = 0 .. frontier[n]
    /\ \A e, f \in log[n] : e.round = f.round => e = f

\* A node that once missed from a committed round is in no later one: the
\* sound set filter of receive() cuts a silent peer off before the peer's next
\* proposal could be counted, although the verdict lags two rounds behind.
\* Round 1 is the exception: it is collected before round 0 has been judged.
CommitSetsShrink ==
  \A n \in Node : \A e, f \in log[n] :
    (e.round < f.round /\ f.round >= 2) => f.commitSet \subseteq e.commitSet

\* The nodes' logs are prefixes of one log (CommitLog): entry r + 1 of the
\* decision is what the nodes that committed round r committed.
DecisionOf(logs) ==
  LET all == UNION {logs[n] : n \in Node}
  IN  [k \in 1 .. Cardinality({e.round : e \in all}) |->
         (CHOOSE e \in all : e.round = k - 1).commitSet]

Decision == DecisionOf(log)

Abstract == INSTANCE CommitLog WITH
  decision <- Decision,
  applied <- [n \in Node |-> frontier[n] + 1]

ImplementsCommitLog == Abstract!Spec

\* Without loss a node halts for nobody's crash: as long as a majority is left,
\* the crashed nodes' missing rows cost no survivor its agreed row.
NoHaltWithoutLoss ==
  (~Lossy /\ 2 * Cardinality(Crashed) < Cardinality(Node)) =>
    \A n \in Node : status[n] # "HALTED"

\* Without loss every node that does not crash ends up with every round
\* committed that had the two rounds after it to be judged in.
HealthyNodesCommitEverything ==
  <>[](\A n \in Node : status[n] # "CRASHED" => frontier[n] = MaxRound - 2)

-----------------------------------------------------------------------------
(* The inductive invariant behind agreement, when no row is corrupted. *)

\* A node broadcasts once per round, and never for a round to come.
SentInv ==
  /\ \A p \in sent : p.round <= round[p.src] /\ p.payload = p.round
  /\ \A p, q \in sent : (p.src = q.src /\ p.round = q.round) => p = q

\* The payloads of a stage are those its row announces, all of its round.
ProposalsMatchRow(stage) ==
  \A m \in Node :
    stage.proposals[m] = IF m \in stage.row THEN stage.round ELSE NoProposal

\* Every row filed under the previous stage is one its sender broadcast in the
\* round after the stage's, that is, in the current round.
RowsAreEvidence(n) ==
  \A w \in Node : previous[n].rows[w] # {} =>
    \E p \in sent : /\ p.src = w
                    /\ p.round = round[n]
                    /\ p.row = previous[n].rows[w]

\* What a running node's two buffers hold.
PipelineInv(n) == status[n] = "RUNNING" =>
  /\ current[n].round = round[n]
  /\ previous[n].round = IF round[n] >= 1 THEN round[n] - 1 ELSE -1
  /\ previous[n].rows[n] = previous[n].row
  /\ \A m \in Node : current[n].rows[m] = {}
  /\ ProposalsMatchRow(current[n])
  /\ ProposalsMatchRow(previous[n])
  /\ RowsAreEvidence(n)

\* A log entry is determined by its round and its members.
LogInv ==
  \A n \in Node : \A e \in log[n] :
    e.proposals = [m \in Node |-> IF m \in e.commitSet THEN e.round
                                                       ELSE NoProposal]

AgreementInv ==
  /\ TypeOK
  /\ SentInv
  /\ \A n \in Node : n \in soundSet[n]
  /\ \A n \in Node : PipelineInv(n)
  /\ LogInv
  /\ CommittedRowsAreWitnessed

-----------------------------------------------------------------------------
(* The inductive invariant behind contiguous logs and shrinking commit sets, *)
(* whatever the network corrupts.                                            *)

\* The two buffers of a running node are one and two rounds ahead of its log.
InStep(n) ==
  /\ current[n].round = round[n]
  /\ previous[n].round = (IF round[n] >= 1 THEN round[n] - 1 ELSE -1)
  /\ frontier[n] = (IF round[n] >= 2 THEN round[n] - 2 ELSE -1)
  /\ previous[n].rows[n] = previous[n].row
  /\ \A m \in Node : current[n].rows[m] = {}

\* Whom a running node hears, and whom it still counts, was in each stage it has
\* judged and in the one it is about to judge: a peer whose row is missing from a
\* stage has not been heard in the round after it either.
CutsOff(n) ==
  /\ current[n].row \subseteq soundSet[n]
  /\ \A m \in Node : previous[n].rows[m] # {} => m \in current[n].row
  /\ frontier[n] >= 0 =>
       /\ soundSet[n] \subseteq previous[n].row
       /\ \A e \in log[n] : e.round = frontier[n] => soundSet[n] \subseteq e.commitSet
  /\ previous[n].round >= 2 =>
       \A e \in log[n] : previous[n].row \subseteq e.commitSet

LogsInv ==
  /\ TypeOK
  /\ \A n \in Node : n \in soundSet[n]
  /\ \A n \in Node : status[n] = "RUNNING" => InStep(n) /\ CutsOff(n)
  /\ ContiguousCommits
  /\ CommitSetsShrink
=============================================================================
