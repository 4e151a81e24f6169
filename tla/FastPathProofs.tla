---------------------------- MODULE FastPathProofs ----------------------------
(***************************************************************************)
(* Theorems about FastPath, for any finite set of nodes and any bounds.    *)
(***************************************************************************)
EXTENDS FastPath, FiniteSetTheorems, SequenceTheorems, TLAPS

(* Two majorities of the physical cluster share a node (_quorum()). *)
LEMMA QuorumsIntersect ==
  ASSUME NEW P \in SUBSET Node, NEW Q \in SUBSET Node,
         Cardinality(P) >= Quorum, Cardinality(Q) >= Quorum
  PROVE  P \cap Q # {}
<1>1. IsFiniteSet(P) /\ IsFiniteSet(Q)
  BY NodeAssumption, FS_Subset
<1>2. Cardinality(P) \in Nat /\ Cardinality(Q) \in Nat /\ Cardinality(Node) \in Nat
  BY <1>1, NodeAssumption, FS_CardinalityType
<1>3. Cardinality(P) + Cardinality(Q) > Cardinality(Node)
  BY <1>2 DEF Quorum
<1> QED
  BY <1>3, NodeAssumption, FS_MajoritiesIntersect

-----------------------------------------------------------------------------
(* What the stage operators return. *)

(* A node starts with a stage that is a stage. *)
LEMMA EmptyStageType == EmptyStage \in Stages
  BY DEF EmptyStage, Stages, Payloads

(* So is the one it opens for a round. *)
LEMMA NewStageType ==
  ASSUME NEW n \in Node, NEW r \in Rounds
  PROVE  NewStage(n, r) \in Stages
  BY DEF NewStage, Stages, Payloads

(* A proposal leaves a stage a stage. *)
LEMMA HeardType ==
  ASSUME NEW stage \in Stages, NEW p \in Packets
  PROVE  Heard(stage, p) \in Stages
  BY DEF Heard, Stages, Packets, Payloads

(* So does a row. *)
LEMMA WithRowType ==
  ASSUME NEW stage \in Stages, NEW src \in Node, NEW row \in SUBSET Node
  PROVE  WithRow(stage, src, row) \in Stages
  BY DEF WithRow, Stages

(* A judged stage yields a log entry; only one with a round is judged. *)
LEMMA CommittedType ==
  ASSUME NEW n \in Node, NEW stage \in Stages, stage.round >= 0
  PROVE  Committed(n, stage) \in CommittedRounds
<1>1. stage.round \in Rounds
  BY DEF Stages, Rounds
<1>2. stage.rows[n] \in SUBSET Node
  BY DEF Stages
<1>3. \A m \in Node : stage.proposals[m] \in Payloads
  BY DEF Stages
<1> QED
  BY <1>1, <1>2, <1>3 DEF Committed, AgreedRow, CommittedRounds, Payloads

(* _evaluate_round_boundary() has no other verdicts. *)
LEMMA VerdictType == \A n \in Node : StageVerdict(n) \in Verdicts
  BY DEF StageVerdict, Verdict, Verdicts

-----------------------------------------------------------------------------
(* Type correctness. *)

(* Rotating the buffers keeps their types. *)
LEMMA ShiftType ==
  ASSUME NEW n \in Node, TypeOK, round[n] < MaxRound, Shift(n)
  PROVE  /\ round' \in [Node -> Rounds \cup {-1}]
         /\ current' \in [Node -> Stages]
         /\ previous' \in [Node -> Stages]
<1>1. round[n] + 1 \in Rounds
  BY FastPathAssumption DEF TypeOK, Rounds
<1>2. current[n] \in Stages /\ current[n].row \in SUBSET Node
  BY DEF TypeOK, Stages
<1>3. NewStage(n, round[n] + 1) \in Stages
  BY <1>1, NewStageType
<1>4. WithRow(current[n], n, current[n].row) \in Stages
  BY <1>2, WithRowType
<1> QED
  BY <1>1, <1>3, <1>4 DEF TypeOK, Shift

(* The packet of a new round is of a round that exists. *)
LEMMA BroadcastType ==
  ASSUME NEW n \in Node, TypeOK, round[n] < MaxRound, Broadcast(n)
  PROVE  sent' \subseteq Packets
<1>1. round[n] + 1 \in Rounds
  BY FastPathAssumption DEF TypeOK, Rounds
<1>2. current[n].row \in SUBSET Node
  BY DEF TypeOK, Stages
<1> QED
  BY <1>1, <1>2 DEF TypeOK, Broadcast, Packets

(* receive() keeps the types of the two buffers, for a corrupted row too. *)
LEMMA RecordType ==
  ASSUME NEW n \in Node, NEW p \in sent, NEW row \in SUBSET Node, TypeOK,
         Record(n, p, row)
  PROVE  current' \in [Node -> Stages] /\ previous' \in [Node -> Stages]
<1>1. p \in Packets /\ p.src \in Node
  BY DEF TypeOK, Packets
<1>2. Heard(current[n], p) \in Stages
  BY <1>1, HeardType DEF TypeOK
<1>3. WithRow(previous[n], p.src, row) \in Stages
  BY <1>1, WithRowType DEF TypeOK
<1> QED
  BY <1>2, <1>3 DEF TypeOK, Record

(* Every variable keeps its type through every handler: no stage, packet or
   log entry of a round past MaxRound is ever made, and a corrupted delivery
   still files a row of nodes. *)
THEOREM TypeCorrect == Spec => []TypeOK
<1>1. Init => TypeOK
  BY EmptyStageType, FastPathAssumption
  DEF Init, TypeOK, Verdicts, Rounds
<1>2. TypeOK /\ [Next]_vars => TypeOK'
  <2> SUFFICES ASSUME TypeOK, [Next]_vars
               PROVE  TypeOK'
    OBVIOUS
  <2>1. ASSUME NEW n \in Node, SitOut(n)
        PROVE  TypeOK'
    <3>1. round[n] + 1 \in Rounds
      BY <2>1, FastPathAssumption DEF TypeOK, Rounds, SitOut, BoundaryDue
    <3> QED
      BY <2>1, <3>1 DEF TypeOK, SitOut
  <2>2. ASSUME NEW n \in Node, FillPipeline(n)
        PROVE  TypeOK'
    BY <2>2, ShiftType, BroadcastType DEF TypeOK, FillPipeline, BoundaryDue
  <2>3. ASSUME NEW n \in Node, CommitStage(n)
        PROVE  TypeOK'
    <3>1. previous[n] \in Stages /\ previous[n].round \in Rounds
      BY <2>3 DEF TypeOK, CommitStage, PipelineFull, Stages, Rounds
    <3>2. Committed(n, previous[n]) \in CommittedRounds
      BY <2>3, <3>1, CommittedType DEF CommitStage, PipelineFull
    <3>3. log' \in [Node -> SUBSET CommittedRounds]
      BY <2>3, <3>2 DEF TypeOK, CommitStage
    <3>4. soundSet' \in [Node -> SUBSET Node]
      BY <2>3 DEF TypeOK, CommitStage, SoundSet, Witnesses
    <3>5. frontier' \in [Node -> Rounds \cup {-1}]
      BY <2>3, <3>1 DEF TypeOK, CommitStage
    <3> QED
      BY <2>3, <3>3, <3>4, <3>5, ShiftType, BroadcastType
      DEF TypeOK, CommitStage, BoundaryDue
  <2>4. ASSUME NEW n \in Node, HaltStage(n)
        PROVE  TypeOK'
    BY <2>4, VerdictType, ShiftType DEF TypeOK, HaltStage, BoundaryDue
  <2>5. ASSUME NEW n \in Node, NEW p \in sent, Receive(n, p)
        PROVE  TypeOK'
    <3>1. p.row \in SUBSET Node
      BY DEF TypeOK, Packets
    <3> QED
      BY <2>5, <3>1, RecordType DEF TypeOK, Receive
  <2>6. ASSUME NEW n \in Node, NEW p \in sent, NEW row \in SUBSET Node,
               ReceiveCorrupted(n, p, row)
        PROVE  TypeOK'
    <3>1. corrupted' \in 0 .. MaxCorrupt
      BY <2>6, FastPathAssumption DEF TypeOK, ReceiveCorrupted
    <3> QED
      BY <2>6, <3>1, RecordType DEF TypeOK, ReceiveCorrupted
  <2>7. ASSUME NEW n \in Node, Crash(n)
        PROVE  TypeOK'
    BY <2>7 DEF TypeOK, Crash
  <2>8. CASE Finished \/ UNCHANGED vars
    BY <2>8 DEF TypeOK, Finished, vars
  <2> QED
    BY <2>1, <2>2, <2>3, <2>4, <2>5, <2>6, <2>7, <2>8 DEF Next
<1> QED
  BY <1>1, <1>2, PTL DEF Spec

-----------------------------------------------------------------------------
(* Agreement.  Step by step: what one handler does to the invariant. *)

(* Nodes other than the one that acts keep their part of the invariant, and
   so does a node that stops: packets are only ever added. *)
LEMMA PipelineFrame ==
  ASSUME NEW m \in Node, PipelineInv(m), sent \subseteq sent',
         \/ status'[m] # "RUNNING"
         \/ /\ status'[m] = status[m]
            /\ round'[m] = round[m]
            /\ current'[m] = current[m]
            /\ previous'[m] = previous[m]
  PROVE  PipelineInv(m)'
<1>1. CASE status'[m] # "RUNNING"
  BY <1>1 DEF PipelineInv
<1>2. CASE status'[m] = status[m] /\ round'[m] = round[m]
           /\ current'[m] = current[m] /\ previous'[m] = previous[m]
  BY <1>2 DEF PipelineInv, ProposalsMatchRow, RowsAreEvidence
<1> QED
  BY <1>1, <1>2

(* The buffers shift and the new packet carries the very row that is filed as
   the node's own: the previous stage starts with one row, and it is evidence. *)
LEMMA ShiftKeepsPipeline ==
  ASSUME NEW n \in Node, TypeOK, PipelineInv(n), status[n] = "RUNNING",
         round[n] < MaxRound, Shift(n), Broadcast(n)
  PROVE  PipelineInv(n)'
<1>1. /\ round[n] \in Int /\ round[n] >= -1
      /\ round'[n] = round[n] + 1
      /\ current'[n] = NewStage(n, round[n] + 1)
      /\ previous'[n] = WithRow(current[n], n, current[n].row)
  BY DEF TypeOK, Shift, Rounds
<1>2. current[n] \in Stages
  BY DEF TypeOK
<1>3. /\ previous'[n].round = current[n].round
      /\ previous'[n].row = current[n].row
      /\ previous'[n].proposals = current[n].proposals
      /\ \A w \in Node : previous'[n].rows[w] =
           IF w = n THEN current[n].row ELSE current[n].rows[w]
  BY <1>1, <1>2 DEF WithRow, Stages
<1>4. /\ current'[n].round = round'[n]
      /\ \A m \in Node : current'[n].rows[m] = {}
      /\ ProposalsMatchRow(current[n])'
  BY <1>1 DEF NewStage, ProposalsMatchRow
<1>5. previous'[n].round = IF round'[n] >= 1 THEN round'[n] - 1 ELSE -1
  BY <1>1, <1>3 DEF PipelineInv
<1>6. ProposalsMatchRow(previous[n])'
  BY <1>3 DEF PipelineInv, ProposalsMatchRow
<1>7. RowsAreEvidence(n)'
  <2> DEFINE pkt == [round |-> round[n] + 1, src |-> n, row |-> current[n].row,
                     payload |-> round[n] + 1]
  <2>1. pkt \in sent'
    BY DEF Broadcast
  <2>2. \A w \in Node : previous'[n].rows[w] # {} => w = n
    BY <1>3 DEF PipelineInv
  <2>3. pkt.src = n /\ pkt.round = round'[n] /\ pkt.row = previous'[n].rows[n]
    BY <1>1, <1>3
  <2> QED
    BY <2>1, <2>2, <2>3 DEF RowsAreEvidence
<1> QED
  BY <1>3, <1>4, <1>5, <1>6, <1>7 DEF PipelineInv

(* A packet of the node's own round extends the current stage, and its row is
   evidence for the previous one. *)
LEMMA ReceiveKeepsPipeline ==
  ASSUME NEW n \in Node, NEW p \in sent, TypeOK, SentInv, PipelineInv(n),
         Receive(n, p)
  PROVE  PipelineInv(n)'
<1>1. /\ p \in Packets /\ p.src \in Node /\ p.row \in SUBSET Node
      /\ p.src # n /\ p.round = round[n] /\ p.payload = round[n]
      /\ status[n] = "RUNNING"
  BY DEF TypeOK, Packets, Receive, Accepts, SentInv
<1>2. /\ current'[n] = Heard(current[n], p)
      /\ previous'[n] = WithRow(previous[n], p.src, p.row)
      /\ round' = round /\ sent' = sent
  BY DEF Receive, Record, TypeOK
<1>3. /\ current'[n].round = current[n].round
      /\ current'[n].rows = current[n].rows
      /\ current'[n].row = current[n].row \cup {p.src}
      /\ \A m \in Node : current'[n].proposals[m] =
           IF m = p.src THEN p.payload ELSE current[n].proposals[m]
  BY <1>1, <1>2 DEF TypeOK, Heard, Stages
<1>4. /\ previous'[n].round = previous[n].round
      /\ previous'[n].row = previous[n].row
      /\ previous'[n].proposals = previous[n].proposals
      /\ \A w \in Node : previous'[n].rows[w] =
           IF w = p.src THEN p.row ELSE previous[n].rows[w]
  BY <1>1, <1>2 DEF TypeOK, WithRow, Stages
<1>5. ProposalsMatchRow(current[n])'
  BY <1>1, <1>3 DEF PipelineInv, ProposalsMatchRow
<1>6. ProposalsMatchRow(previous[n])'
  BY <1>1, <1>4 DEF PipelineInv, ProposalsMatchRow
<1>7. RowsAreEvidence(n)'
  BY <1>1, <1>2, <1>4 DEF PipelineInv, RowsAreEvidence
<1> QED
  BY <1>1, <1>2, <1>3, <1>4, <1>5, <1>6, <1>7 DEF PipelineInv

(* A broadcast adds the one packet of the round that begins. *)
LEMMA BroadcastKeepsSent ==
  ASSUME NEW n \in Node, TypeOK, SentInv, Shift(n), Broadcast(n)
  PROVE  SentInv' /\ sent \subseteq sent'
<1> DEFINE pkt == [round |-> round[n] + 1, src |-> n, row |-> current[n].row,
                   payload |-> round[n] + 1]
<1>1. sent' = sent \cup {pkt}
  BY DEF Broadcast
<1>2. /\ round[n] \in Int /\ round' = [round EXCEPT ![n] = @ + 1]
      /\ \A m \in Node : round[m] \in Int
  BY DEF TypeOK, Shift, Rounds
<1>3. \A p \in sent : p.src \in Node /\ p.round \in Int
  BY DEF TypeOK, Packets, Rounds
<1>4. \A m \in Node : round'[m] >= round[m]
  BY <1>2 DEF TypeOK
<1>5. \A p \in sent' : p.round <= round'[p.src] /\ p.payload = p.round
  BY <1>1, <1>2, <1>3, <1>4 DEF SentInv, TypeOK
<1>6. \A p \in sent : p.src = n => p.round < round[n] + 1
  BY <1>2, <1>3 DEF SentInv
<1>7. \A p, q \in sent' : (p.src = q.src /\ p.round = q.round) => p = q
  BY <1>1, <1>2, <1>3, <1>6 DEF SentInv
<1> QED
  BY <1>1, <1>5, <1>7 DEF SentInv

(* A commit extends the log by an entry that its members determine and that a
   quorum of packets bears witness to. *)
LEMMA CommitIsWitnessed ==
  ASSUME NEW n \in Node, TypeOK, PipelineInv(n), CommitStage(n)
  PROVE  LET e == Committed(n, previous[n])
         IN  /\ e.proposals = [m \in Node |-> IF m \in e.commitSet THEN e.round
                                                                ELSE NoProposal]
             /\ \E Q \in SUBSET Node :
                  /\ Cardinality(Q) >= Quorum
                  /\ \A w \in Q : \E p \in sent :
                       p.src = w /\ p.round = e.round + 1 /\ p.row = e.commitSet
<1> DEFINE stage == previous[n]
           e == Committed(n, stage)
           Q == Witnesses(n, Node, stage.rows)
<1>1. stage \in Stages /\ stage.rows \in [Node -> SUBSET Node]
  BY DEF TypeOK, Stages
<1>2. /\ status[n] = "RUNNING"
      /\ stage.round >= 0
      /\ StageVerdict(n) = "commit"
  BY DEF CommitStage, Participates, PipelineFull
<1>3. HasAgreedRow(n, Node, stage.rows)
      /\ CommitSetIsValid(n, stage.rows, stage.proposals)
  BY <1>2 DEF StageVerdict, Verdict
<1>4. /\ e.round = stage.round
      /\ e.commitSet = stage.rows[n]
      /\ e.proposals = [m \in Node |-> IF m \in stage.rows[n]
                                       THEN stage.proposals[m] ELSE NoProposal]
  BY DEF Committed, AgreedRow
<1>5. stage.rows[n] = stage.row /\ ProposalsMatchRow(stage)
  BY <1>2 DEF PipelineInv
<1>6. e.proposals = [m \in Node |-> IF m \in e.commitSet THEN e.round ELSE NoProposal]
  BY <1>4, <1>5 DEF ProposalsMatchRow
<1>7. round[n] = stage.round + 1
  BY <1>2 DEF PipelineInv, TypeOK, Rounds
<1>8. Q \in SUBSET Node /\ Cardinality(Q) >= Quorum
  BY <1>3 DEF HasAgreedRow, Witnesses
<1>9. \A w \in Q : \E p \in sent :
        p.src = w /\ p.round = e.round + 1 /\ p.row = e.commitSet
  <2> SUFFICES ASSUME NEW w \in Q
               PROVE  \E p \in sent :
                        p.src = w /\ p.round = e.round + 1 /\ p.row = e.commitSet
    OBVIOUS
  <2>1. w \in Node /\ stage.rows[w] = stage.rows[n] /\ stage.rows[n] # {}
    BY <1>3 DEF Witnesses, HasAgreedRow
  <2>2. PICK p \in sent : p.src = w /\ p.round = round[n] /\ p.row = stage.rows[w]
    BY <1>2, <2>1 DEF PipelineInv, RowsAreEvidence
  <2> QED
    BY <1>4, <1>7, <2>1, <2>2
<1> QED
  BY <1>6, <1>8, <1>9

(* A handler that commits nothing leaves what was committed witnessed. *)
LEMMA WitnessesStay ==
  ASSUME CommittedRowsAreWitnessed, log' = log, sent \subseteq sent'
  PROVE  CommittedRowsAreWitnessed'
  BY DEF CommittedRowsAreWitnessed

(* Every step that only one node n takes, that sends and commits nothing and
   that leaves its sound set alone keeps the invariant if it keeps n's part. *)
LEMMA QuietStep ==
  ASSUME NEW n \in Node, AgreementInv, TypeOK', PipelineInv(n)',
         UNCHANGED <<soundSet, log, sent>>,
         \A m \in Node : round'[m] >= round[m],
         \A m \in Node \ {n} : /\ status'[m] = status[m]
                               /\ round'[m] = round[m]
                               /\ current'[m] = current[m]
                               /\ previous'[m] = previous[m]
  PROVE  AgreementInv'
<1>1. SentInv'
  <2>1. \A p \in sent : p.src \in Node /\ p.round \in Int
    BY DEF AgreementInv, TypeOK, Packets, Rounds
  <2>2. \A m \in Node : round[m] \in Int /\ round'[m] \in Int
    BY DEF AgreementInv, TypeOK, Rounds
  <2> QED
    BY <2>1, <2>2 DEF AgreementInv, SentInv
<1>2. \A m \in Node : PipelineInv(m)'
  <2> TAKE m \in Node
  <2>1. CASE m = n
    BY <2>1
  <2>2. CASE m # n
    BY <2>2, PipelineFrame DEF AgreementInv
  <2> QED
    BY <2>1, <2>2
<1>3. LogInv' /\ CommittedRowsAreWitnessed'
  BY WitnessesStay DEF AgreementInv, LogInv
<1> QED
  BY <1>1, <1>2, <1>3 DEF AgreementInv

(* Without corrupted rows AgreementInv is an invariant: it is what makes the
   evidence a node judges real, and it survives every handler. *)
THEOREM AgreementInvariant ==
  ASSUME MaxCorrupt = 0
  PROVE  Spec => []AgreementInv
<1>1. Init => AgreementInv
  <2> SUFFICES ASSUME Init PROVE AgreementInv
    OBVIOUS
  <2>1. TypeOK
    BY EmptyStageType, FastPathAssumption DEF Init, TypeOK, Verdicts, Rounds
  <2>2. \A n \in Node : PipelineInv(n)
    <3> TAKE n \in Node
    <3>1. /\ current[n] = EmptyStage /\ previous[n] = EmptyStage
          /\ round[n] = -1
      BY DEF Init
    <3>2. /\ EmptyStage.round = -1 /\ EmptyStage.row = {}
          /\ \A m \in Node : /\ EmptyStage.proposals[m] = NoProposal
                            /\ EmptyStage.rows[m] = {}
      BY DEF EmptyStage
    <3>3. ProposalsMatchRow(EmptyStage)
      BY <3>2 DEF ProposalsMatchRow
    <3>4. RowsAreEvidence(n)
      BY <3>1, <3>2 DEF RowsAreEvidence
    <3> QED
      BY <3>1, <3>2, <3>3, <3>4 DEF PipelineInv
  <2>3. SentInv /\ LogInv /\ CommittedRowsAreWitnessed
    BY DEF Init, SentInv, LogInv, CommittedRowsAreWitnessed
  <2> QED
    BY <2>1, <2>2, <2>3 DEF AgreementInv, Init
<1>2. TypeOK' /\ AgreementInv /\ [Next]_vars => AgreementInv'
  <2> SUFFICES ASSUME TypeOK', AgreementInv, [Next]_vars
               PROVE  AgreementInv'
    OBVIOUS
  <2>0. TypeOK
    BY DEF AgreementInv
  <2>1. ASSUME NEW n \in Node, SitOut(n)
        PROVE  AgreementInv'
    <3>1. status'[n] # "RUNNING"
      BY <2>1 DEF SitOut, Participates, AgreementInv
    <3>2. PipelineInv(n)'
      BY <3>1 DEF PipelineInv
    <3>3. /\ \A m \in Node : round'[m] >= round[m]
          /\ \A m \in Node \ {n} : round'[m] = round[m]
      BY <2>0, <2>1 DEF SitOut, TypeOK, Rounds
    <3> QED
      BY <2>1, <3>2, <3>3, QuietStep DEF SitOut
  <2>2. ASSUME NEW n \in Node, FillPipeline(n)
        PROVE  AgreementInv'
    <3>1. /\ Shift(n) /\ Broadcast(n) /\ round[n] < MaxRound
          /\ status[n] = "RUNNING"
          /\ UNCHANGED <<status, soundSet, log>>
      BY <2>2 DEF FillPipeline, BoundaryDue, Participates
    <3>2. SentInv' /\ sent \subseteq sent'
      BY <2>0, <3>1, BroadcastKeepsSent DEF AgreementInv
    <3>3. \A m \in Node : PipelineInv(m)'
      <4> TAKE m \in Node
      <4>1. CASE m = n
        BY <4>1, <2>0, <3>1, ShiftKeepsPipeline DEF AgreementInv
      <4>2. CASE m # n
        BY <4>2, <2>0, <3>1, <3>2, PipelineFrame DEF AgreementInv, Shift, TypeOK
      <4> QED
        BY <4>1, <4>2
    <3>4. LogInv' /\ CommittedRowsAreWitnessed'
      BY <3>1, <3>2, WitnessesStay DEF AgreementInv, LogInv
    <3> QED
      BY <3>1, <3>2, <3>3, <3>4 DEF AgreementInv
  <2>3. ASSUME NEW n \in Node, CommitStage(n)
        PROVE  AgreementInv'
    <3> DEFINE e == Committed(n, previous[n])
    <3>1. /\ Shift(n) /\ Broadcast(n) /\ round[n] < MaxRound
          /\ status[n] = "RUNNING" /\ StageVerdict(n) = "commit"
          /\ status' = status
          /\ soundSet' = [soundSet EXCEPT ![n] = SoundSet(n, Node, previous[n].rows)]
          /\ log' = [log EXCEPT ![n] = @ \cup {e}]
      BY <2>3 DEF CommitStage, BoundaryDue, Participates
    <3>2. SentInv' /\ sent \subseteq sent'
      BY <2>0, <3>1, BroadcastKeepsSent DEF AgreementInv
    <3>3. \A m \in Node : PipelineInv(m)'
      <4> TAKE m \in Node
      <4>1. CASE m = n
        BY <4>1, <2>0, <3>1, ShiftKeepsPipeline DEF AgreementInv
      <4>2. CASE m # n
        BY <4>2, <2>0, <3>1, <3>2, PipelineFrame DEF AgreementInv, Shift, TypeOK
      <4> QED
        BY <4>1, <4>2
    <3>4. \A m \in Node : m \in soundSet'[m]
      BY <2>0, <3>1 DEF AgreementInv, TypeOK, SoundSet, Witnesses
    <3>5. \A m \in Node : \A f \in log'[m] : f \in log[m] \/ f = e
      BY <2>0, <3>1 DEF TypeOK
    <3>6. LogInv'
      BY <2>0, <2>3, <3>5, CommitIsWitnessed DEF AgreementInv, LogInv
    <3>7. CommittedRowsAreWitnessed'
      <4> SUFFICES ASSUME NEW m \in Node, NEW f \in log'[m]
                   PROVE  \E Q \in SUBSET Node :
                            /\ Cardinality(Q) >= Quorum
                            /\ \A w \in Q : \E p \in sent' :
                                 /\ p.src = w
                                 /\ p.round = f.round + 1
                                 /\ p.row = f.commitSet
        BY DEF CommittedRowsAreWitnessed
      <4>1. \E Q \in SUBSET Node :
              /\ Cardinality(Q) >= Quorum
              /\ \A w \in Q : \E p \in sent :
                   p.src = w /\ p.round = f.round + 1 /\ p.row = f.commitSet
        <5>1. CASE f \in log[m]
          BY <5>1 DEF AgreementInv, CommittedRowsAreWitnessed
        <5>2. CASE f = e
          <6>1. PipelineInv(n)
            BY DEF AgreementInv
          <6>2. \E Q \in SUBSET Node :
                  /\ Cardinality(Q) >= Quorum
                  /\ \A w \in Q : \E p \in sent :
                       p.src = w /\ p.round = e.round + 1 /\ p.row = e.commitSet
            BY <6>1, <2>0, <2>3, CommitIsWitnessed
          <6> HIDE DEF e
          <6> QED
            BY <5>2, <6>2
        <5> QED
          BY <5>1, <5>2, <3>5
      <4> QED
        BY <4>1, <3>2
    <3> QED
      BY <3>2, <3>3, <3>4, <3>6, <3>7 DEF AgreementInv
  <2>4. ASSUME NEW n \in Node, HaltStage(n)
        PROVE  AgreementInv'
    <3>1. status'[n] = "HALTED"
      BY <2>0, <2>4 DEF HaltStage, TypeOK
    <3>2. PipelineInv(n)'
      BY <3>1 DEF PipelineInv
    <3>3. /\ \A m \in Node : round'[m] >= round[m]
          /\ \A m \in Node \ {n} : /\ status'[m] = status[m]
                                   /\ round'[m] = round[m]
                                   /\ current'[m] = current[m]
                                   /\ previous'[m] = previous[m]
      BY <2>0, <2>4 DEF HaltStage, Shift, TypeOK, Rounds
    <3> QED
      BY <2>4, <3>2, <3>3, QuietStep DEF HaltStage
  <2>5. ASSUME NEW n \in Node, NEW p \in sent, Receive(n, p)
        PROVE  AgreementInv'
    <3>1. PipelineInv(n)'
      BY <2>0, <2>5, ReceiveKeepsPipeline DEF AgreementInv
    <3>2. /\ \A m \in Node : round'[m] >= round[m]
          /\ \A m \in Node \ {n} : /\ status'[m] = status[m]
                                   /\ round'[m] = round[m]
                                   /\ current'[m] = current[m]
                                   /\ previous'[m] = previous[m]
      BY <2>0, <2>5 DEF Receive, Record, TypeOK, Rounds
    <3> QED
      BY <2>5, <3>1, <3>2, QuietStep DEF Receive
  <2>6. ASSUME NEW n \in Node, NEW p \in sent, NEW row \in SUBSET Node,
               ReceiveCorrupted(n, p, row)
        PROVE  AgreementInv'
    BY <2>0, <2>6 DEF TypeOK, ReceiveCorrupted
  <2>7. ASSUME NEW n \in Node, Crash(n)
        PROVE  AgreementInv'
    <3>1. status'[n] = "CRASHED"
      BY <2>0, <2>7 DEF Crash, TypeOK
    <3>2. PipelineInv(n)'
      BY <3>1 DEF PipelineInv
    <3>3. /\ \A m \in Node : round'[m] >= round[m]
          /\ \A m \in Node \ {n} : status'[m] = status[m]
      BY <2>0, <2>7 DEF Crash, TypeOK, Rounds
    <3> QED
      BY <2>7, <3>2, <3>3, QuietStep DEF Crash
  <2>8. CASE Finished \/ UNCHANGED vars
    <3>1. UNCHANGED vars
      BY <2>8 DEF Finished
    <3>2. /\ SentInv' /\ LogInv' /\ CommittedRowsAreWitnessed'
          /\ \A n \in Node : n \in soundSet'[n]
      BY <3>1 DEF vars, AgreementInv, SentInv, LogInv, CommittedRowsAreWitnessed
    <3>3. \A n \in Node : PipelineInv(n)'
      BY <3>1, PipelineFrame DEF vars, AgreementInv
    <3> QED
      BY <3>2, <3>3 DEF AgreementInv
  <2> QED
    BY <2>1, <2>2, <2>3, <2>4, <2>5, <2>6, <2>7, <2>8 DEF Next
<1> QED
  BY <1>1, <1>2, TypeCorrect, PTL DEF Spec

(* Two entries for one round have a common witness, which broadcast one packet
   in the round after it: they name the same members, hence are the same. *)
LEMMA EntriesAgree ==
  ASSUME AgreementInv
  PROVE  NoConflictingCommits
<1> SUFFICES ASSUME NEW n \in Node, NEW m \in Node,
                    NEW e \in log[n], NEW f \in log[m], e.round = f.round
             PROVE  e = f
  BY DEF NoConflictingCommits
<1>1. e \in CommittedRounds /\ f \in CommittedRounds
  BY DEF AgreementInv, TypeOK
<1>2. PICK P \in SUBSET Node :
        /\ Cardinality(P) >= Quorum
        /\ \A w \in P : \E p \in sent :
             p.src = w /\ p.round = e.round + 1 /\ p.row = e.commitSet
  BY DEF AgreementInv, CommittedRowsAreWitnessed
<1>3. PICK Q \in SUBSET Node :
        /\ Cardinality(Q) >= Quorum
        /\ \A w \in Q : \E p \in sent :
             p.src = w /\ p.round = f.round + 1 /\ p.row = f.commitSet
  BY DEF AgreementInv, CommittedRowsAreWitnessed
<1>4. PICK w \in P \cap Q : TRUE
  BY <1>2, <1>3, QuorumsIntersect
<1>5. PICK p \in sent : p.src = w /\ p.round = e.round + 1 /\ p.row = e.commitSet
  BY <1>2, <1>4
<1>6. PICK q \in sent : q.src = w /\ q.round = f.round + 1 /\ q.row = f.commitSet
  BY <1>3, <1>4
<1>7. e.commitSet = f.commitSet
  BY <1>5, <1>6 DEF AgreementInv, SentInv
<1>8. e.proposals = f.proposals
  <2> DEFINE pay(s, r) == [x \in Node |-> IF x \in s THEN r ELSE NoProposal]
  <2>1. e.proposals = pay(e.commitSet, e.round)
    BY DEF AgreementInv, LogInv
  <2>2. f.proposals = pay(f.commitSet, f.round)
    BY DEF AgreementInv, LogInv
  <2> HIDE DEF pay
  <2> QED
    BY <2>1, <2>2, <1>7
<1> QED
  BY <1>1, <1>7, <1>8 DEF CommittedRounds

(* Nodes never commit different things for one round, for any number of nodes
   and crashes and whatever the network loses, repeats or delays, as long as
   it corrupts no row: _quorum() and the round filter of receive() suffice. *)
THEOREM Agreement ==
  ASSUME MaxCorrupt = 0
  PROVE  Spec => []NoConflictingCommits
  BY AgreementInvariant, EntriesAgree, PTL

(* Every committed row really was broadcast by a quorum. *)
THEOREM CommitsAreWitnessed ==
  ASSUME MaxCorrupt = 0
  PROVE  Spec => []CommittedRowsAreWitnessed
<1>1. AgreementInv => CommittedRowsAreWitnessed
  BY DEF AgreementInv
<1> QED
  BY <1>1, AgreementInvariant, PTL

-----------------------------------------------------------------------------
(* The nodes' logs, whatever the number of corrupted rows: they have no holes, and
   who once missed from a committed round does not come back. *)

(* What holds of one node, and does not change unless the node itself acts. *)
NodeState(n) ==
  <<round[n], status[n], soundSet[n], current[n], previous[n], frontier[n], log[n]>>

ContiguousLog(n) ==
  /\ {e.round : e \in log[n]} = 0 .. frontier[n]
  /\ \A e, f \in log[n] : e.round = f.round => e = f

ShrinkingLog(n) ==
  \A e, f \in log[n] :
    (e.round < f.round /\ f.round >= 2) => f.commitSet \subseteq e.commitSet

NodeInv(n) ==
  /\ n \in soundSet[n]
  /\ status[n] = "RUNNING" => InStep(n) /\ CutsOff(n)
  /\ ContiguousLog(n)
  /\ ShrinkingLog(n)

(* The invariant speaks of one node at a time. *)
LEMMA LogsInvByNode == LogsInv <=> TypeOK /\ \A n \in Node : NodeInv(n)
  BY DEF LogsInv, NodeInv, ContiguousCommits, ContiguousLog, CommitSetsShrink, ShrinkingLog

(* A node that does not act keeps its part of it. *)
LEMMA NodeFrame ==
  ASSUME NEW n \in Node, NodeInv(n), UNCHANGED NodeState(n)
  PROVE  NodeInv(n)'
<1>1. /\ UNCHANGED <<round[n], status[n], soundSet[n], current[n]>>
      /\ UNCHANGED <<previous[n], frontier[n], log[n]>>
  BY DEF NodeState
<1>2. ContiguousLog(n)' /\ ShrinkingLog(n)'
  BY <1>1 DEF NodeInv, ContiguousLog, ShrinkingLog
<1>3. (status[n] = "RUNNING" => InStep(n) /\ CutsOff(n))'
  BY <1>1 DEF NodeInv, InStep, CutsOff
<1> QED
  BY <1>1, <1>2, <1>3 DEF NodeInv

(* A node that has stopped keeps it as long as its log stays as it is. *)
LEMMA StoppedFrame ==
  ASSUME NEW n \in Node, NodeInv(n), status'[n] # "RUNNING",
         UNCHANGED <<soundSet[n], frontier[n], log[n]>>
  PROVE  NodeInv(n)'
  BY DEF NodeInv, ContiguousLog, ShrinkingLog

-----------------------------------------------------------------------------
(* The buffers. *)

(* What the two buffers hold after a boundary. *)
LEMMA Shifted ==
  ASSUME NEW n \in Node, TypeOK, Shift(n)
  PROVE  /\ round'[n] = round[n] + 1
         /\ current'[n].round = round[n] + 1
         /\ current'[n].row = {n}
         /\ \A m \in Node : current'[n].rows[m] = {}
         /\ previous'[n].round = current[n].round
         /\ previous'[n].row = current[n].row
         /\ \A m \in Node : previous'[n].rows[m] =
              IF m = n THEN current[n].row ELSE current[n].rows[m]
<1>1. /\ round'[n] = round[n] + 1
      /\ current'[n] = NewStage(n, round[n] + 1)
      /\ previous'[n] = WithRow(current[n], n, current[n].row)
  BY DEF TypeOK, Shift
<1>2. current[n] \in Stages
  BY DEF TypeOK
<1> QED
  BY <1>1, <1>2 DEF NewStage, WithRow, Stages

(* What a packet does to them, its row corrupted or not. *)
LEMMA Recorded ==
  ASSUME NEW n \in Node, NEW p \in sent, NEW row \in SUBSET Node, TypeOK,
         Record(n, p, row)
  PROVE  /\ p.src \in Node
         /\ current'[n].round = current[n].round
         /\ current'[n].row = current[n].row \cup {p.src}
         /\ current'[n].rows = current[n].rows
         /\ previous'[n].round = previous[n].round
         /\ previous'[n].row = previous[n].row
         /\ \A m \in Node : previous'[n].rows[m] =
              IF m = p.src THEN row ELSE previous[n].rows[m]
<1>1. p.src \in Node
  BY DEF TypeOK, Packets
<1>2. /\ current'[n] = Heard(current[n], p)
      /\ previous'[n] = WithRow(previous[n], p.src, row)
  BY DEF TypeOK, Record
<1>3. current[n] \in Stages /\ previous[n] \in Stages
  BY DEF TypeOK
<1> QED
  BY <1>1, <1>2, <1>3 DEF Heard, WithRow, Stages

(* A packet from a peer that still counts: the peer's row and its place in the
   current stage come together. *)
LEMMA RecordKeepsNode ==
  ASSUME NEW n \in Node, NEW p \in sent, NEW row \in SUBSET Node, TypeOK, NodeInv(n),
         Accepts(n, p), Record(n, p, row),
         UNCHANGED <<round, status, soundSet, frontier, log>>
  PROVE  NodeInv(n)'
<1>1. status[n] = "RUNNING" /\ p.src # n /\ p.src \in soundSet[n]
  BY DEF Accepts
<1>2. InStep(n) /\ CutsOff(n)
  BY <1>1 DEF NodeInv
<1>3. InStep(n)'
  BY <1>1, <1>2, Recorded DEF InStep
<1>4. CutsOff(n)'
  BY <1>1, <1>2, Recorded DEF CutsOff
<1>5. ContiguousLog(n)' /\ ShrinkingLog(n)'
  BY DEF NodeInv, ContiguousLog, ShrinkingLog
<1> QED
  BY <1>3, <1>4, <1>5 DEF NodeInv

(* No stage to judge: at most round 0 has been collected, and nothing is logged. *)
LEMMA FillKeepsNode ==
  ASSUME NEW n \in Node, TypeOK, NodeInv(n), FillPipeline(n)
  PROVE  NodeInv(n)'
<1>1. /\ status[n] = "RUNNING" /\ n \in soundSet[n] /\ Shift(n)
      /\ ~(previous[n].round >= 0)
      /\ UNCHANGED <<status, soundSet, frontier, log>>
  BY DEF FillPipeline, Participates, PipelineFull
<1>2. InStep(n) /\ CutsOff(n)
  BY <1>1 DEF NodeInv
<1>3. round[n] \in Int /\ round[n] >= -1 /\ round[n] < 1
  BY <1>1, <1>2 DEF TypeOK, Rounds, InStep
<1>4. InStep(n)'
  BY <1>1, <1>2, <1>3, Shifted DEF InStep
<1>5. CutsOff(n)'
  BY <1>1, <1>2, <1>3, Shifted DEF CutsOff, InStep
<1>6. ContiguousLog(n)' /\ ShrinkingLog(n)'
  BY <1>1 DEF NodeInv, ContiguousLog, ShrinkingLog
<1> QED
  BY <1>1, <1>4, <1>5, <1>6 DEF NodeInv

-----------------------------------------------------------------------------
(* A commit. *)

(* Whoever witnesses a committed stage is in it, and has been heard since. *)
LEMMA WitnessesAreMembers ==
  ASSUME NEW n \in Node, TypeOK, NodeInv(n), CommitStage(n)
  PROVE  LET sound == SoundSet(n, Node, previous[n].rows)
         IN  /\ n \in sound /\ sound \in SUBSET Node
             /\ sound \subseteq previous[n].row
             /\ sound \subseteq current[n].row
             /\ AgreedRow(n, previous[n].rows) = previous[n].row
<1>1. status[n] = "RUNNING" /\ StageVerdict(n) = "commit"
  BY DEF CommitStage, Participates
<1>2. InStep(n) /\ CutsOff(n)
  BY <1>1 DEF NodeInv
<1>3. HasAgreedRow(n, Node, previous[n].rows)
  BY <1>1 DEF StageVerdict, Verdict
<1>4. \A m \in SoundSet(n, Node, previous[n].rows) :
        /\ m \in Node /\ previous[n].rows[m] = previous[n].rows[n]
        /\ previous[n].rows[m] # {} /\ m \in previous[n].rows[m]
  BY <1>3 DEF SoundSet, Witnesses, HasAgreedRow, RowIsValid
<1>5. previous[n].rows[n] = previous[n].row
  BY <1>2 DEF InStep
<1>6. n \in SoundSet(n, Node, previous[n].rows)
  BY DEF SoundSet, Witnesses
<1> QED
  BY <1>2, <1>4, <1>5, <1>6 DEF CutsOff, AgreedRow

(* The committed round is the next one, and no log entry has its members left out. *)
LEMMA CommitKeepsNode ==
  ASSUME NEW n \in Node, TypeOK, NodeInv(n), CommitStage(n)
  PROVE  NodeInv(n)'
<1> DEFINE new == Committed(n, previous[n])
           sound == SoundSet(n, Node, previous[n].rows)
           r == previous[n].round
<1>1. /\ status[n] = "RUNNING" /\ Shift(n) /\ r >= 0
      /\ UNCHANGED status
      /\ log'[n] = log[n] \cup {new}
      /\ frontier'[n] = r
      /\ soundSet'[n] = sound
  BY DEF CommitStage, Participates, PipelineFull, TypeOK
<1>2. InStep(n) /\ CutsOff(n) /\ ContiguousLog(n) /\ ShrinkingLog(n)
  BY <1>1 DEF NodeInv
<1>3. /\ round[n] \in Int /\ round[n] >= 1 /\ r = round[n] - 1
      /\ frontier[n] = r - 1 /\ r \in Int
  BY <1>1, <1>2 DEF InStep, TypeOK, Rounds
<1>4. new.round = r /\ new.commitSet = previous[n].row
  BY WitnessesAreMembers DEF Committed
<1>5. /\ n \in sound /\ sound \subseteq previous[n].row
      /\ sound \subseteq current[n].row
  BY WitnessesAreMembers
<1>6. \A e \in log[n] : e.round \in 0 .. r - 1
  BY <1>2, <1>3 DEF ContiguousLog
<1> HIDE DEF new, sound, r
<1>7. InStep(n)'
  <2>1. current[n].round = round[n] /\ \A m \in Node : current[n].rows[m] = {}
    BY <1>2 DEF InStep
  <2> QED
    BY <1>1, <1>3, <2>1, Shifted DEF InStep
<1>8. ContiguousLog(n)'
  <2>1. {e.round : e \in log'[n]} = {e.round : e \in log[n]} \cup {r}
    BY <1>1, <1>4
  <2>2. {e.round : e \in log'[n]} = 0 .. r
    BY <1>1, <1>2, <1>3, <2>1 DEF ContiguousLog
  <2>3. \A e, f \in log'[n] : e.round = f.round => e = f
    BY <1>1, <1>2, <1>3, <1>4, <1>6 DEF ContiguousLog
  <2> QED
    BY <1>1, <2>2, <2>3 DEF ContiguousLog
<1>9. ShrinkingLog(n)'
  <2> SUFFICES ASSUME NEW e \in log'[n], NEW f \in log'[n],
                      e.round < f.round, f.round >= 2
               PROVE  f.commitSet \subseteq e.commitSet
    BY DEF ShrinkingLog
  <2>1. e \in log[n]
    BY <1>1, <1>3, <1>4, <1>6
  <2>2. CASE f \in log[n]
    BY <1>2, <2>1, <2>2 DEF ShrinkingLog
  <2>3. CASE f = new
    BY <1>2, <1>3, <1>4, <2>1, <2>3 DEF CutsOff, r
  <2> QED
    BY <1>1, <2>2, <2>3
<1>10. CutsOff(n)'
  <2>1. previous'[n].row = current[n].row /\ previous'[n].round = r + 1
    BY <1>1, <1>2, <1>3, Shifted DEF InStep
  <2>2. current'[n].row \subseteq soundSet'[n]
    BY <1>1, <1>5, Shifted
  <2>3. \A m \in Node : previous'[n].rows[m] # {} => m \in current'[n].row
    BY <1>1, <1>2, Shifted DEF InStep
  <2>4. soundSet'[n] \subseteq previous'[n].row
    BY <1>1, <1>5, <2>1
  <2>5. \A e \in log'[n] : e.round = frontier'[n] => soundSet'[n] \subseteq e.commitSet
    BY <1>1, <1>3, <1>4, <1>5, <1>6
  <2>6. ASSUME r + 1 >= 2, NEW e \in log'[n]
        PROVE  current[n].row \subseteq e.commitSet
    <3>1. current[n].row \subseteq soundSet[n] /\ soundSet[n] \subseteq previous[n].row
      BY <1>2, <1>3, <2>6 DEF CutsOff
    <3>2. CASE e = new
      BY <1>4, <3>1, <3>2
    <3>3. CASE e \in log[n] /\ r >= 2
      BY <1>2, <3>1, <3>3 DEF CutsOff, r
    <3>4. CASE e \in log[n] /\ r = 1
      BY <1>2, <1>3, <1>6, <3>1, <3>4 DEF CutsOff
    <3>5. e \in log[n] \/ e = new
      BY <1>1, <2>6
    <3>6. r >= 2 \/ r = 1
      BY <1>3, <2>6
    <3> QED
      BY <3>2, <3>3, <3>4, <3>5, <3>6
  <2> QED
    BY <2>1, <2>2, <2>3, <2>4, <2>5, <2>6 DEF CutsOff
<1> QED
  BY <1>1, <1>5, <1>7, <1>8, <1>9, <1>10 DEF NodeInv

-----------------------------------------------------------------------------
(* The theorems. *)

(* A step that one node takes leaves the others' part of the invariant alone. *)
LEMMA OthersKeepTheirs ==
  ASSUME NEW n \in Node, \A m \in Node : NodeInv(m), NodeInv(n)',
         \A m \in Node \ {n} : UNCHANGED NodeState(m)
  PROVE  \A m \in Node : NodeInv(m)'
<1> TAKE m \in Node
<1>1. CASE m = n
  BY <1>1
<1>2. CASE m # n
  BY <1>2, NodeFrame
<1> QED
  BY <1>1, <1>2

(* LogsInv is inductive: every running node is in step with its log, and has cut off
   whoever missed from it. *)
THEOREM LogsInvariant == Spec => []LogsInv
<1>1. Init => LogsInv
  <2> SUFFICES ASSUME Init PROVE LogsInv
    OBVIOUS
  <2>1. TypeOK
    BY EmptyStageType, FastPathAssumption DEF Init, TypeOK, Verdicts, Rounds
  <2>2. ASSUME NEW n \in Node
        PROVE  NodeInv(n)
    <3>1. /\ round[n] = -1 /\ frontier[n] = -1 /\ log[n] = {} /\ soundSet[n] = Node
          /\ current[n] = EmptyStage /\ previous[n] = EmptyStage
      BY DEF Init
    <3>2. /\ EmptyStage.round = -1 /\ EmptyStage.row = {}
          /\ \A m \in Node : EmptyStage.rows[m] = {}
      BY DEF EmptyStage
    <3>3. InStep(n) /\ CutsOff(n)
      BY <3>1, <3>2 DEF InStep, CutsOff
    <3>4. ContiguousLog(n) /\ ShrinkingLog(n)
      BY <3>1 DEF ContiguousLog, ShrinkingLog
    <3> QED
      BY <3>1, <3>3, <3>4 DEF NodeInv
  <2> QED
    BY <2>1, <2>2, LogsInvByNode
<1>2. TypeOK' /\ LogsInv /\ [Next]_vars => LogsInv'
  <2> SUFFICES ASSUME TypeOK', LogsInv, [Next]_vars
               PROVE  \A n \in Node : NodeInv(n)'
    BY LogsInvByNode DEF LogsInv, NodeInv, ContiguousCommits, ContiguousLog,
                         CommitSetsShrink, ShrinkingLog
  <2>0. TypeOK /\ \A n \in Node : NodeInv(n)
    BY LogsInvByNode
  <2>1. ASSUME NEW n \in Node, SitOut(n)
        PROVE  \A m \in Node : NodeInv(m)'
    <3>1. status'[n] # "RUNNING"
      BY <2>0, <2>1 DEF SitOut, Participates, NodeInv
    <3>2. NodeInv(n)'
      BY <2>0, <2>1, <3>1, StoppedFrame DEF SitOut
    <3>3. \A m \in Node \ {n} : UNCHANGED NodeState(m)
      BY <2>0, <2>1 DEF SitOut, TypeOK, NodeState
    <3> QED
      BY <2>0, <3>2, <3>3, OthersKeepTheirs
  <2>2. ASSUME NEW n \in Node, FillPipeline(n)
        PROVE  \A m \in Node : NodeInv(m)'
    <3>1. \A m \in Node \ {n} : UNCHANGED NodeState(m)
      BY <2>0, <2>2 DEF FillPipeline, Shift, TypeOK, NodeState
    <3> QED
      BY <2>0, <2>2, <3>1, FillKeepsNode, OthersKeepTheirs
  <2>3. ASSUME NEW n \in Node, CommitStage(n)
        PROVE  \A m \in Node : NodeInv(m)'
    <3>1. \A m \in Node \ {n} : UNCHANGED NodeState(m)
      BY <2>0, <2>3 DEF CommitStage, Shift, TypeOK, NodeState
    <3> QED
      BY <2>0, <2>3, <3>1, CommitKeepsNode, OthersKeepTheirs
  <2>4. ASSUME NEW n \in Node, HaltStage(n)
        PROVE  \A m \in Node : NodeInv(m)'
    <3>1. status'[n] # "RUNNING"
      BY <2>0, <2>4 DEF HaltStage, TypeOK
    <3>2. NodeInv(n)'
      BY <2>0, <2>4, <3>1, StoppedFrame DEF HaltStage
    <3>3. \A m \in Node \ {n} : UNCHANGED NodeState(m)
      BY <2>0, <2>4 DEF HaltStage, Shift, TypeOK, NodeState
    <3> QED
      BY <2>0, <3>2, <3>3, OthersKeepTheirs
  <2>5. ASSUME NEW n \in Node, NEW p \in sent, NEW row \in SUBSET Node,
               Accepts(n, p), Record(n, p, row),
               UNCHANGED <<round, status, soundSet, frontier, log>>
        PROVE  \A m \in Node : NodeInv(m)'
    <3>1. NodeInv(n)'
      BY <2>0, <2>5, RecordKeepsNode
    <3>2. \A m \in Node \ {n} : UNCHANGED NodeState(m)
      BY <2>0, <2>5 DEF Record, TypeOK, NodeState
    <3> QED
      BY <2>0, <3>1, <3>2, OthersKeepTheirs
  <2>6. ASSUME NEW n \in Node, NEW p \in sent, Receive(n, p)
        PROVE  \A m \in Node : NodeInv(m)'
    <3>1. p.row \in SUBSET Node
      BY <2>0 DEF TypeOK, Packets
    <3> QED
      BY <2>5, <2>6, <3>1 DEF Receive
  <2>7. ASSUME NEW n \in Node, NEW p \in sent, NEW row \in SUBSET Node,
               ReceiveCorrupted(n, p, row)
        PROVE  \A m \in Node : NodeInv(m)'
    BY <2>5, <2>7 DEF ReceiveCorrupted
  <2>8. ASSUME NEW n \in Node, Crash(n)
        PROVE  \A m \in Node : NodeInv(m)'
    <3>1. status'[n] # "RUNNING"
      BY <2>0, <2>8 DEF Crash, TypeOK
    <3>2. NodeInv(n)'
      BY <2>0, <2>8, <3>1, StoppedFrame DEF Crash
    <3>3. \A m \in Node \ {n} : UNCHANGED NodeState(m)
      BY <2>0, <2>8 DEF Crash, TypeOK, NodeState
    <3> QED
      BY <2>0, <3>2, <3>3, OthersKeepTheirs
  <2>9. CASE Finished \/ UNCHANGED vars
    <3>1. \A n \in Node : UNCHANGED NodeState(n)
      BY <2>9 DEF Finished, vars, NodeState
    <3> QED
      BY <2>0, <3>1, NodeFrame
  <2> QED
    BY <2>1, <2>2, <2>3, <2>4, <2>6, <2>7, <2>8, <2>9 DEF Next
<1> QED
  BY <1>1, <1>2, TypeCorrect, PTL DEF Spec

(* A node's log has every round up to its frontier, and each of them once, whatever
   is lost, late, repeated or corrupted, and wherever nodes crash. *)
THEOREM LogsAreContiguous == Spec => []ContiguousCommits
<1>1. LogsInv => ContiguousCommits
  BY DEF LogsInv
<1> QED
  BY <1>1, LogsInvariant, PTL

(* Who missed from a committed round is in no later one (rounds 0 and 1 are collected
   before anything is judged), whatever is lost, late, repeated or corrupted. *)
THEOREM NobodyReturns == Spec => []CommitSetsShrink
<1>1. LogsInv => CommitSetsShrink
  BY DEF LogsInv
<1> QED
  BY <1>1, LogsInvariant, PTL

-----------------------------------------------------------------------------
(***************************************************************************)
(* FastPath implements CommitLog: without corrupted rows the nodes' logs   *)
(* are prefixes of one log.                                                *)
(***************************************************************************)

Logs == [Node -> SUBSET CommittedRounds]

Frontiers == [Node -> Rounds \cup {-1}]

Contiguous(logs, frontiers) ==
  \A n \in Node : {e.round : e \in logs[n]} = 0 .. frontiers[n]

Agreeing(logs) ==
  \A n, m \in Node : \A e \in logs[n], f \in logs[m] : e.round = f.round => e = f

\* h is the last round that any node has committed.
Reached(frontiers, h) ==
  /\ h \in Rounds \cup {-1}
  /\ \A n \in Node : frontiers[n] <= h
  /\ h = -1 \/ \E n \in Node : frontiers[n] = h

(* The decision is a sequence of as many rounds as have been committed by anybody,
   and holds what whoever committed a round has committed. *)
LEMMA DecisionIsOfLogs ==
  ASSUME NEW logs \in Logs, NEW frontiers \in Frontiers, NEW h,
         Contiguous(logs, frontiers), Agreeing(logs), Reached(frontiers, h)
  PROVE  /\ DecisionOf(logs) \in Seq(SUBSET Node)
         /\ Len(DecisionOf(logs)) = h + 1
         /\ \A n \in Node : \A e \in logs[n] :
              /\ e.round + 1 \in 1 .. h + 1
              /\ DecisionOf(logs)[e.round + 1] = e.commitSet
         /\ \A k \in 1 .. h + 1 : \E n \in Node : \E e \in logs[n] : e.round = k - 1
<1> DEFINE all == UNION {logs[n] : n \in Node}
           at(k) == CHOOSE e \in all : e.round = k - 1
<1>1. h \in Int /\ h >= -1 /\ h + 1 \in Nat
  BY FastPathAssumption DEF Reached, Rounds
<1>2. \A e \in all : /\ e \in CommittedRounds
                     /\ \E n \in Node : e \in logs[n]
  BY DEF Logs
<1>3. \A n \in Node : \A e \in logs[n] : e \in all /\ e.round \in 0 .. h
  <2> TAKE n \in Node
  <2> TAKE e \in logs[n]
  <2>1. e.round \in 0 .. frontiers[n] /\ frontiers[n] <= h
    BY DEF Contiguous, Reached
  <2>2. frontiers[n] \in Int
    BY FastPathAssumption DEF Frontiers, Rounds
  <2> QED
    BY <1>1, <2>1, <2>2
<1>4. \A k \in 0 .. h : \E n \in Node : \E e \in logs[n] : e.round = k
  <2> SUFFICES ASSUME NEW k \in 0 .. h
               PROVE  \E n \in Node : \E e \in logs[n] : e.round = k
    OBVIOUS
  <2>1. PICK n \in Node : frontiers[n] = h
    BY <1>1 DEF Reached
  <2>2. k \in {e.round : e \in logs[n]}
    BY <2>1 DEF Contiguous
  <2> QED
    BY <2>2
<1>5. {e.round : e \in all} = 0 .. h
  <2>1. \A k \in {e.round : e \in all} : k \in 0 .. h
    BY <1>2, <1>3
  <2>2. \A k \in 0 .. h : k \in {e.round : e \in all}
    BY <1>3, <1>4
  <2> QED
    BY <2>1, <2>2
<1>6. Cardinality({e.round : e \in all}) = h + 1
  <2>1. Cardinality(0 .. h) = IF 0 > h THEN 0 ELSE h - 0 + 1
    BY <1>1, FS_Interval
  <2>2. Cardinality(0 .. h) = h + 1
    BY <1>1, <2>1
  <2> QED
    BY <1>5, <2>2
<1>7. DecisionOf(logs) = [k \in 1 .. h + 1 |-> at(k).commitSet]
  BY <1>6 DEF DecisionOf
<1>8. \A k \in 1 .. h + 1 : at(k) \in all /\ at(k).round = k - 1
  <2> TAKE k \in 1 .. h + 1
  <2>1. k - 1 \in 0 .. h
    BY <1>1
  <2>2. \E e \in all : e.round = k - 1
    BY <2>1, <1>3, <1>4
  <2> QED
    BY <2>2
<1>9. \A e, f \in all : e.round = f.round => e = f
  BY <1>2 DEF Agreeing
<1> HIDE DEF all, at
<1>10. \A k \in 1 .. h + 1 : at(k).commitSet \in SUBSET Node
  BY <1>2, <1>8 DEF CommittedRounds
<1>11. DecisionOf(logs) \in [1 .. h + 1 -> SUBSET Node]
  BY <1>7, <1>10
<1>12. DecisionOf(logs) \in Seq(SUBSET Node) /\ Len(DecisionOf(logs)) = h + 1
  <2>1. DecisionOf(logs) \in Seq(SUBSET Node)
    BY <1>1, <1>11, SeqDef
  <2> QED
    BY <1>1, <1>11, <2>1, LenProperties
<1>13. \A n \in Node : \A e \in logs[n] :
         /\ e.round + 1 \in 1 .. h + 1
         /\ DecisionOf(logs)[e.round + 1] = e.commitSet
  <2> TAKE n \in Node
  <2> TAKE e \in logs[n]
  <2>1. e \in all /\ e.round \in 0 .. h
    BY <1>3
  <2>2. e.round + 1 \in 1 .. h + 1 /\ e.round + 1 - 1 = e.round
    BY <1>1, <2>1
  <2>3. at(e.round + 1) = e
    BY <1>8, <1>9, <2>1, <2>2
  <2> QED
    BY <1>7, <2>2, <2>3
<1>14. \A k \in 1 .. h + 1 : \E n \in Node : \E e \in logs[n] : e.round = k - 1
  <2> TAKE k \in 1 .. h + 1
  <2>1. k - 1 \in 0 .. h
    BY <1>1
  <2> QED
    BY <2>1, <1>4
<1> QED
  BY <1>12, <1>13, <1>14

-----------------------------------------------------------------------------
(* The steps. *)

RefinementInv ==
  /\ LogsInv
  /\ NoConflictingCommits
  /\ \E h \in Rounds \cup {-1} : Reached(frontier, h)

(* The logs have the types and the order the decision is made from. *)
LEMMA LogsAreInOrder ==
  ASSUME LogsInv, NoConflictingCommits
  PROVE  /\ log \in Logs /\ frontier \in Frontiers
         /\ Contiguous(log, frontier) /\ Agreeing(log)
  BY DEF LogsInv, TypeOK, Logs, Frontiers, Contiguous, ContiguousCommits, Agreeing,
         NoConflictingCommits

(* A commit takes its node one round further, with a majority of the physical nodes. *)
LEMMA CommitsNextRound ==
  ASSUME NEW n \in Node, LogsInv, CommitStage(n)
  PROVE  LET new == Committed(n, previous[n])
         IN  /\ new.round = frontier[n] + 1
             /\ new.commitSet \in SUBSET Node
             /\ Cardinality(new.commitSet) >= Quorum
             /\ log' = [log EXCEPT ![n] = @ \cup {new}]
             /\ frontier' = [frontier EXCEPT ![n] = @ + 1]
<1> DEFINE new == Committed(n, previous[n])
           Q == SoundSet(n, Node, previous[n].rows)
<1>1. TypeOK /\ NodeInv(n) /\ status[n] = "RUNNING" /\ StageVerdict(n) = "commit"
      /\ previous[n].round >= 0
  BY LogsInvByNode DEF CommitStage, Participates, PipelineFull
<1>2. InStep(n)
  BY <1>1 DEF NodeInv
<1>3. previous[n].round = frontier[n] + 1
  BY <1>1, <1>2 DEF InStep, TypeOK, Rounds
<1>4. new.round = previous[n].round /\ new.commitSet = previous[n].row
  BY <1>1, WitnessesAreMembers DEF Committed
<1>5. previous[n].row \in SUBSET Node
  BY <1>1 DEF TypeOK, Stages
<1>6. Cardinality(Q) >= Quorum
  BY <1>1 DEF StageVerdict, Verdict, HasAgreedRow, SoundSet
<1>7. Q \in SUBSET previous[n].row
  BY <1>1, WitnessesAreMembers
<1>8. IsFiniteSet(previous[n].row)
  BY <1>5, NodeAssumption, FS_Subset
<1>9. Cardinality(Q) <= Cardinality(previous[n].row)
  BY <1>7, <1>8, FS_Subset
<1>10. /\ IsFiniteSet(Q)
       /\ Cardinality(Q) \in Int /\ Cardinality(previous[n].row) \in Int
       /\ Cardinality(Node) \in Int
  BY <1>7, <1>8, NodeAssumption, FS_Subset, FS_CardinalityType
<1>11. Cardinality(previous[n].row) >= Quorum
  BY <1>6, <1>9, <1>10 DEF Quorum
<1>12. frontier' = [frontier EXCEPT ![n] = @ + 1]
  BY <1>1, <1>3 DEF CommitStage, TypeOK
<1> QED
  BY <1>3, <1>4, <1>5, <1>11, <1>12 DEF CommitStage

(* A commit is the first of its round, and decides it, or learns what was decided. *)
LEMMA CommitImplements ==
  ASSUME NEW n \in Node, RefinementInv, LogsInv', NoConflictingCommits', CommitStage(n)
  PROVE  /\ Abstract!Decide(n) \/ Abstract!Learn(n)
         /\ \E h \in Rounds \cup {-1} : Reached(frontier', h)
<1> DEFINE new == Committed(n, previous[n])
<1>1. PICK h \in Rounds \cup {-1} : Reached(frontier, h)
  BY DEF RefinementInv
<1>2. /\ new.round = frontier[n] + 1
      /\ new.commitSet \in SUBSET Node
      /\ Cardinality(new.commitSet) >= Quorum
      /\ log' = [log EXCEPT ![n] = @ \cup {new}]
      /\ frontier' = [frontier EXCEPT ![n] = @ + 1]
  BY CommitsNextRound DEF RefinementInv
<1>3. /\ log \in Logs /\ frontier \in Frontiers
      /\ Contiguous(log, frontier) /\ Agreeing(log)
  BY LogsAreInOrder DEF RefinementInv
<1>4. /\ log' \in Logs /\ frontier' \in Frontiers
      /\ Contiguous(log', frontier') /\ Agreeing(log')
  BY DEF LogsInv, TypeOK, Logs, Frontiers, Contiguous, ContiguousCommits, Agreeing,
         NoConflictingCommits, CommittedRounds, Rounds, Payloads
<1> HIDE DEF new
<1>5. /\ h \in Int /\ h >= -1
      /\ \A m \in Node : frontier[m] \in Int /\ frontier[m] >= -1 /\ frontier[m] <= h
  BY <1>1, <1>3, FastPathAssumption DEF Reached, Frontiers, Rounds
<1>6. /\ log'[n] = log[n] \cup {new}
      /\ frontier'[n] = frontier[n] + 1
      /\ \A m \in Node \ {n} : log'[m] = log[m] /\ frontier'[m] = frontier[m]
  BY <1>2, <1>3 DEF Logs, Frontiers
<1>7. /\ Decision \in Seq(SUBSET Node) /\ Len(Decision) = h + 1
      /\ \A m \in Node : \A e \in log[m] :
           e.round + 1 \in 1 .. h + 1 /\ Decision[e.round + 1] = e.commitSet
      /\ \A k \in 1 .. h + 1 : \E m \in Node : \E e \in log[m] : e.round = k - 1
  BY <1>1, <1>3, DecisionIsOfLogs DEF Decision
<1>8. [m \in Node |-> frontier[m] + 1]' =
        [[m \in Node |-> frontier[m] + 1] EXCEPT ![n] = @ + 1]
  BY <1>5, <1>6
<1>9. CASE frontier[n] < h
  <2>1. Reached(frontier', h)
    BY <1>1, <1>5, <1>6, <1>9 DEF Reached
  <2>2. /\ Decision' \in Seq(SUBSET Node) /\ Len(Decision') = h + 1
        /\ \A m \in Node : \A e \in log'[m] : Decision'[e.round + 1] = e.commitSet
    BY <1>4, <2>1, DecisionIsOfLogs DEF Decision
  <2>3. \A k \in 1 .. Len(Decision) : Decision[k] = Decision'[k]
    <3> SUFFICES ASSUME NEW k \in 1 .. h + 1
                 PROVE  Decision[k] = Decision'[k]
      BY <1>7
    <3>1. PICK m \in Node : \E e \in log[m] : e.round = k - 1
      BY <1>7
    <3>2. PICK e \in log[m] : e.round = k - 1
      BY <3>1
    <3>3. e \in log'[m] /\ e.round + 1 = k
      BY <1>5, <1>6, <3>2
    <3> QED
      BY <1>7, <2>2, <3>3
  <2>4. Decision' = Decision
    BY <1>7, <2>2, <2>3, SeqEqual
  <2>5. Abstract!Learn(n)
    BY <1>5, <1>7, <1>8, <1>9, <2>4 DEF Abstract!Learn
  <2> QED
    BY <1>1, <2>1, <2>5
<1>10. CASE frontier[n] = h
  <2>1. Reached(frontier', h + 1)
    <3>1. h + 1 \in Rounds \cup {-1}
      BY <1>4, <1>6, <1>10 DEF Frontiers
    <3> QED
      BY <3>1, <1>5, <1>6, <1>10 DEF Reached
  <2>2. /\ Decision' \in Seq(SUBSET Node) /\ Len(Decision') = h + 2
        /\ \A m \in Node : \A e \in log'[m] : Decision'[e.round + 1] = e.commitSet
    BY <1>4, <1>5, <2>1, DecisionIsOfLogs DEF Decision
  <2>3. /\ Append(Decision, new.commitSet) \in Seq(SUBSET Node)
        /\ Len(Append(Decision, new.commitSet)) = h + 2
        /\ \A k \in 1 .. h + 1 : Append(Decision, new.commitSet)[k] = Decision[k]
        /\ Append(Decision, new.commitSet)[h + 2] = new.commitSet
    <3>1. Len(Decision) + 1 = h + 2
      BY <1>5, <1>7
    <3> QED
      BY <1>2, <1>7, <3>1, AppendProperties
  <2>4. \A k \in 1 .. h + 2 : Decision'[k] = Append(Decision, new.commitSet)[k]
    <3> TAKE k \in 1 .. h + 2
    <3>1. CASE k = h + 2
      <4>1. new \in log'[n] /\ new.round + 1 = h + 2
        BY <1>2, <1>5, <1>6, <1>10
      <4> QED
        BY <2>2, <2>3, <3>1, <4>1
    <3>2. CASE k \in 1 .. h + 1
      <4>1. PICK m \in Node : \E e \in log[m] : e.round = k - 1
        BY <1>7, <3>2
      <4>2. PICK e \in log[m] : e.round = k - 1
        BY <4>1
      <4>3. e \in log'[m] /\ e.round + 1 = k
        BY <1>5, <1>6, <4>2
      <4> QED
        BY <1>7, <2>2, <2>3, <3>2, <4>3
    <3>3. k = h + 2 \/ k \in 1 .. h + 1
      BY <1>5
    <3> QED
      BY <3>1, <3>2, <3>3
  <2>5. Decision' = Append(Decision, new.commitSet)
    BY <2>2, <2>3, <2>4, SeqEqual
  <2>6. ASSUME Len(Decision) >= 2, NEW k \in 1 .. Len(Decision)
        PROVE  new.commitSet \subseteq Decision[k]
    <3>1. k - 1 \in 0 .. frontier[n] /\ k - 1 + 1 = k /\ k - 1 < h + 1
      BY <1>5, <1>7, <1>10, <2>6
    <3>2. PICK e \in log[n] : e.round = k - 1
      <4>1. k - 1 \in {e.round : e \in log[n]}
        BY <1>3, <3>1 DEF Contiguous
      <4> QED
        BY <4>1
    <3>3. Decision[k] = e.commitSet
      BY <1>7, <3>1, <3>2
    <3>4. /\ e \in log'[n] /\ new \in log'[n]
          /\ e.round < new.round /\ new.round >= 2
      BY <1>2, <1>5, <1>6, <1>7, <1>10, <2>6, <3>1, <3>2
    <3>5. new.commitSet \subseteq e.commitSet
      BY <3>4 DEF LogsInv, CommitSetsShrink
    <3> QED
      BY <3>3, <3>5
  <2>7. Abstract!Decide(n)
    <3>1. [m \in Node |-> frontier[m] + 1][n] = Len(Decision)
      BY <1>7, <1>10
    <3>2. Abstract!Cardinality(new.commitSet) >= Abstract!CommitQuorum
      BY <1>2 DEF Abstract!CommitQuorum, Quorum, Abstract!Cardinality, Cardinality,
                  Abstract!IsFiniteSet, IsFiniteSet
    <3>3. Len(Decision) >= 2 =>
            \A k \in 1 .. Len(Decision) : new.commitSet \subseteq Decision[k]
      BY <2>6
    <3> QED
      BY <1>2, <1>8, <2>5, <3>1, <3>2, <3>3 DEF Abstract!Decide
  <2> QED
    BY <2>1, <2>7 DEF Reached
<1> QED
  BY <1>5, <1>9, <1>10

(* Every other step is a stutter of the abstract log. *)
LEMMA OthersStutter ==
  ASSUME [Next]_vars, \A n \in Node : ~CommitStage(n)
  PROVE  UNCHANGED <<log, frontier>>
  BY DEF Next, vars, SitOut, FillPipeline, HaltStage, Receive, ReceiveCorrupted, Crash,
         Finished

(* The nodes' logs are prefixes of one log (CommitLog): somebody is the first to commit
   a round, with a majority and none but members of the earlier rounds; everybody else
   who commits it learns the same, for any number of nodes, crashes and rounds and
   whatever the network loses, repeats or delays. *)
THEOREM Refinement ==
  ASSUME MaxCorrupt = 0
  PROVE  Spec => ImplementsCommitLog
<1>1. Spec => [](LogsInv /\ NoConflictingCommits)
  BY LogsInvariant, Agreement, PTL
<1>2. Init => (Reached(frontier, -1) /\ Abstract!Init)
  <2> SUFFICES ASSUME Init PROVE Reached(frontier, -1) /\ Abstract!Init
    OBVIOUS
  <2>1. Reached(frontier, -1)
    BY DEF Init, Reached
  <2>2. \A n \in Node : log[n] = {} /\ frontier[n] = -1
    BY DEF Init
  <2>3. {e.round : e \in UNION {log[n] : n \in Node}} = {}
    BY <2>2
  <2>4. Cardinality({e.round : e \in UNION {log[n] : n \in Node}}) = 0
    BY <2>3, FS_EmptySet
  <2>5. Decision = <<>>
    <3>1. Decision \in [1 .. 0 -> SUBSET Node]
      <4> DEFINE all == UNION {log[n] : n \in Node}
                 at(k) == (CHOOSE e \in all : e.round = k - 1).commitSet
      <4>1. Decision = [k \in 1 .. 0 |-> at(k)]
        BY <2>4 DEF Decision, DecisionOf
      <4> HIDE DEF at
      <4>2. \A k \in 1 .. 0 : at(k) \in SUBSET Node
        OBVIOUS
      <4> QED
        BY <4>1, <4>2
    <3>2. Decision \in Seq(SUBSET Node)
      BY <3>1, SeqDef
    <3>3. Len(Decision) = 0
      BY <3>1, <3>2, LenProperties
    <3> QED
      BY <3>2, <3>3, EmptySeq
  <2>6. [n \in Node |-> frontier[n] + 1] = [n \in Node |-> 0]
    BY <2>2
  <2> QED
    BY <2>1, <2>5, <2>6 DEF Abstract!Init
<1>3. /\ RefinementInv
      /\ (LogsInv /\ NoConflictingCommits)'
      /\ [Next]_vars
      => RefinementInv' /\ [Abstract!Next]_(Abstract!logVars)
  <2> SUFFICES ASSUME RefinementInv, LogsInv', NoConflictingCommits', [Next]_vars
               PROVE  /\ \E h \in Rounds \cup {-1} : Reached(frontier', h)
                      /\ [Abstract!Next]_(Abstract!logVars)
    BY DEF RefinementInv
  <2>1. CASE \E n \in Node : CommitStage(n)
    BY <2>1, CommitImplements DEF Abstract!Next
  <2>2. CASE \A n \in Node : ~CommitStage(n)
    <3>1. UNCHANGED <<log, frontier>>
      BY <2>2, OthersStutter
    <3>2. UNCHANGED Abstract!logVars
      BY <3>1 DEF Abstract!logVars, Decision
    <3> QED
      BY <3>1, <3>2 DEF RefinementInv
  <2> QED
    BY <2>1, <2>2
<1>4. LogsInv /\ NoConflictingCommits /\ Reached(frontier, -1) => RefinementInv
  BY DEF RefinementInv
<1> QED
  BY <1>1, <1>2, <1>3, <1>4, PTL DEF Spec, ImplementsCommitLog, Abstract!Spec

-----------------------------------------------------------------------------
(***************************************************************************)
(* Without loss and corruption nobody halts, as long as more nodes are     *)
(* left than have crashed: for any finite set of nodes and any bounds.     *)
(*                                                                         *)
(* A round is then heard in full by whoever still runs: the nodes that     *)
(* have sent in it are its row on every node, and the only ones to send in *)
(* the next.  Verdicts lag behind the crashes, but they do not depend on   *)
(* when each node learns of one, for all of them learn of it in the same   *)
(* round.  Once half of the nodes have crashed nothing is claimed.         *)
(***************************************************************************)

\* Who has sent a packet of a round, of those sent so far.
Senders(packets, r) == {p.src : p \in {q \in packets : q.round = r}}

MinorityCrashed == 2 * Cardinality(Crashed) < Cardinality(Node)

\* No node is a round ahead of another by more than one (BoundaryDue).
InLockstep == \A n, m \in Node : round[n] <= round[m] + 1

\* A packet says that everybody who sent in the round before was heard.
TellsAll(p) ==
  p.round >= 1 => p.row = Senders(sent, p.round - 1) /\ p.src \in Senders(sent, p.round - 1)

\* A node has sent in every round so far, and counts whoever has sent in the round that
\* its previous stage is of.
HearsAll(n) ==
  /\ \A r \in 0 .. round[n] : n \in Senders(sent, r)
  /\ soundSet[n] = IF round[n] >= 2 THEN Senders(sent, round[n] - 1) ELSE Node
  /\ current[n].row \subseteq Senders(sent, round[n])
  /\ round[n] >= 1 =>
       /\ previous[n].row = Senders(sent, round[n] - 1)
       /\ \A m \in current[n].row : previous[n].rows[m] # {}

LosslessInv ==
  /\ InLockstep
  /\ MinorityCrashed =>
       /\ \A p \in sent : TellsAll(p)
       /\ \A n \in Node : status[n] # "HALTED"
       /\ \A n \in Node : status[n] = "RUNNING" => HearsAll(n)

-----------------------------------------------------------------------------
(* Who has sent. *)

LEMMA SendersOf ==
  ASSUME NEW packets, NEW r
  PROVE  \A m : m \in Senders(packets, r) <=> \E p \in packets : p.src = m /\ p.round = r
BY DEF Senders

\* A broadcast adds its sender to one round.
LEMMA SendersGrow ==
  ASSUME NEW n \in Node, Broadcast(n)
  PROVE  \A r : Senders(sent', r) = IF r = round[n] + 1 THEN Senders(sent, r) \cup {n} ELSE Senders(sent, r)
<1> DEFINE pkt == [round |-> round[n] + 1, src |-> n, row |-> current[n].row,
                   payload |-> round[n] + 1]
<1>1. sent' = sent \cup {pkt} /\ pkt.round = round[n] + 1 /\ pkt.src = n
  BY DEF Broadcast
<1> HIDE DEF pkt
<1> QED
  BY <1>1 DEF Senders

\* A packet is of a round that its sender has reached.
LEMMA PacketRounds ==
  ASSUME AgreementInv, NEW p \in sent
  PROVE  /\ p.src \in Node /\ p.row \in SUBSET Node
         /\ p.round \in Nat /\ p.round <= round[p.src]
BY FastPathAssumption DEF AgreementInv, TypeOK, SentInv, Packets, Rounds

LEMMA RoundType ==
  ASSUME AgreementInv, NEW n \in Node
  PROVE  round[n] \in Int /\ round[n] >= -1
BY FastPathAssumption DEF AgreementInv, TypeOK, Rounds

-----------------------------------------------------------------------------
(* Crashes. *)

\* A minority that has grown was one before.
LEMMA MinorityBefore ==
  ASSUME Crashed \subseteq Crashed', MinorityCrashed'
  PROVE  MinorityCrashed
<1>1. Crashed' \subseteq Node
  BY DEF Crashed
<1>2. IsFiniteSet(Crashed')
  BY <1>1, NodeAssumption, FS_Subset
<1>3. Cardinality(Crashed) <= Cardinality(Crashed')
  BY <1>2, FS_Subset
<1>4. /\ Cardinality(Crashed) \in Nat /\ Cardinality(Crashed') \in Nat
      /\ Cardinality(Node) \in Nat
  <2>1. IsFiniteSet(Crashed)
    BY <1>2, FS_Subset
  <2> QED
    BY <1>2, <2>1, NodeAssumption, FS_CardinalityType
<1> QED
  BY <1>3, <1>4 DEF MinorityCrashed

\* Whoever has sent in a round that no node has yet to begin is a quorum.
LEMMA SendersAreQuorum ==
  ASSUME NEW r \in Nat, MinorityCrashed, LosslessInv, AgreementInv,
         \A m \in Node : round[m] >= r
  PROVE  Cardinality(Senders(sent, r)) >= Quorum
<1>1. Senders(sent, r) \subseteq Node
  BY PacketRounds, SendersOf
<1>2. Node \ Crashed \subseteq Senders(sent, r)
  <2> SUFFICES ASSUME NEW m \in Node, status[m] # "CRASHED" PROVE m \in Senders(sent, r)
    BY DEF Crashed
  <2>1. status[m] = "RUNNING"
    BY DEF LosslessInv, AgreementInv, TypeOK
  <2>2. r \in 0 .. round[m]
    BY RoundType
  <2> QED
    BY <2>1, <2>2 DEF LosslessInv, HearsAll
<1>3. IsFiniteSet(Senders(sent, r)) /\ IsFiniteSet(Node \ Crashed) /\ IsFiniteSet(Crashed)
  <2>1. Crashed \subseteq Node /\ Node \ Crashed \subseteq Node
    BY DEF Crashed
  <2> QED
    BY <1>1, <2>1, NodeAssumption, FS_Subset
<1>4. Cardinality(Node \ Crashed) <= Cardinality(Senders(sent, r))
  BY <1>2, <1>3, FS_Subset
<1>5. Cardinality(Node \ Crashed) = Cardinality(Node) - Cardinality(Crashed)
  <2>1. Node \cap Crashed = Crashed
    BY DEF Crashed
  <2> QED
    BY <2>1, NodeAssumption, FS_Difference
<1>6. /\ Cardinality(Senders(sent, r)) \in Nat /\ Cardinality(Node) \in Nat
      /\ Cardinality(Crashed) \in Nat
  BY <1>3, NodeAssumption, FS_CardinalityType
<1> QED
  BY <1>4, <1>5, <1>6 DEF MinorityCrashed, Quorum

-----------------------------------------------------------------------------
(* The boundary. *)

\* A round that ends has been heard in full.
LEMMA RoundIsHeard ==
  ASSUME ~Lossy, AgreementInv, LosslessInv, MinorityCrashed,
         NEW n \in Node, BoundaryDue(n), Participates(n), round[n] >= 0
  PROVE  /\ current[n].row = Senders(sent, round[n])
         /\ n \in Senders(sent, round[n])
         /\ Senders(sent, round[n]) \subseteq soundSet[n]
<1>1. HearsAll(n) /\ round[n] \in Nat
  BY RoundType DEF LosslessInv, Participates
<1>2. n \in Senders(sent, round[n])
  BY <1>1 DEF HearsAll
<1>3. Senders(sent, round[n]) \subseteq soundSet[n]
  <2> SUFFICES ASSUME NEW p \in sent, p.round = round[n] PROVE p.src \in soundSet[n]
    BY SendersOf
  <2>1. CASE round[n] >= 2
    BY <1>1, <2>1 DEF LosslessInv, TellsAll, HearsAll
  <2>2. CASE ~(round[n] >= 2)
    BY <1>1, <2>2, PacketRounds DEF HearsAll
  <2> QED
    BY <2>1, <2>2
<1>4. Senders(sent, round[n]) \subseteq current[n].row
  BY <1>3, SendersOf DEF BoundaryDue, RoundDelivered
<1> QED
  BY <1>1, <1>2, <1>3, <1>4 DEF HearsAll

\* A stage that is judged is committed, and what is left of the sound set are those who
\* have sent since.
LEMMA JudgedIsCommitted ==
  ASSUME ~Lossy, AgreementInv, LosslessInv, MinorityCrashed,
         NEW n \in Node, BoundaryDue(n), Participates(n), PipelineFull(n)
  PROVE  /\ round[n] >= 1
         /\ StageVerdict(n) = "commit"
         /\ SoundSet(n, Node, previous[n].rows) = Senders(sent, round[n])
<1> DEFINE rows == previous[n].rows
           heard == Senders(sent, round[n] - 1)
<1>1. PipelineInv(n) /\ HearsAll(n) /\ status[n] = "RUNNING"
  BY DEF AgreementInv, LosslessInv, Participates
<1>2. round[n] \in Nat /\ round[n] >= 1 /\ previous[n].round = round[n] - 1
  BY <1>1, RoundType DEF PipelineInv, PipelineFull
<1>3. /\ current[n].row = Senders(sent, round[n])
      /\ n \in Senders(sent, round[n])
      /\ Senders(sent, round[n]) \subseteq soundSet[n]
  BY <1>2, RoundIsHeard
<1>4. rows[n] = heard /\ n \in heard
  BY <1>1, <1>2 DEF PipelineInv, HearsAll
<1>5. \A m \in Node : rows[m] # {} => rows[m] = heard /\ m \in Senders(sent, round[n])
  <2> SUFFICES ASSUME NEW m \in Node, rows[m] # {}
               PROVE  rows[m] = heard /\ m \in Senders(sent, round[n])
    OBVIOUS
  <2>1. PICK p \in sent : p.src = m /\ p.round = round[n] /\ p.row = rows[m]
    BY <1>1 DEF PipelineInv, RowsAreEvidence
  <2>2. TellsAll(p)
    BY DEF LosslessInv
  <2> QED
    BY <1>2, <2>1, <2>2, SendersOf DEF TellsAll
<1>6. \A m \in Senders(sent, round[n]) : m \in Node /\ rows[m] # {} /\ m \in heard
  <2> SUFFICES ASSUME NEW m \in Senders(sent, round[n])
               PROVE  m \in Node /\ rows[m] # {} /\ m \in heard
    OBVIOUS
  <2>1. PICK p \in sent : p.src = m /\ p.round = round[n]
    BY SendersOf
  <2>2. TellsAll(p) /\ p.src \in Node
    BY PacketRounds DEF LosslessInv
  <2> QED
    BY <1>1, <1>2, <1>3, <2>1, <2>2 DEF TellsAll, HearsAll
<1> HIDE DEF heard, rows
<1>7. Witnesses(n, Node, rows) = Senders(sent, round[n])
  BY <1>4, <1>5, <1>6 DEF Witnesses
<1>8. Cardinality(Senders(sent, round[n])) >= Quorum
  <2>1. \A m \in Node : round[m] >= round[n]
    BY DEF BoundaryDue
  <2> QED
    BY <1>2, <2>1, SendersAreQuorum
<1>9. HasAgreedRow(n, Node, rows)
  BY <1>4, <1>5, <1>6, <1>7, <1>8 DEF HasAgreedRow, RowIsValid
<1>10. CommitSetIsValid(n, rows, previous[n].proposals)
  <2>1. \A m \in rows[n] : m \in Node /\ m \in previous[n].row
    BY <1>1, <1>3 DEF PipelineInv, rows, AgreementInv, TypeOK, Stages
  <2> QED
    BY <1>1, <1>2, <2>1 DEF CommitSetIsValid, AgreedRow, PipelineInv, ProposalsMatchRow,
       NoProposal
<1>11. StageVerdict(n) = "commit"
  BY <1>3, <1>7, <1>9, <1>10 DEF StageVerdict, Verdict, SoundSet, rows
<1> QED
  BY <1>2, <1>7, <1>11 DEF SoundSet, rows

\* A node that does not act hears as much as before: nobody sends in its past.
LEMMA OthersHear ==
  ASSUME AgreementInv, NEW n \in Node, NEW m \in Node, HearsAll(m),
         Broadcast(n), round[m] <= round[n] + 1,
         UNCHANGED <<round[m], soundSet[m], current[m], previous[m]>>
  PROVE  HearsAll(m)'
<1>1. round[m] \in Int /\ round[n] \in Int
  BY RoundType
<1>2. \A r : Senders(sent, r) \subseteq Senders(sent', r)
  BY SendersGrow
<1>3. Senders(sent', round[m] - 1) = Senders(sent, round[m] - 1)
  BY <1>1, SendersGrow
<1> QED
  BY <1>1, <1>2, <1>3 DEF HearsAll

\* The boundary of a node that goes on.
LEMMA ShiftKeeps ==
  ASSUME ~Lossy, AgreementInv, LosslessInv, MinorityCrashed,
         NEW n \in Node, BoundaryDue(n), Participates(n), Shift(n), Broadcast(n),
         UNCHANGED status,
         soundSet'[n] = IF round[n] >= 1 THEN Senders(sent, round[n]) ELSE Node,
         \A m \in Node \ {n} : soundSet'[m] = soundSet[m]
  PROVE  LosslessInv'
<1> DEFINE pkt == [round |-> round[n] + 1, src |-> n, row |-> current[n].row,
                   payload |-> round[n] + 1]
<1>1. /\ TypeOK /\ HearsAll(n) /\ status[n] = "RUNNING"
      /\ round[n] \in Int /\ round[n] >= -1
      /\ \A m \in Node : round[m] \in Int /\ round[m] >= round[n] /\ round[m] <= round[n] + 1
  BY RoundType DEF AgreementInv, LosslessInv, InLockstep, Participates, BoundaryDue
<1>2. /\ round'[n] = round[n] + 1
      /\ current'[n].row = {n}
      /\ previous'[n].row = current[n].row
      /\ previous'[n].rows[n] = current[n].row
  BY <1>1, Shifted
<1>3. \A m \in Node \ {n} :
        UNCHANGED <<round[m], soundSet[m], current[m], previous[m]>>
  BY <1>1 DEF Shift, TypeOK
<1>4. InLockstep'
  BY <1>1, <1>2, <1>3 DEF InLockstep, LosslessInv
<1>5. \A r \in Int :
              /\ Senders(sent, r) \subseteq Senders(sent', r)
              /\ r # round[n] + 1 => Senders(sent', r) = Senders(sent, r)
  BY SendersGrow
<1>6. n \in Senders(sent', round[n] + 1)
  BY SendersGrow
<1>7. round[n] >= 0 => current[n].row = Senders(sent, round[n]) /\ n \in Senders(sent, round[n])
  BY RoundIsHeard
<1>8. \A p \in sent' : TellsAll(p)'
  <2> SUFFICES ASSUME NEW p \in sent', p.round >= 1
               PROVE  /\ p.row = Senders(sent', p.round - 1)
                      /\ p.src \in Senders(sent', p.round - 1)
    BY DEF TellsAll
  <2>1. CASE p \in sent
    <3>1. p.round \in Nat /\ p.round <= round[n] + 1
      BY <1>1, <2>1, PacketRounds
    <3>2. p.row = Senders(sent, p.round - 1) /\ p.src \in Senders(sent, p.round - 1)
      BY <2>1 DEF LosslessInv, TellsAll
    <3>3. p.round - 1 \in Int /\ p.round - 1 # round[n] + 1
      BY <1>1, <3>1
    <3> QED
      BY <1>5, <3>2, <3>3
  <2>2. CASE p = pkt
    <3>1. p.round = round[n] + 1 /\ p.src = n /\ p.row = current[n].row
      BY <2>2
    <3>2. p.round - 1 = round[n] /\ round[n] >= 0 /\ round[n] # round[n] + 1
      BY <1>1, <3>1
    <3>3. Senders(sent', p.round - 1) = Senders(sent, round[n])
      BY <1>1, <1>5, <3>2
    <3> QED
      BY <1>7, <3>1, <3>2, <3>3
  <2> QED
    BY <2>1, <2>2 DEF Broadcast
<1>9. HearsAll(n)'
  <2>1. \A r \in 0 .. round'[n] : n \in Senders(sent', r)
    <3> SUFFICES ASSUME NEW r \in 0 .. round[n] + 1 PROVE n \in Senders(sent', r)
      BY <1>2
    <3>1. r = round[n] + 1 \/ r \in 0 .. round[n]
      BY <1>1
    <3>2. r \in 0 .. round[n] => n \in Senders(sent, r)
      BY <1>1 DEF HearsAll
    <3> QED
      BY <1>5, <1>6, <3>1, <3>2
  <2>2. round'[n] - 1 = round[n] /\ round[n] # round[n] + 1
    BY <1>1, <1>2
  <2>3. Senders(sent', round'[n] - 1) = Senders(sent, round[n])
    BY <1>1, <1>5, <2>2
  <2>4. soundSet'[n] = IF round'[n] >= 2 THEN Senders(sent', round'[n] - 1) ELSE Node
    BY <1>1, <1>2, <2>3
  <2>5. current'[n].row \subseteq Senders(sent', round'[n])
    BY <1>2, <1>6
  <2>6. round'[n] >= 1 =>
          /\ previous'[n].row = Senders(sent', round'[n] - 1)
          /\ \A m \in current'[n].row : previous'[n].rows[m] # {}
    BY <1>1, <1>2, <1>7, <2>3
  <2> QED
    BY <2>1, <2>4, <2>5, <2>6 DEF HearsAll
<1>10. \A m \in Node : status'[m] # "HALTED" /\ (status'[m] = "RUNNING" => HearsAll(m)')
  <2> TAKE m \in Node
  <2>1. CASE m = n
    BY <1>1, <1>9, <2>1 DEF LosslessInv
  <2>2. CASE m # n
    BY <1>1, <1>3, <2>2, OthersHear DEF LosslessInv
  <2> QED
    BY <2>1, <2>2
<1> QED
  BY <1>4, <1>8, <1>10 DEF LosslessInv

\* A step that sends nothing, with a node that has stopped or hears as it should.
LEMMA SilentStep ==
  ASSUME LosslessInv, InLockstep', MinorityCrashed, UNCHANGED sent,
         NEW n \in Node,
         status'[n] # "HALTED",
         status'[n] = "RUNNING" => HearsAll(n)',
         \A m \in Node \ {n} :
           UNCHANGED <<status[m], round[m], soundSet[m], current[m], previous[m]>>
  PROVE  LosslessInv'
<1>1. \A r : Senders(sent', r) = Senders(sent, r)
  BY DEF Senders
<1>2. \A p \in sent' : TellsAll(p)'
  BY <1>1 DEF LosslessInv, TellsAll
<1>3. \A m \in Node : status'[m] # "HALTED" /\ (status'[m] = "RUNNING" => HearsAll(m)')
  <2> TAKE m \in Node
  <2>1. CASE m # n
    BY <1>1, <2>1 DEF LosslessInv, HearsAll
  <2> QED
    BY <2>1
<1> QED
  BY <1>2, <1>3 DEF LosslessInv

-----------------------------------------------------------------------------
(* The steps, and the invariant. *)

\* A boundary of one node keeps the nodes in lockstep.
LEMMA BoundaryInLockstep ==
  ASSUME AgreementInv, InLockstep, NEW n \in Node, BoundaryDue(n),
         round' = [round EXCEPT ![n] = @ + 1]
  PROVE  InLockstep'
<1>1. \A m \in Node : round[m] \in Int /\ round[m] >= round[n]
  BY RoundType DEF BoundaryDue
<1>2. \A m \in Node : round'[m] = IF m = n THEN round[m] + 1 ELSE round[m]
  BY DEF AgreementInv, TypeOK
<1> QED
  BY <1>1, <1>2 DEF InLockstep

\* A packet of the round is evidence that its sender was heard in the round before.
LEMMA ReceiveKeepsHearing ==
  ASSUME AgreementInv, LosslessInv, MinorityCrashed,
         NEW n \in Node, NEW p \in sent, Receive(n, p)
  PROVE  HearsAll(n)'
<1>1. /\ TypeOK /\ HearsAll(n) /\ TellsAll(p)
      /\ Record(n, p, p.row) /\ p.round = round[n]
      /\ UNCHANGED <<round, soundSet, sent>>
  BY DEF AgreementInv, LosslessInv, Receive, Accepts
<1>2. /\ p.src \in Node /\ p.row \in SUBSET Node
      /\ current'[n].row = current[n].row \cup {p.src}
      /\ previous'[n].row = previous[n].row
      /\ \A m \in Node : previous'[n].rows[m] =
            IF m = p.src THEN p.row ELSE previous[n].rows[m]
  BY <1>1, PacketRounds, Recorded
<1>3. p.src \in Senders(sent, round[n])
  BY <1>1, SendersOf
<1>4. current[n].row \subseteq Node
  BY <1>1 DEF TypeOK, Stages
<1>5. round[n] >= 1 => p.row # {}
  BY <1>1 DEF TellsAll
<1> QED
  BY <1>1, <1>2, <1>3, <1>4, <1>5 DEF HearsAll

LEMMA LosslessStep ==
  ASSUME ~Lossy, MaxCorrupt = 0, AgreementInv, AgreementInv', LosslessInv, [Next]_vars
  PROVE  LosslessInv'
<1>1. TypeOK /\ TypeOK' /\ InLockstep
  BY DEF AgreementInv, LosslessInv
<1>2. ASSUME NEW n \in Node, SitOut(n)
      PROVE  LosslessInv'
  <2>1. InLockstep'
    BY <1>1, <1>2, BoundaryInLockstep DEF SitOut
  <2>2. status[n] # "RUNNING" /\ status' = status
    BY <1>2 DEF SitOut, Participates, AgreementInv
  <2>3. \A m \in Node \ {n} :
          UNCHANGED <<status[m], round[m], soundSet[m], current[m], previous[m]>>
    BY <1>1, <1>2 DEF SitOut, TypeOK
  <2>4. CASE MinorityCrashed'
    <3>1. MinorityCrashed
      BY <2>2, <2>4, MinorityBefore DEF Crashed
    <3>2. status'[n] # "HALTED"
      BY <2>2, <3>1 DEF LosslessInv
    <3> QED
      BY <1>2, <2>1, <2>2, <2>3, <3>1, <3>2, SilentStep DEF SitOut
  <2> QED
    BY <2>1, <2>4 DEF LosslessInv
<1>3. ASSUME NEW n \in Node, FillPipeline(n)
      PROVE  LosslessInv'
  <2>1. /\ BoundaryDue(n) /\ Participates(n) /\ Shift(n) /\ Broadcast(n)
        /\ status' = status /\ soundSet' = soundSet
    BY <1>3 DEF FillPipeline
  <2>2. InLockstep'
    BY <1>1, <2>1, BoundaryInLockstep DEF Shift
  <2>3. CASE MinorityCrashed'
    <3>1. MinorityCrashed
      BY <2>1, <2>3, MinorityBefore DEF Crashed
    <3>2. ~(round[n] >= 1)
      <4>1. previous[n].round < 0
        BY <1>1, <1>3 DEF FillPipeline, PipelineFull, TypeOK, Stages, Rounds
      <4> QED
        BY <2>1, <4>1, RoundType DEF AgreementInv, PipelineInv, Participates
    <3>3. soundSet[n] = Node
      BY <2>1, <3>1, <3>2, RoundType DEF LosslessInv, HearsAll, Participates
    <3> QED
      BY <2>1, <3>1, <3>2, <3>3, ShiftKeeps
  <2> QED
    BY <2>2, <2>3 DEF LosslessInv
<1>4. ASSUME NEW n \in Node, CommitStage(n)
      PROVE  LosslessInv'
  <2>1. /\ BoundaryDue(n) /\ Participates(n) /\ PipelineFull(n)
        /\ Shift(n) /\ Broadcast(n) /\ status' = status
        /\ soundSet' = [soundSet EXCEPT ![n] = SoundSet(n, Node, previous[n].rows)]
    BY <1>4 DEF CommitStage
  <2>2. InLockstep'
    BY <1>1, <2>1, BoundaryInLockstep DEF Shift
  <2>3. CASE MinorityCrashed'
    <3>1. MinorityCrashed
      BY <2>1, <2>3, MinorityBefore DEF Crashed
    <3>2. /\ round[n] >= 1
          /\ SoundSet(n, Node, previous[n].rows) = Senders(sent, round[n])
      BY <2>1, <3>1, JudgedIsCommitted
    <3>3. /\ soundSet'[n] = Senders(sent, round[n])
          /\ \A m \in Node \ {n} : soundSet'[m] = soundSet[m]
      BY <1>1, <2>1, <3>2 DEF TypeOK
    <3> QED
      BY <2>1, <3>1, <3>2, <3>3, ShiftKeeps
  <2> QED
    BY <2>2, <2>3 DEF LosslessInv
<1>5. ASSUME NEW n \in Node, HaltStage(n)
      PROVE  LosslessInv'
  <2>1. /\ BoundaryDue(n) /\ Participates(n) /\ PipelineFull(n)
        /\ StageVerdict(n) # "commit" /\ Shift(n)
        /\ status' = [status EXCEPT ![n] = "HALTED"]
    BY <1>5 DEF HaltStage
  <2>2. InLockstep'
    BY <1>1, <2>1, BoundaryInLockstep DEF Shift
  <2>3. Crashed \subseteq Crashed'
    BY <1>1, <2>1 DEF Crashed, Participates, TypeOK
  <2>4. CASE MinorityCrashed'
    <3>1. MinorityCrashed
      BY <2>3, <2>4, MinorityBefore
    <3> QED
      BY <2>1, <3>1, JudgedIsCommitted
  <2> QED
    BY <2>2, <2>4 DEF LosslessInv
<1>6. ASSUME NEW n \in Node, NEW p \in sent, Receive(n, p)
      PROVE  LosslessInv'
  <2>1. /\ UNCHANGED <<round, status, soundSet, sent>>
        /\ \A m \in Node \ {n} : UNCHANGED <<current[m], previous[m]>>
    BY <1>1, <1>6 DEF Receive, Record, TypeOK
  <2>2. InLockstep'
    BY <1>1, <2>1 DEF InLockstep
  <2>3. CASE MinorityCrashed'
    <3>1. MinorityCrashed
      BY <2>1, <2>3, MinorityBefore DEF Crashed
    <3>2. HearsAll(n)'
      BY <1>6, <3>1, ReceiveKeepsHearing
    <3>3. status'[n] # "HALTED"
      BY <2>1, <3>1 DEF LosslessInv
    <3> QED
      BY <2>1, <2>2, <3>1, <3>2, <3>3, SilentStep
  <2> QED
    BY <2>2, <2>3 DEF LosslessInv
<1>7. ASSUME NEW n \in Node, NEW p \in sent, NEW row \in SUBSET Node,
             ReceiveCorrupted(n, p, row)
      PROVE  LosslessInv'
  BY <1>1, <1>7 DEF TypeOK, ReceiveCorrupted
<1>8. ASSUME NEW n \in Node, Crash(n)
      PROVE  LosslessInv'
  <2>1. /\ UNCHANGED <<round, soundSet, current, previous, sent>>
        /\ status'[n] = "CRASHED"
        /\ \A m \in Node \ {n} : status'[m] = status[m]
    BY <1>1, <1>8 DEF Crash, TypeOK
  <2>2. InLockstep'
    BY <1>1, <2>1 DEF InLockstep
  <2>3. Crashed \subseteq Crashed'
    BY <2>1 DEF Crashed
  <2>4. CASE MinorityCrashed'
    <3>1. MinorityCrashed
      BY <2>3, <2>4, MinorityBefore
    <3> QED
      BY <2>1, <2>2, <3>1, SilentStep
  <2> QED
    BY <2>2, <2>4 DEF LosslessInv
<1>9. CASE Finished \/ UNCHANGED vars
  BY <1>9 DEF Finished, vars, LosslessInv, InLockstep, MinorityCrashed, Crashed, TellsAll,
     HearsAll
<1> QED
  BY <1>2, <1>3, <1>4, <1>5, <1>6, <1>7, <1>8, <1>9 DEF Next

\* In a cluster whose network loses nothing, all that runs hears the same, for as long as
\* fewer than half of the nodes have crashed.
THEOREM LosslessInvariant ==
  ASSUME MaxCorrupt = 0, ~Lossy
  PROVE  Spec => []LosslessInv
<1>1. Init => LosslessInv
  BY DEF Init, LosslessInv, InLockstep, HearsAll, EmptyStage
<1>2. AgreementInv /\ AgreementInv' /\ LosslessInv /\ [Next]_vars => LosslessInv'
  BY LosslessStep
<1> QED
  BY <1>1, <1>2, AgreementInvariant, PTL DEF Spec

\* A crash that leaves a majority halts nobody, whenever it comes and however many follow
\* it: the quorum is of the physical cluster (_quorum()), and the missing rows of the
\* crashed are the same on every survivor.
THEOREM CrashesHaltNobody ==
  ASSUME MaxCorrupt = 0
  PROVE  Spec => []NoHaltWithoutLoss
<1>1. CASE Lossy
  <2>1. NoHaltWithoutLoss
    BY <1>1 DEF NoHaltWithoutLoss
  <2> QED
    BY <2>1, PTL
<1>2. CASE ~Lossy
  <2>1. LosslessInv => NoHaltWithoutLoss
    BY DEF LosslessInv, MinorityCrashed, NoHaltWithoutLoss
  <2>2. Spec => []LosslessInv
    BY <1>2, LosslessInvariant
  <2> QED
    BY <2>1, <2>2, PTL
<1> QED
  BY <1>1, <1>2
===============================================================================
