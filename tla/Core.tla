--------------------------------- MODULE Core ---------------------------------
(***************************************************************************)
(* One node's consensus_core (prototype/fpga/rtl/core.v): its control      *)
(* registers, its rounds (CoreTiming) and its protocol state machine, one  *)
(* clock cycle per step.                                                   *)
(*                                                                         *)
(* In every cycle the PTP clock, software (at most one register write) and *)
(* the network (at most one packet) act independently, and all registers   *)
(* take their next values at once.  Verilog's last assignment wins: what a *)
(* round boundary does to the registers is overridden by a loss of timing, *)
(* that by a stop and that by a reboot (Settle).                           *)
(*                                                                         *)
(* Abstractions: bitmaps are sets of nodes; a packet of another run or     *)
(* round, from the node itself or from outside the sound set changes       *)
(* nothing and is not enumerated; 64-bit rounds are written as two halves  *)
(* that hold HalfRange values each; the observation matrix and the sound   *)
(* sets of the halt record, registers nothing reads back, are left out.    *)
(***************************************************************************)
EXTENDS SoundMatrix, CoreTiming

CONSTANTS
  Self,        \* P_NODE_ID
  Run,         \* run ids software may configure
  Membership,  \* memberships software may configure
  Row,         \* rows a packet may carry
  HalfRange,   \* how many values half of CONFIG_EFFECTIVE_ROUND takes
  MaxWrite     \* bound: how many registers software writes

ASSUME CoreAssumption ==
  /\ Self \in Node
  /\ Run \subseteq Nat \ {0}
  /\ Membership \subseteq SUBSET Node
  /\ Row \subseteq SUBSET Node
  /\ HalfRange \in Nat \ {0}
  /\ MaxWrite \in Nat

VARIABLES
  config,       \* the four CONFIG_* registers
  pending,      \* activate_pending_reg
  ack,          \* reg_wr_ack_reg
  core,         \* the registers of section 3 and the halt record
  writes,       \* how many registers software has written
  asked,        \* ghost: the configuration software armed
  activatedAt,  \* ghost: the round of the last activation, while it runs
  lastCommit,   \* ghost: the last round committed since, or -1
  missed        \* ghost: a loss of timing was survived in S_RUN

csrVars == <<config, pending, ack, writes, asked>>
ghostVars == <<activatedAt, lastCommit, missed>>
vars == <<ptpVars, roundVars, enable, csrVars, core, ghostVars>>

States == {"IDLE", "WAIT_ACTIVATE", "RUN", "HALT"}

Reasons == {"none", "no_agreed_row", "commit_set_not_valid", "no_sound_set",
            "local_node_excluded_from_sound_set",
            "sound_set_not_subset_of_previous_set", "time_fault"}

Halves == 0 .. HalfRange - 1

Configs == [run : Run \cup {0}, members : Membership \cup {{}},
            low : Halves, high : Halves]

NoCommit == [round |-> -1, set |-> {}]

NoRows == [m \in Node |-> {}]

ResetCore ==
  [state |-> "IDLE", run |-> 0, installed |-> {}, sound |-> {},
   current |-> [valid |-> FALSE, round |-> 0, proposals |-> {}],
   previous |-> [valid |-> FALSE, round |-> 0, proposals |-> {},
                 rows |-> NoRows],
   tx |-> [round |-> 0, run |-> 0, row |-> {}],
   commit |-> NoCommit,
   halt |-> [reason |-> "none", round |-> 0],
   excluded |-> FALSE]

ResetConfig == [run |-> 0, members |-> {}, low |-> 0, high |-> 0]

\* The configuration registers survive a reboot, and may have been staged.
StagedConfigs ==
  [run : Run, members : Membership, low : {0}, high : {0}] \cup {ResetConfig}

Init ==
  /\ TimingInit
  /\ config \in StagedConfigs
  /\ pending = FALSE
  /\ ack = FALSE
  /\ core = ResetCore
  /\ writes = 0
  /\ asked = ResetConfig
  /\ activatedAt = 0
  /\ lastCommit = -1
  /\ missed = FALSE

-----------------------------------------------------------------------------
(* Activation, as the wires of section 3 see it. *)

EffectiveRound(c) == c.high * HalfRange + c.low

ActivationDue ==
  /\ core.state \in {"WAIT_ACTIVATE", "RUN"}
  /\ pending
  /\ roundId >= EffectiveRound(config)

ActivationFires == ActivationDue /\ Self \in config.members

ActivateConsumed == roundStart /\ ActivationDue

-----------------------------------------------------------------------------
(* Software: one register write per cycle at most, and a cycle of          *)
(* acknowledgement after each.                                             *)

NoWrite == [reg |-> "none"]

Writes ==
  [reg : {"run"}, value : Run] \cup [reg : {"membership"}, value : Membership]
  \cup [reg : {"effective_low", "effective_high"}, value : Halves]
  \cup [reg : {"control"}, enable : BOOLEAN, activate : BOOLEAN, reboot : BOOLEAN]

Reboots(w) == w.reg = "control" /\ w.reboot

Rewritten(w) ==
  CASE w.reg = "run"            -> [config EXCEPT !.run = w.value]
    [] w.reg = "membership"     -> [config EXCEPT !.members = w.value]
    [] w.reg = "effective_low"  -> [config EXCEPT !.low = w.value]
    [] w.reg = "effective_high" -> [config EXCEPT !.high = w.value]
    [] OTHER                    -> config

\* MUTANT: a configuration can be rewritten after it has been armed.
StagedAlways(w) == Rewritten(w)

\* A configuration may be rewritten freely until it is armed, and never after.
Staged(w) == IF pending THEN config ELSE Rewritten(w)

\* The request is dropped when it is consumed, unless software arms again in
\* the very same cycle; a reboot drops it in any case.
PendingAfter(w) ==
  IF w.reg # "control" THEN pending /\ ~ActivateConsumed
  ELSE ~w.reboot /\ (w.activate \/ (pending /\ ~ActivateConsumed))

Registers(w) ==
  /\ w # NoWrite => ~ack /\ writes < MaxWrite
  /\ ack' = (w # NoWrite)
  /\ writes' = IF w = NoWrite THEN writes ELSE writes + 1
  /\ config' = Staged(w)
  /\ pending' = PendingAfter(w)
  /\ enable' = IF w.reg = "control" THEN w.enable ELSE enable
  /\ asked' = IF ~pending' THEN ResetConfig
              ELSE IF w.reg = "control" /\ w.activate THEN config ELSE asked

-----------------------------------------------------------------------------
(* The boundary evaluation: SoundMatrix's verdict in the core's terms.     *)

\* The scan is over the sound set; it decides whose row is read.
LocalRow == IF Self \in core.sound THEN core.previous.rows[Self] ELSE {}

EvalSoundSet == {m \in core.sound : core.previous.rows[m] = LocalRow}

RowSelfMissing ==
  \E m \in core.sound : ~RowIsValid(m, core.previous.rows[m])

AgreedRowValid ==
  ~RowSelfMissing /\ LocalRow # {} /\ Cardinality(EvalSoundSet) >= Quorum

HaltReason ==
  IF ~AgreedRowValid THEN "no_agreed_row"
  ELSE IF ~(LocalRow \subseteq core.previous.proposals)
    THEN "commit_set_not_valid"
  ELSE IF EvalSoundSet = {} THEN "no_sound_set"
  ELSE IF Self \notin EvalSoundSet THEN "local_node_excluded_from_sound_set"
  ELSE IF ~(EvalSoundSet \subseteq core.sound)
    THEN "sound_set_not_subset_of_previous_set"
  ELSE "none"

EvalHalts == core.previous.valid /\ HaltReason # "none"

EvalCommits == core.previous.valid /\ HaltReason = "none"

-----------------------------------------------------------------------------
(* One cycle of section 3. *)

NoPacket == [src |-> Self, row |-> {}]

\* MUTANT: nodes outside the sound set are still listened to.
AcceptableFromAnyone ==
  IF core.state = "RUN" THEN [src : Node \ {Self}, row : Row] ELSE {}

\* The packets of this cycle that rx_accept lets in.
Acceptable ==
  IF core.state = "RUN" THEN [src : core.sound \ {Self}, row : Row]
                        ELSE {}

\* A packet's proposal lands in the current stage, its row in the previous.
Received(p) ==
  IF p = NoPacket THEN [core EXCEPT !.commit = NoCommit]
  ELSE [core EXCEPT !.commit = NoCommit,
                    !.current.proposals = @ \cup {p.src},
                    !.previous.rows[p.src] = p.row]

Stops(w) == Reboots(w) \/ ~enable

AfterTimingLoss(c) ==
  IF TimingLost /\ core.state = "RUN"
    THEN [c EXCEPT !.state = "HALT",
                   !.halt = [reason |-> "time_fault", round |-> roundId]]
    ELSE c

AfterStop(c, w) ==
  IF Stops(w) THEN [c EXCEPT !.state = "IDLE",
                             !.current.valid = FALSE, !.previous.valid = FALSE,
                             !.tx.row = {}, !.commit = NoCommit]
              ELSE c

AfterReboot(c, w) ==
  IF Reboots(w) THEN [c EXCEPT !.halt.reason = "none", !.excluded = FALSE,
                               !.run = 0, !.sound = {}, !.installed = {}]
                ELSE c

\* The asynchronous transitions, which take effect whatever the boundary does.
Settle(c, w) == core' = AfterReboot(AfterStop(AfterTimingLoss(c), w), w)

\* Between two boundaries only packets change anything.
Collect(w, p) ==
  /\ ~roundStart
  /\ Settle(Received(p), w)

\* MUTANT: the previous stage outlives the configuration it was gathered under.
ActivateKeepingPrevious(w) ==
  /\ roundStart /\ ActivationFires
  /\ Settle([core EXCEPT
               !.state = "RUN", !.commit = NoCommit, !.excluded = FALSE,
               !.run = config.run,
               !.installed = config.members, !.sound = config.members,
               !.current = [valid |-> TRUE, round |-> roundId, proposals |-> {Self}],
               !.tx = [round |-> roundId, run |-> config.run, row |-> {Self}]], w)

\* Cold start and live reconfiguration alike: the pipeline starts anew.
Activate(w) ==
  /\ roundStart /\ ActivationFires
  /\ Settle([core EXCEPT
               !.state = "RUN", !.commit = NoCommit, !.excluded = FALSE,
               !.run = config.run,
               !.installed = config.members, !.sound = config.members,
               !.current = [valid |-> TRUE, round |-> roundId, proposals |-> {Self}],
               !.previous = [@ EXCEPT !.valid = FALSE, !.rows = NoRows],
               !.tx = [round |-> roundId, run |-> config.run, row |-> {Self}]], w)

\* A configuration without this node: swallow the request, say so, go quiet.
Refuse(w, p) ==
  /\ roundStart /\ ActivationDue /\ ~ActivationFires
  /\ Settle([Received(p) EXCEPT !.excluded = TRUE, !.state = "IDLE"], w)

\* Disabled, armed and waiting, or halted: nothing to do at the boundary.
Wait(w) ==
  /\ roundStart /\ ~ActivationDue /\ core.state # "RUN"
  /\ Settle([core EXCEPT !.commit = NoCommit,
                         !.state = IF @ = "IDLE" /\ pending THEN "WAIT_ACTIVATE"
                                                            ELSE @], w)

\* The current stage retires; its observation is the row filed and advertised.
Shifted(c) ==
  [c EXCEPT !.previous = [valid |-> core.current.valid,
                          round |-> core.current.round,
                          proposals |-> core.current.proposals,
                          rows |-> [NoRows EXCEPT ![Self] = core.current.proposals]],
            !.current = [valid |-> TRUE, round |-> roundId, proposals |-> {Self}],
            !.tx = [round |-> roundId, run |-> core.run,
                    row |-> core.current.proposals]]

Fill(w) ==
  /\ roundStart /\ ~ActivationDue /\ core.state = "RUN"
  /\ ~core.previous.valid
  /\ Settle(Shifted([core EXCEPT !.commit = NoCommit]), w)

Commit(w) ==
  /\ roundStart /\ ~ActivationDue /\ core.state = "RUN"
  /\ EvalCommits
  /\ Settle(Shifted([core EXCEPT !.sound = EvalSoundSet,
                       !.commit = [round |-> core.previous.round,
                                   set |-> LocalRow]]), w)

\* MUTANT: the round the failure was detected in is recorded.
HaltAtDetection(w, p) ==
  /\ roundStart /\ ~ActivationDue /\ core.state = "RUN"
  /\ EvalHalts
  /\ Settle([Received(p) EXCEPT !.state = "HALT",
                       !.previous = [valid |-> core.current.valid,
                                     round |-> core.current.round,
                                     proposals |-> core.current.proposals,
                                     rows |-> NoRows],
                       !.halt = [reason |-> HaltReason, round |-> roundId]], w)

Halt(w, p) ==
  /\ roundStart /\ ~ActivationDue /\ core.state = "RUN"
  /\ EvalHalts
  /\ Settle([Received(p) EXCEPT !.state = "HALT",
                       !.previous = [valid |-> core.current.valid,
                                     round |-> core.current.round,
                                     proposals |-> core.current.proposals,
                                     rows |-> NoRows],
                       !.halt = [reason |-> HaltReason,
                                 round |-> core.previous.round]], w)

Protocol(w) ==
  \/ Activate(w)
  \/ Wait(w)
  \/ Fill(w)
  \/ Commit(w)
  \/ \E p \in Acceptable \cup {NoPacket} : Collect(w, p) \/ Refuse(w, p) \/ Halt(w, p)

\* What the properties remember, for as long as the node runs.
Remember ==
  LET runs == core'.state = "RUN"
      starts == runs /\ ActivateConsumed
  IN  /\ activatedAt' = IF starts THEN roundId ELSE IF runs THEN activatedAt ELSE 0
      /\ lastCommit' = IF starts \/ ~runs THEN -1
                       ELSE IF core'.commit # NoCommit THEN core'.commit.round
                       ELSE lastCommit
      /\ missed' = (runs /\ (TimingLost \/ (missed /\ ~starts)))

Cycle ==
  /\ PtpClock
  /\ Rounds
  /\ \E w \in Writes \cup {NoWrite} : Registers(w) /\ Protocol(w)
  /\ Remember

\* The clock has reached the end of the bounded run.
TimeIsUp == ~TimeLeft /\ UNCHANGED vars

Next == Cycle \/ TimeIsUp

Spec == Init /\ [][Next]_vars

-----------------------------------------------------------------------------
(* Properties. *)

TypeOK ==
  /\ TimingTypeOK
  /\ config \in Configs /\ asked \in Configs
  /\ pending \in BOOLEAN /\ ack \in BOOLEAN
  /\ writes \in 0 .. MaxWrite
  /\ core \in [state : States, run : Run \cup {0},
               installed : SUBSET Node, sound : SUBSET Node,
               current : [valid : BOOLEAN, round : RoundIds, proposals : SUBSET Node],
               previous : [valid : BOOLEAN, round : RoundIds, proposals : SUBSET Node,
                           rows : [Node -> SUBSET Node]],
               tx : [round : RoundIds, run : Run \cup {0}, row : SUBSET Node],
               commit : [round : RoundIds \cup {-1}, set : SUBSET Node],
               halt : [reason : Reasons, round : RoundIds],
               excluded : BOOLEAN]
  /\ activatedAt \in RoundIds
  /\ lastCommit \in RoundIds \cup {-1}
  /\ missed \in BOOLEAN

\* "Every node agrees by construction, regardless of when it was enabled"
\* (core.v:419): an armed core's round_id is the round of the PTP clock, except
\* in the one cycle in which the clock is past a boundary, or has misbehaved,
\* and the register does not know yet.
RoundIdIsAbsolute ==
  (armed /\ TimingRunning /\ ~TimeFault) =>
    \/ roundId = RoundAt(sec, ns)
    \/ roundId = RoundAt(sec, ns) - 1 /\ (BoundaryHit \/ SecondAdvanced)

\* The stages of a running core are those of the round it is in: rx_accept
\* compares a packet with round_id_reg and files it under current_stage_reg and
\* previous_stage_reg, so the three must never drift apart, whenever the
\* core was armed, activated or reconfigured.
StagesKeepStep ==
  (core.state = "RUN" /\ ~missed) =>
    /\ core.current.round = IF roundStart THEN roundId - 1 ELSE roundId
    /\ core.previous.valid => core.previous.round = core.current.round - 1

\* From the round it was activated in, a core commits every round until it
\* stops: no boundary pulse is lost at a rollover of the second, none comes
\* twice, and nothing gathered before the activation is committed after it.
CommitsAreContiguous ==
  [][(core'.commit # NoCommit /\ core'.state = "RUN" /\ ~missed) =>
       core'.commit.round = IF lastCommit = -1 THEN activatedAt
                                               ELSE lastCommit + 1]_vars

\* A core runs under the configuration software armed, as a whole, and not
\* before the round it names: not with registers written later, nor at a round
\* of which only one half had been written.
InstalledAsAsked ==
  [][(pending /\ ActivateConsumed /\ core'.state = "RUN") =>
       /\ core'.run = asked.run
       /\ core'.installed = asked.members
       /\ roundId >= EffectiveRound(asked)]_vars

\* HALT_ROUND is "the round_id of the stage that failed, not the round in which
\* the failure was detected" (core.v:50), two rounds earlier.
HaltNamesTheFailedStage ==
  [][(core.state = "RUN" /\ core'.state = "HALT" /\ ~missed) =>
       core'.halt.round = IF core'.halt.reason = "time_fault" THEN roundId
                                                             ELSE roundId - 2]_vars

\* The evaluation is a mirror of the simulator's _evaluate_round_boundary
\* (core.v:796), although it scans the sound set where the simulator scans
\* the membership: rows of nodes outside the sound set are always empty.
MirrorsTheSimulator ==
  (core.state = "RUN" /\ core.previous.valid) =>
    LET verdict ==
          Verdict(Self, core.installed, core.previous.rows,
                  [m \in Node |-> IF m \in core.previous.proposals
                                  THEN core.previous.round ELSE NoProposal],
                  core.sound)
    IN  HaltReason = IF verdict = "commit" THEN "none" ELSE verdict

\* "A step, a backward jump or a lost lock all mean the same thing: this node
\* can no longer say which round it is in.  Recovery is never automatic"
\* (core.v:838): so a committed round was judged two rounds after it began.
CommitsNameTheirRound ==
  [][core'.commit # NoCommit => core'.commit.round = roundId - 2]_vars
=============================================================================
