# Verification of syncons

TLA+ models of syncons, TLC configurations that check them on small instances,
and TLAPS proofs that hold for every instance. Paths below are relative to the
repository root.

syncons is a synchronous, round-based replicated log. In every round each node
broadcasts a proposal together with the set of peers it heard in the round
before (its *row*). A node commits a round when a quorum reports the very row it
has itself, and halts otherwise. A control plane brings stopped nodes back by
repairing their log and switching the whole cluster to a new configuration at
one announced round. The repository holds a simulator of the protocol (`sim/`)
and a hardware prototype (`prototype/`: Verilog for the NIC with its cocotb
driver and test benches, a C++ host control plane, a kernel driver).

## 1. Inventory

| Component | Code | State | Operations |
|---|---|---|---|
| Judging a stage | `sim/protocol/node.py:58-125`, `:277-356` | none (pure) | quorum, agreed row, sound set, commit set, verdict |
| Node round pipeline | `sim/protocol/node.py:358-590` | round, status, sound set, two stage buffers, frontier, digest | `advance_round`, `receive`, `crash` |
| Node control-plane interface | `sim/protocol/node.py:127-275` | installed config, pending config, membership state, one-place mailbox | pull an update, switch, install a repair log, acknowledge |
| Control plane | `sim/control/control_plane.py` | collection window, episode, pending config, scheduled actions, queued interruptions, repair logs | notes from nodes, `advance_to_time`, `__call__` |
| Cluster runtime | `sim/runtime/cluster.py` | round loop, mailboxes, commit histories, in-flight packets | control turn, node turns, delivery |
| Fault models | `sim/runtime/network.py`, `sim/scenarios/faults.py`, `random_campaign.py` | scripted or random faults | delay, loss, duplicate, row and round override, crash |
| Scenarios, campaign | `sim/scenarios/builtin.py`, `sim/runtime/cli.py`, `random_campaign.py` | a finished run | expectation, safety violations, summary |
| Host coordinator | `prototype/host/src/coordinator.cpp`, `apps/ssr_coordinator_main.cpp` | coordinator state, session id | prepare, start, stop, each a parallel call to all agents |
| Host agent and mock backend | `prototype/host/src/agent.cpp`, `agent_grpc_service.cpp`, `agent_dataplane_backend_mock.cpp` | agent state, backend state, run configuration | the three request handlers |
| FPGA core | `prototype/fpga/rtl/core.v` | CSR block, time base, run state machine, staged configs | configure, activate, round timing, halt, reboot |
| FPGA proposal path | `proposal_dma_reader.v`, `proposal_buffer.v`, `tx_engine.v` | ring of slots, a beat held for the MAC | fetch a batch, commit a slot, send it in a round, pop it |
| FPGA commit path | `commit_buffer.v`, `commit_dma_writer.v` | ring of slots, two host buffers | store a commit, write it to the host, change buffers, stop |
| Dataplane driver | `tb/mqnic_core_pcie_us/ssr_dataplane.py` | device state, region, record queue, poll task | `propose`, `start`, `stop`, `run`, `recv`, `open`, `close` |
| FPGA transmit multiplexer | `ssr_tx_mux.v` | grant, port register, completions | arbitrate frames, route completions |
| FPGA receive path | `rx_engine.v`; `consensus_rx*.v` | one pending payload | parse, accept, write the commit ring |

How they interact. `ClusterRun.run()` calls the control plane, then each node in
id order, then the network, once per round. Updates reach a node through a
mailbox of one place that the next push overwrites; a node's events (halt,
crash, acknowledgement) reach the control plane right after its turn; packets
are the only thing nodes share. On the host side the coordinator calls all agents at
once and waits for all of them, each with a deadline; an agent drives its
backend under one lock. Driver and FPGA share host memory and registers: the driver
arms buffers and starts batches by register writes, polls status registers, and the
DMA engines read and write its memory meanwhile. The core starts a frame with one
pulse per round, the transmitter takes a slot from the ring, the multiplexer merges
its frames with the host's, and the peer's receive engine turns them into evidence and
into writes of its commit ring.

What is hard in them, and what makes them correct:

* *Judging and pipeline*: nodes judge on different evidence after different
  losses; the verdict lags two rounds; evidence must be filed under the stage it
  was given for. Correct: no two nodes commit different things for a round; what
  is committed was witnessed by a quorum; a log has no holes within a run; a
  silent peer does not come back within a run; a crash the quorum survives halts
  nobody.
* *Rejoin*: crashes and halts in every phase of an episode, an abort and a
  commit that fall due together, an update lost in the mailbox, a repair source
  that is itself incomplete, stages of two configs. Correct: logs stay
  consistent across runs, nothing committed is lost, no stopped node is
  forgotten, everyone comes back once the faults end.
* *Scenarios and campaign*: packets that are delayed, doubled, relabelled or
  corrupted meet packets of their own round. Correct: a scenario ends as it says,
  the campaign raises no false alarm.
* *Host control plane*: late, lost and refused requests, partial success,
  processes that end and start again. Correct: only a restart mixes sessions, the
  coordinator is right about its agents, nobody runs what others were not
  prepared for, an agent is right about its backend.
* *FPGA core*: boundaries, activations, register writes and clock faults in one
  cycle. Correct: rounds follow absolute time, stages keep step with them, commits
  have no gaps, what software armed is installed as a whole, the verdict is the
  simulator's.
* *Data paths and driver*: rings at their limits, a register that decouples two
  state machines, back-pressure, errors in the middle of a transfer, a driver that
  times out, is refused, restarts or reads two registers one after the other.
  Correct: records are neither lost, repeated nor reordered, the driver never reads
  what the engine is writing, what is offered leaves in the end, frames leave whole,
  nobody is left waiting.

`PROJECT.json` lists every hazard at its line with the properties that would
catch it.

## 2. Modules

| Module | Models | Extends |
|---|---|---|
| `SoundMatrix` | the pure rules of `node.py` that judge a stage | |
| `CommitLog` | abstract: one growing log, nodes have prefixes of it | |
| `FastPath` | the nodes of one run over an asynchronous, faulty network | `SoundMatrix` |
| `FastPathProofs` | types, agreement, witnesses; contiguous logs, shrinking commit sets; `FastPath` implements `CommitLog`; without loss, crashes that leave a majority halt nobody | `FastPath` |
| `ControlPlane` | the control plane as operators on its state | `SoundMatrix` |
| `ControlPlaneProofs` | what the operations of the control plane preserve | `ControlPlane` |
| `Cluster` | nodes, control plane, mailboxes, histories and repairs in lockstep | `ControlPlane` |
| `Rejoin` | the cluster under any few faults | `Cluster` |
| `Scenarios` | the cluster under the repository's fault models, with its delivery queue | `Cluster` |
| `ClusterProofs` | agreement, ordered logs, digests and bookkeeping across cutovers under any faults; `Rejoin` and the scenarios are such clusters; a campaign run is clean, and one fault stops one node | `Rejoin`, `Scenarios`, `ControlPlaneProofs` |
| `HostControl`, `HostControlProofs` | coordinator, agents and backends | |
| `CoreTiming` | how `core.v` turns PTP time into rounds, cycle by cycle | |
| `Core` | one node's `core.v`: registers, activation, evaluation, halt, reboot | `SoundMatrix`, `CoreTiming` |
| `CoreProofs` | the verdict is the simulator's; rounds are absolute, stages keep step, commits have no gaps | `Core` |
| `CommitPath`, `CommitPathProofs` | ring, writer, two host buffers, driver | |
| `ProposalPath`, `ProposalPathProofs` | driver, batch reader, ring, transmitter | |
| `Frames` | transmit multiplexer, completions, receive engine of the peer | |
| `FramesProofs` | frames leave whole, completions go home, no payload is lost at the ring | `Frames` |
| `MCFastPath`, `MCCore`, `MCFrames`, `MCScenarios` | symmetry, frames and runs for TLC | the module they are named after |

### FastPath

A stage record has the fields of `StageState` that matter: `round`, `row` (whom
the node heard), `proposals`, `rows` (what peers say they heard). `BoundaryDue`
and `Shift` are the frame of `advance_round()`; its four ways out are the
actions `SitOut` (not running, or not in its own sound set), `FillPipeline`
(no stage to judge yet), `CommitStage` and `HaltStage`. `Receive` is `receive()`
for a packet that passes its filters; the packets it ignores change nothing.
`sent` only grows and a packet in it can be received at any later time, again,
or never: that is loss, duplication and delay. `ReceiveCorrupted` is
`Delivery.row_override`. `Crash` may come between any two steps; the simulator
crashes nodes at a boundary only, so the model has more behaviours there.

`ImplementsCommitLog` is the refinement: `Decision` maps the logs of the nodes to
the one log of `CommitLog`, `frontier + 1` to the prefix a node has applied.

### ControlPlane, Cluster, Rejoin, Scenarios

`ControlPlane` translates `OnlineRejoinControlPlane` function by function:
`NoteInterruption`, `NotePrepareAck`, `AdvanceToTime` (windows, due actions in
the order of their times and names, repair logs) and `ControlState`
(`__call__`). `Cluster` has the turns of `ClusterRun.run()`: `ControlPlaneTurn`
pushes changed updates and repair logs; a node's turn begins with `Briefed`
(switch if due, then pull the mailbox: reboot, repair, reset of the pipeline),
acknowledges and then takes one of the four ways through the boundary; a crash
replaces a node's turn. The fast path is repeated there in lockstep form, because
updates and switches change its state in mid-round.

`Cluster!FaultySpec` puts no limit to the faults: any node may crash at its turn, and any
packets of a round be lost (`DeliverAllBut`). `Rejoin` and `Scenarios` say what the faults
are that are run. In `Rejoin` a node may crash at
each of its turns and the packets of a round be lost, up to bounds: in lockstep a
delayed packet is a lost one, for `receive()` counts none of another round.
`Scenarios` keeps `ClusterRun`'s queue of scheduled deliveries with delayed,
doubled, relabelled and corrupted packets, gives each fault model as the set of
answers it may give (one for a scripted model, any for the campaign's random ones)
and restates the checks of finished runs: `ExpectationFailures`,
`BudgetFailures` with the relaxed comparison of `cli.py`, `SafetyViolations` and
`TrialSummary`. The expected outcomes are the literals of `builtin.py`.

### HostControl

`Prepare`, `Start`, `Stop` send the requests of an operation; `GiveUp` is a
deadline or a broken connection; `Finish` is the evaluation of the outcomes. A
request is served (`PrepareAgent`, `StartAgent`, `StopAgent`, the failing
`FailToPrepare` and `FailToStartOrStop`, or `Refuse`) or lost at any time, also
after its coordinator has given up or ended; the answer then counts for nothing.
`StopTooEarly` is `main()` accepting "stop" in state Ready
(`apps/ssr_coordinator_main.cpp:451-480`), where `agents_stop()` throws and the
process ends.

### CoreTiming and Core

A step is a clock cycle, and in each the PTP clock, software (one register
write at most) and the network (one packet at most) act together. `CoreTiming`
is section 2 of `core.v`: its `Rounds` chooses exactly one of `Disarm`, `LetGo`,
`Arm`, `Rollover`, `Advance` and `InRound`. `Core` adds the control registers
(`Registers`) and section 3: `Activate`, `Refuse`, `Wait`, `Fill`, `Commit` and
`Halt` are the ways through a round boundary and `Collect` any other cycle.
Verilog lets the last assignment win, and three conditions at the end of the
block override what the boundary did; `Settle` applies them in their order
(loss of timing, stop, reboot). The wires are read before the step and the
registers written by it, so an action sees the registers of the cycle before.
`asked`, `activatedAt`, `lastCommit` and `missed` exist for the properties only.
Configuration registers survive a reboot, so a run may begin with them staged.

### CommitPath

A commit is a number. `Arrive` stores one in the ring; `Engine` is a cycle of
`commit_dma_writer.v` without a register write, `Cycle` one that sees the pulse of a
write (arm, clear, start, stop). The driver is three coroutines: the caller of
`start()` and `stop()` (`call` is the list of register accesses it still has to make),
the task of `run()` (`task`: it polls the two status words one by one, counts the
records, copies them, clears the buffer and arms it again), and a receiver. Between two
awaits a coroutine is one step, and anything may happen at an await: the engine goes
on while `run()` copies, and `stop()` cancels the task wherever it is. A failed write
leaves its slot in the ring and the engine in ERROR until the next start. `overtaken`,
`hasty` and `failed` are history for the properties: `overtaken` marks a pass that found
a buffer full while an older one was full too, `hasty` a `start()` or restart that wrote a
register while the engine was not yet at rest.

### ProposalPath

`Cycle` is a clock cycle of all three hardware modules together, in an `Event` that says
what the DMA engine, the RAM, the MAC and the core's start pulse do in it: `Reader` is the
batch reader, `Ring` and `Feed` the ring and the engine that reads it out, `Transmit` the
transmitter. They read the registers of the cycle before: `reader.commit` is a slot whose
commit is still being presented, which the ring does not count yet, and `tx.held` the beat
that decouples buffer and MAC. `Clock` is a cycle without the driver; `Propose` and the
steps of `Driver` are `propose()`, `submit()` and `wait_done()`, a register access each,
with time-outs and with calls that do not wait. `fetched`, `wire`, `promised`, `trampled`
and `failed` are history.

### Frames

A source is at a place (`todo`): the frame and the beat in it that it presents next.
`MuxCycle` is a cycle of the arbiter (a grant lasts to the last beat, a source sees the
port's ready only while it is granted), `Offer` a source that presents its next beat,
`Complete` the port's completion of a frame, which the multiplexer either retires to the
interface or counts for the SSR engine, `RxCycle` a cycle of `rx_engine.v` on its own
clock, with an own payload that may arrive in the cycle of an accepted frame. The core's
answer is an input (`accepted`): whether it listens to that sender is `Core`'s subject. The
rounds appear as the distance of own payloads (`since`) and as the frames the peers send in
it (`shown`, bounded by `BurstIsOver`); how many frames and rounds there are is left open.

## 3. Runs

| Run | Instance | States | Shows |
|---|---|---|---|
| `FastPathAgreement` | 3 nodes, 6 rounds, 1 crash, loss, delay, duplicates | 148 141 | agreement, witnessed commits, refinement of `CommitLog` |
| `FastPathFaults` | 3 nodes, 5 rounds, 1 corrupted row | 170 680 | what corruption cannot break: contiguous logs, shrinking commit sets |
| `FastPathLossless` | 3 nodes, 6 rounds, 1 crash, no loss, fairness | 7 921 | nobody halts for a crash; every survivor commits every round |
| `Rejoin` | 3 nodes, 30 rounds, 2 crashes and a loss by round 7, commit deadlines early and late | 378 821 | consistent logs, no lost entries, gaps at cutovers only, nobody forgotten, everyone comes back |
| `RejoinEven` | 4 nodes, 40 rounds, 3 crashes by round 4 | 65 000 to the counterexample | *violation*: the cluster never gets together again |
| `Scenarios` | 3 nodes, the simulator's timing, ten scenarios of 5 to 58 rounds, a campaign of 8 rounds and 3 faults | 158 698 | scenarios end as documented, the campaign raises no false alarm, one fault stops one node |
| `HostControl` | 2 agents, 3 sessions, 1 restart of each agent | 511 680 | two phases, no mixing but after restarts, right coordinator, right agents |
| `Core` | 3 nodes, 6 rounds of 3 cycles over 2 seconds, 3 register writes, 1 clock fault | 572 412 | rounds are absolute, stages keep step, contiguous commits, armed configs whole, verdicts as in the simulator |
| `CoreMissedFault` | the same with 1 write | 5 700 to the counterexample | *violation*: a clock fault in the cycle of an activation is survived |
| `CommitPath` | 6 commits, ring of 2, two buffers of 2, 1 restart, 1 failed write, fairness | 336 581 | records in order and once, buffers owned by one side, no stranded receiver, full buffers get read |
| `ProposalPath` | 4 records in batches of 1 to 3, ring of 2, slots of 2 beats, 1 failed read, fairness | 346 552 | whole slots on the wire in order, what is confirmed is on its way, all of it leaves |
| `Frames` | SSR frames of 1, 1, 1, 1 and 2 beats, host frames of 2 and 1, 2 beats on the wire, 2 own payloads at least 3 cycles apart, bursts of 2 | 1 051 201 | whole frames, completions to their owners, every payload in the commit ring |

Bounds. `MaxRound`: a stage is judged two rounds after it was opened, so five
or six rounds hold three or four judged stages, the first with a full sound set and
the others after it has shrunk. Three nodes are the least with a quorum that
survives a crash, and 2 of 3 the quorum where one node decides; four are the
least with an even cluster (`RejoinEven`). The timing constants of `Rejoin` are
not the simulator's microseconds: they are ticks, of which a round has two, small enough for
an episode to last five to eight rounds, and the delay of an install is varied (below);
`Scenarios` has the simulator's values. Faults in the first eight rounds hit each phase of
the first episode and the beginning of the second. `InstallDelays` are the values INSTALL_DELAY may have: 4
makes the abort of an episode fall due together with its commit after a late
acknowledgement, 5 lets the late commit win; `Rejoin` chooses one of them at the start.
In `Scenarios` each scenario is run for the rounds it
documents, one less (where its expectation is not applied) and three more (where
the relaxed comparison of `cli.py` is). Eight campaign rounds judge six stages,
and three faults are enough to stop three nodes.

Three sessions let a request of the first one meet an agent of the
third; one restart of each agent is enough to mix sessions. `MaxCrash`, `MaxLoss`,
`MaxCorrupt`, `MaxFaults`, `MaxSession`, `MaxRestart`, `MaxError` bound the faults.

In `Core` a round of three cycles has one that is neither its first nor its
last, three rounds make a second and two seconds have one rollover between
them; six rounds take a core from its activation through the filling of both
stages to three judged boundaries. Three writes are a whole life of software:
stage or enable, arm, and one thing too many. `Jumps = {4}`, more than a round and
less than a second, moves the clock within the second or across its end. The rounds
of `CONFIG_EFFECTIVE_ROUND` are in two halves of two values (`HalfRange`), which is
enough for a half-written value to differ from both.

In `CommitPath` six commits fill both buffers of two and go round to the first again; two
starts are one restart, after which buffers, ring and a late receiver are what the first
run left. (With `MaxStart = 3`, 1 472 323 states, the properties hold as well.) In
`ProposalPath` a region of three is larger than the ring of two, so a batch stalls in the
middle; two beats are the least slot that has a last beat which is not its first (one
beat is a case of its own, see section 6). In `Frames` own payloads are at least
three cycles apart (`OwnGap`), and in three cycles that begin with one the core is shown two
frames at most (`Burst`): the least gap in which a payload waits more than a cycle. There are
four frames of one beat, so a burst of two can follow each of the two own payloads. The bound
stands for the TDMA slots, on which the one register of `rx_engine.v` relies (lines 139-142):
a round has a sub-slot for every node and a peer sends one frame in it, so few of a round's
cycles see a frame. With three frames in three cycles `RingGetsEveryPayload` fails.

Symmetry is declared only where no property compares node ids and none is temporal, but
for the refinement and the action properties of a single step, which TLC checks on
transitions.

Fairness. `FastPath!FairSpec` asks that an enabled round boundary is eventually
taken and that a receiver which could accept a packet eventually accepts one:
`ClusterRun.run()` visits every node in every round and its queue delivers every
packet the network does not drop. Only `FastPathLossless` uses it; in that run
packets are not dropped. In `Rejoin` the lockstep loop leaves no choice but the
faults, so its recovery property is an invariant of the last round, and the
deadlock check shows that every behaviour gets there. `CommitPath!FairSpec`: the clock
runs (and with it the DMA answers), and the event loop resumes a coroutine whose
register access has returned; nobody has to call `start()`, `stop()` or `recv()`.
`ProposalPath!FairSpec`: the clock and the driver go on, the DMA engine and the RAM
answer, the MAC takes a beat it is shown long enough, and rounds go on starting; nobody
has to propose.

## 4. Proofs

`FastPathProofs` (for any finite set of nodes, any number of rounds and crashes):

* `TypeCorrect`: the types, without restriction on faults.
* `AgreementInvariant`, under `MaxCorrupt = 0`. Agreement is not inductive. What
  carries it: a node sends one packet per round (`SentInv`); every row filed
  under the stage to be judged was broadcast by its sender in the current round
  (`RowsAreEvidence`, part of `PipelineInv`); hence each log entry has a
  quorum of nodes that broadcast its row (`CommittedRowsAreWitnessed`), and an
  entry is determined by its round and its row (`LogInv`).
* `Agreement`: two entries of the same round have quorums that share a node, and that
  node has sent one row.
* `CommitsAreWitnessed`: the run's property, for every instance.

Its second half needs no restriction on corruption. `LogsInvariant` proves `LogsInv`:
the two buffers of a running node are one and two rounds ahead of its log (`InStep`), and
whoever has no row in a stage is not heard in the round after it (`CutsOff`), so that the
sound set a commit leaves is contained in the row before, and that row in all commit sets
before it. The property alone does not say that: between the round that
loses a peer and the verdict that narrows the sound set, two more stages are collected with
the old one. `LogsAreContiguous` and `NobodyReturns` follow.

`Refinement`, under `MaxCorrupt = 0`, is `Spec => ImplementsCommitLog`. Let h be the
frontier of the furthest node (`Reached`). The logs are contiguous and agree, so their union is a sequence of h + 1 rounds
(`DecisionIsOfLogs`). A commit by a node that is not at h adds nothing to it: `Learn`. A
commit by one that is appends a majority: `Decide`, whose condition that members only ever
get fewer is `NobodyReturns` for the node that decides. Everything else leaves the logs
alone (`OthersStutter`).

The last part of the module, under `MaxCorrupt = 0` and `~Lossy`: `CrashesHaltNobody`. A node
halts when the rows of a stage disagree or too few are left, so one has to know that all
nodes learn of a crash in the same round. No node is more than a round ahead of another
(`InLockstep`), and a round ends at a node only when it has heard whoever sent in it; a
crashed node has sent in full or not at all. So the senders of a round are its row on every
node that runs (`HearsAll`), every packet says so (`TellsAll`), and a stage that is judged
is committed (`JudgedIsCommitted`). The invariant holds as long as more nodes are left than
have crashed (`MinorityCrashed`), a condition that can only stop holding, and claims
nothing afterwards.

Assumptions: `NodeAssumption` (a finite set of nodes), `FastPathAssumption` (the
bounds are naturals), and `MaxCorrupt = 0` where stated. It cannot be dropped there: with
one corrupted row TLC finds two nodes that commit different things for a round.

`ControlPlaneProofs` (for any finite set of nodes and any delays) has no specification of
its own: it shows of each operation of `OnlineRejoinControlPlane` that it preserves
`ControlPlaneInv`, and what else it leaves alone. The deadline of a window, its reports, the
episode and its targets come and go together (`WindowInv`), so everyone who is not ACTIVE is
in one of them or waits (`StatesInv`); a pending config is the episode's and, once committed,
acknowledged by each of its members (`PendingInv`). The commit is an action scheduled for
later, so that last part rests on the schedule: the actions of the present episode fit the
status of its config, and there is one of each kind (`ItemsInv`). `advance_to_time()` takes
the due actions out of the schedule and then applies them one by one, an abort among them
clearing what the others are for; `ItemsInv` is therefore about the schedule together
with what is due and not applied yet. The loop is a recursive function over the naturals
(`ApplyActionsKeep`, by `SetInduction`: a set of naturals that holds 0 and each successor
is all of them). `TurnKeeps` sums up a turn: it stays in the run, and then activates nobody,
keeps a committed config and makes up no acknowledgement, or it is a cutover to the next
epoch.

`ClusterProofs` (for any number of nodes, any timing, any number of crashes, losses, episodes
and cutovers): `Invariance` proves `IInv` of `FaultySpec`, the cluster in which any node may
crash at its turn and any packet be lost. The nodes lag behind the control plane by a
mailbox, and each of them may be at another point of the round, so the question is what may
still be done on an old config:

* Nothing (`BriefInv`). A node pulls its mailbox and switches at its turn, so whoever is
  active after its turn has the present config and is ACTIVE for the control plane too;
  a node that is told late is one that does not run, or comes back with empty stages.
* The stages of those who go on are of the last two rounds of the present epoch, or empty
  (`StageInv`), and a node sends one packet in a round and puts in it the row it keeps
  (`PacketInv`).
* Hence every entry that was committed for the round two before this one has a majority of
  nodes that sent its row in the round before (`EvidenceInv`); two majorities share a node.
  The row each node has sent is not a variable: the invariant says that there is one
  such function, and the network's turn supplies the next.
* Repair logs reach at most to three rounds before this one (`EntriesInv`), so a
  repair cannot put another entry where a commit goes.
* Each log is in order, and a node that goes on has committed up to its stages or nothing in
  this run; its sound set is in every commit set of the run (`LogInv`, `UpToDate`). An update
  widens the sound set to the membership again, but the verdict of the same turn, which goes
  by rows collected before, narrows it: that is why `NobodyComesBackWithinARun` holds.

The first run is better than the later ones. Until a cutover every log begins with round 0
and misses nothing (`FirstRunInv`), and any two agree. A cutover alone
(`ActivateCutoverIfDue`) ends that run, and the theorem is `NothingIsFoundBeforeACutover`: in config 0 there is nothing
for `safety_violations()` to find, under any faults.

What `Rejoin` and `Scenarios` run are such clusters (`RejoinIsFaulty`, `ScenariosAreFaulty`), so
each theorem about `FaultySpec` is one about both:

* `Agreement`, `NoGapsWithinARun`, `ExclusionLasts`, `StoppedNodesAreTracked` and
  `CommitsAreAcknowledged` are the properties of the runs `Rejoin` and `RejoinEven`.
* In `Scenarios` there is a queue, on which packets of earlier rounds wait and to which the
  fault models add relabelled and doubled ones. Whatever it hands over, a node counts the
  packets of this round that were sent to it, each as it was sent: of the rest `receive()`
  takes nothing (`AdvanceIsFaulty`). That is the same as losing some. It is not so for
  the packet whose row `ack_bitmap_corruption` falsifies, which is therefore excluded
  (`Faithful`). `ScenariosAreSafe` states the five properties for all the others.
* `CampaignIsClean` is `CampaignFindsNoViolation`, for campaigns of any number of nodes and
  faults. `CampaignIsShort` is what it needs: a run ends before an episode that
  begins with the first round can have come to its cutover. The campaign's 8 rounds
  (`random_campaign.py:18`) are fewer than the 10 that `cutover_slack_rounds`
  (`control_plane.py:30`) puts between a prepared config and its activation, whatever the
  delays are. In a longer one the false alarms of section 5 would be possible.

`OneFaultIsTolerated` is `OneFaultStopsOneNode`, for three nodes or more (with two, each fault
stops both). That one fault stops one node is not inductive: what has to be known is what the
others have heard, and of each other's hearing, in the two stages they hold. Let v be the node
that crashes or loses a packet. Then all others hold the same rows (`Uniform`): C and P, of
the last two rounds, in which v alone may be missing, the row R that v has sent, and one sound
set. So a stage is judged alike by all of them; those who sent P are a majority even without v,
and v stays counted if its row is P too (`Judged`, `VerdictIs`). Hence their turns never sit
out or halt (`TurnIsOpened`), whatever v does in its own turn (`TurnKeepsUniform`). A round
after which v has been heard by one of them has been heard by all (`NetworkKeepsUniform`), since
only packets to v can be lost. As long as there was no fault, v can be anybody (`AnyVictim`); the
first fault chooses it: the node that crashes, or the receiver of the packet the campaign picks
(`AdvanceKeepsFaults`). The second half of the property, that the others commit every round, is
`FirstRunInv`. It needs that whoever runs is ACTIVE for the control plane, hence
`CampaignIsEarly`: the last of the campaign's 8 rounds starts at 28 microseconds, and a stop is reported
after 10 and collected for 20 (`types.py:77-79`), so no window closes in a run and the control plane does nothing but mark
nodes as failed (`BeforeFirstEpisode`, `NothingIsDue`). A run must have two rounds at least.

`DigestsFollowHistories` is about the two accounts there are of a log: the node's digest, which chooses
the repair source, and the history in `ClusterRun`, which is what is repaired.
The history is replaced when the control plane pushes, the digest when the node pulls. As
long as no node has crashed, the two agree whenever the mailbox is empty, and a repair that waits in a mailbox is
the log its history has been replaced by (`DigestInv`). Only a crash parts
them (section 6).

Assumed are the ranges of the constants (`NodeAssumption`, `TimingAssumption`,
`ClusterAssumption`, `RejoinAssumption`, `ScenariosAssumption`): node ids are 0 to N - 1,
rounds and delays are naturals and a round takes time. How many faults there are does not matter.

`HostControlProofs` (for any set of agents, any number of sessions and restarts):
`Invariance` proves `IInv`. A start or a stop under way pins its agent: the
agent is in the state the request is for and holds its session, until the
request is served or lost (`RequestsPinAgents`). That requires the coordinator
to be right when it sends the requests (`StateHolds`), which rests on the answers
staying true as long as the operation lasts (`AnswersHold`). From it follow
`TypeCorrect`, `SessionsStayApart`, `CoordinatorIsRight` and `TwoPhases`;
`AgentsKnowTheirBackends` is inductive by itself.

`CoreProofs` (for any cluster, geometry of rounds, number of writes and clock
faults): `Invariance` proves `IInv`. That the hardware judges as the simulator does
is not inductive: the core scans its sound set and the simulator the membership, so
nobody outside the sound set may have a row in the stage (`SoundEvidence`). That
holds only while the core runs, for a reboot empties the sound set and
leaves the stages alone. One lemma (`ProtocolStep`) shows it of what each action
makes of the registers, another (`Settled`) that a core which still runs after
the overrides has met none of them. `Mirrors` and `Installed` follow. `TypeOK` is not
inductive either: `Advance` adds one to `roundId` for as long as it likes, and what
bounds the count is that it is a round of the second the registers know, from which
a boundary cannot lead (`Aligned`, `RoundsKeep`), whatever the clock does. `Typing`
follows. The proofs need `Self \in Node` and the ranges of the registers
(`CoreAssumption`, `CoreTimingAssumption`) and not that the clock behaves.

The second half of `CoreProofs` proves what does need it, for every geometry with `RoundLength >= 2`
(the elaboration check at `core.v:161` makes a round longer than its guard and sub-slots).
`TimeInvariance` proves `TimeIInv`. The registers see the clock a cycle late, so they are
compared with the second they know: they hold a round of it (`Aligned` again), and
the clock is in that round, at its end, or at the start of the next second with the
registers in the last round of theirs (`Follows`), unless a wire says that time is
lost. A fault may move the clock anywhere; `RoundsAlign` shows that whatever arms or
advances the registers afterwards leaves them in the round the clock was in. Hence the
register and the pulse go together (`RoundAdvances`), the stages follow the register
(`StageInv`: current stage, previous stage and the round due next are consecutive), and
`AbsoluteRounds`, `StagesFollow`, `Contiguity` and `HaltNaming` are the run's properties.
`missed` is excluded: that is `CoreMissedFault`.

`CommitPathProofs` (for buffers and rings of any size, any number of commits, restarts and
failed writes): `CommitPathInvariant` proves `IInv`, `ReadersOwnTheirBufferHolds` the run's
property. What keeps driver and engine apart is one bit per buffer. The engine works in
an armed buffer only (`WorksInArmed`), and disarms it when it is full (`FullIsDone`). The
driver reads full buffers only (`TaskHolds`), and its arming write is the last thing it
does. No other command can reach the buffer it reads: `run()` lives only while the device
runs, where `stop()` alone can be called (`TaskAlone`, `RunningCalls`). `CycleKeeps` shows
the first two of a cycle of the engine with any command, `CycleKeepsHold` that a cycle
without a command for the buffer leaves the driver's hold intact. `NobodyIsStranded` needs
that the queue is a sequence of which no more was taken than it holds (`QueueOK`).

Its second half proves `RecordsArriveInOrder`, from `IInv` and `OrderInv`. It says where each
commit is. The ring holds the last that arrived (`RingInv`), and what has left it is in the
two buffers, in order within each, all of the one that was filled first before all of the
other (`ContentInv`; `Older`, `Newer`). A transfer goes to the place it was started for, even
if a `start()` that does not wait clears the count under it (`Held`, `TransferInv`). What has
been delivered is older than whatever is still to be delivered, and `run()` has the older
buffer in hand (`TurnInv`): that is where a pass that was overtaken breaks the order. A
buffer that has been copied still holds its records, and so does one that `stop()` left full;
neither will be delivered again, because `start()` clears it before `run()` sees it
(`Undelivered`, `Leftover`, `CallInv`). Within a run nothing is lost: the commits that left the
ring are those delivered, then those of the older buffer, then those of the newer
(`ExactInv`), which a `start()` that found the engine at work could break, and nothing else.
One lemma per step: a cycle of the engine with any command (`StoreStep`, `TurnStep`,
`ExactStep`, together `CycleStep`), the copy of a buffer (`CopyStep`), the writes of `start()`
(`StartWriteStep`), the end of `stop()` (`StopStep`).

`ProposalPathProofs` (for regions, rings and slots of any size, slots of one beat included, any
number of calls and failed reads) has two invariants. `PathInv` follows a record through the
hardware; nothing is supposed of the moments at which the memories, the MAC and the core
answer. The reader fetches into the tail slot, which is free until its commit has been counted
(`ReaderInv`): it writes no slot that is queued (`QueueInv`). The feed shows the head slot, which
stays until its last beat is taken (`FeedInv`). The transmitter holds the beat that was taken
last or none (`HeldInv`), so there is always one next beat to leave (`LeavingSlot`,
`LeavingBeat`): the next of the open frame's slot or, between frames, the first of the slot
after the last frame's (`WireInv`). That also covers the beat that is taken for the
next frame while the last of this one leaves. `LeavingStep` shows that the place moves by one
when a beat leaves and not otherwise; `FramesAreSentAsFetched` follows.

`FetchInv` says what is fetched. A call that has seen the engine idle runs alone to its end: its
batch has fetched just its own first records so far (`BatchInv`), because nobody rewrites the
region while it waits (`LoadInv`, `CallRegion`). Hence DONE without ERROR means that the last
`count` records fetched are the call's. It does not say so of a batch that nobody waits
for: the next call may rewrite the region under it. As long as that has not happened, whatever
a batch has still to fetch is larger than all that was fetched before (`OrderedInv`).
`FetchedAreOnTheirWay` puts both together: every record fetched is in a whole frame, in the
transmitter's register or in the ring. `PromisesAreKept` is the run's property. Assumed is
`ProposalPathAssumption`: region, ring and slots are not empty.

`FramesProofs` (for any number of frames of any number of beats, any number of own payloads and any
bound of the wire): `Invariance` proves `IInv`, of which each part speaks of one stretch of
the path.

* `MuxInv`: a source that is inside of a frame holds the grant, and its last beat was the
  last to leave; what has left of a source is all that lies before its place. A beat that
  leaves is the one at the place (`FollowingIs`), so `FramesAreWhole` is kept.
* `CplInv`: the completions that wait are of the frames between the last one that came back
  and the place, in order for each source, whatever the order between the two. The oldest
  is therefore the next of its source: `CompletionsComeHome`.
* `WaitInv`: in each cycle in which a payload waits for the ring, an accepted frame has used
  the port, so it has waited no more cycles (`since`) than frames have been shown since it was
  handed over (`shown`). These are at most `Burst`, fewer than the cycles till the next own
  payload is due: none waits when one is handed over (`NoneWaits`), `EveryPayloadIsWritten`.

Assumed is `FramesAssumption`: of the `OwnGap` cycles that begin with an own payload fewer
(`Burst`) show the core a frame, and the next own payload comes after them. It bounds the
frames of a round, not those of a history; of the frames that arrive outside of these
cycles nothing is asked. Without it the register of `rx_engine.v` would not be enough.

Left to TLC: liveness (`HealthyNodesCommitEverything`, `EveryProposalIsSent`,
`FullBuffersAreRead`); `EveryoneComesBack`, which is about the last round of a bounded run
and so liveness too; `CommittedEntriesSurvive` and the half of `DigestIsOfHistory` that allows
crashes, which hold for two faults at most and only because of what two faults can do; and the
literal outcomes in `Scenarios`.

## 5. Disagreements found

With a run:

1. `RejoinEven`: with an even number of nodes two episodes can take turns for
   ever, each stopping the half of the cluster that the other has brought back.
2. `CoreMissedFault`: `core.v:838-841` says recovery from a clock fault is never
   automatic. A fault in the cycle of a cold activation finds the core not yet in
   S_RUN (`core.v:1015`), is over one cycle later, and the core commits a round on
   evidence of another. As wired (`ssr_dataplane.v:680-681` ties the step flag to 0
   and the lock to 1) only a jump of the second or time moving backwards does it.

Without a run of their own, simulator and host:

* `tests/test_random_campaign.py:22-36` expects no safety violation with corrupted rows;
  one corrupted row of a single witness suffices for one (`Agreement` needs `MaxCorrupt = 0`).
  `builtin.py:158-164` calls corruption out of the model.
* The comment at `node.py:82` says an invalid row is ignored; the code (`:83-84`) gives up
  the whole stage.
* `random_campaign.py:42-43` and the relaxed comparison of `cli.py:218` count a hole in a
  node's committed rounds as a violation; every cutover leaves one, as `builtin.py:50-52`
  documents. `ScenariosEndAsDocumented` states this as the one failure of longer runs.
* The campaign's duplicates never count: the extra copy is delivered in a later round, and
  `receive()` ignores it.
* `prototype/host/include/ssr/ssr.h:56-57` says sessions are never mixed; agents ignore
  the session of a start or stop (`agent.cpp:40-82`). `OnlyRestartsMixSessions` is what is
  true.

FPGA and driver:

* Clearing CONTROL.enable also leaves S_HALT, where `core.v:1007` says "Only a reboot
  leaves this state".
* A rewrite in the cycle that consumes an armed configuration can only re-arm that same
  configuration, because the registers are still frozen in it, although
  `core.v:288-290` means to arm a new one.
* `CommitQueue.open()` fails: it writes `stride_lo`, which the register table does not have
  (`ssr_dataplane.py:521`), and a second attempt meets "ProposalQueue is already opened".
  `StrideNamed` says whether it has it; the run assumes so, or nothing would ever open.
* `ProposalQueue.propose()` asks for `len(records) // slot_len` slots (`:444`), which is 0
  and refused. `SlotPerRecord` likewise.
* `commit_dma_writer.v:436-440` asks the host to touch inactive buffers only, or all of them
  before a start. `CommitQueue.stop()` (`:655`) does not wait for that, and `start()` (`:641-643`)
  clears and arms both buffers at once; the record of the transfer under way can be lost,
  and a START that meets a busy engine is ignored (`commit_dma_writer.v:483`).
* `propose()` rewrites its region (`:440`) before `submit()` refuses (`:395`): after a call
  that did not wait, the batch under way fetches records of the next one. And
  `wait_done()` reads the entry counter before it checks the status, so a batch that ends in
  between is reported as "delivered N, expected M".
* `tx_engine.v:53-55` holds for slots of two beats or more. The only beat of a one-beat slot
  may be taken while the one before leaves, and stays in the register until another slot is
  offered (`:232`): with `Beats = 1`, `EveryProposalIsSent` is refuted. The default is 16.
* `consensus_rx_splitter.v:14-16` says a frame's route is held until its last beat; the
  code takes each beat's own ethertype (`:75`), so payload beats are dropped.
* `consensus_rx.v`, which the wrapper instantiates (`ssr_dataplane.v:398`), parses a header
  with the run id at byte 14, the row at 22, the node at 23 and the round at 24;
  `ssr_packet.vh` and the transmitter have node, row, run and round at 14, 15, 16 and 20.
* `rx_engine.v`, meant to replace it, parses the last beat of a frame and is limited to
  frames of one beat: with the payload at byte 64 and a bus of 64 bytes its elaboration check
  fails, and of a longer foreign frame the last beat is parsed as a header.
* The harness cannot decode a frame: `ssr_sim_harness.py:81-83` gives the header beat
  without its Ethernet header, 50 bytes, to a format of 16 (`ssr_packet.py:52`, `:108`).

## 6. Limits

What the code does and the properties therefore exclude:

* Durability. The repair source is the longest log, of several the one with the
  lowest node id. With three faults a rejoined log that has a hole can be as long as
  one that holds a committed entry, and the entry is gone. `CommittedEntriesSurvive` and
  half of `DigestIsOfHistory` are stated for two faults (`AtMostTwoFaults`).
* A node that crashes in the round a repair is pushed loses the update: its
  history in `ClusterRun` has the repair, its digest has not, until the next push.
* A stopped node acknowledges a prepared config like any other.
* Every pulled update widens the sound set to the whole membership again; the
  stages' own evidence keeps that harmless (`NobodyComesBackWithinARun`).
* A node that crashes during an episode is set ACTIVE at its end without a
  repair, runs, and is pulled out by the next episode.
* Partial failure wedges the host: after a prepare, start or stop that succeeded
  on some agents only, the coordinator is Idle and those agents refuse each later
  prepare. A failed start or stop leaves an Idle agent with a Configured or Running
  backend, which then fails every prepare. Stopped is a state the coordinator
  does not leave. `tests/test_standalone_coordinator.cpp` exercises an older API with
  a rollback that is not in the sources any more.
* A late prepare can reconfigure a Stopped agent under a later coordinator.
* The commit path delivers whole buffers: while it runs, the records in a buffer that is not
  full are never delivered. A failed DMA write stops the engine and nothing tells the
  host. `stop()` puts one None: a second receiver would go on waiting, and with none
  waiting the next `recv()` after a restart gets it. `close()` does not close the queues.
* `RecordsInOrder` exempts a pass of `run()` that finds both buffers full (`overtaken`): it
  reads two status words one after the other and takes the younger buffer first.

Not modelled:

* of the FPGA core: TDMA windows, statistics counters, register reads, and the matrix kept
  for a halt; of the data paths: addresses, lengths, tags, statistics and the local echo;
* `consensus_rx*.v`, which parse a header nobody sends any more;
* the wiring modules, whose behaviour is that of what they connect, and the legacy modules
  that nothing instantiates;
* of the driver: `reset()` and `remove()`, the common registers, and the class
  `ConsensusCore` (`ssr_dataplane.py:772-844`), whose register offsets are those of an
  earlier core;
* the simulation harness (it builds and parses frames byte by byte and drives the signals
  that are inputs of the models here) and `mqnic.py`, the Corundum project's driver;
* the kernel driver, which reads and writes registers under a mutex; protobuf conversion,
  metrics, reports, sweeps and command lines, which have no state a property is about;
  overrides of a packet's run or payload, which no fault model uses.

## 7. Plan

Done: all modules and proofs above. What is left, in this order:

1. A cluster of cores that share the clock and the network, with `Core`'s boundary as
   one step, refining `FastPath`'s evaluation; the TDMA windows of `core.v`.
2. The receive path, once `rx_engine` is what the wrapper instantiates and parses frames of
   several beats.
