------------------------------ MODULE Scenarios ------------------------------
(***************************************************************************)
(* The cluster under the fault models the repository ships: the built-in   *)
(* scenarios of builtin.py, each with the outcome it documents, and the    *)
(* random campaign of random_campaign.py.  A network fault model says what *)
(* becomes of a packet, a node fault model whether a node is up; here each *)
(* is the SET of its possible answers, of one element but for the campaign *)
(* whose random choices are nondeterminism, bounded by MaxFaults.          *)
(*                                                                         *)
(* Unlike Rejoin this module keeps the queue of scheduled deliveries, with *)
(* delayed, relabelled, corrupted and duplicated packets, and the rounds   *)
(* in which nodes stopped, which the expectations are about.               *)
(***************************************************************************)
EXTENDS Cluster

CONSTANTS
  Runs,          \* the scenarios checked, each with a number of rounds to run
  MaxFaults      \* bound: how many faults the campaign injects in a run

ASSUME ScenariosAssumption ==
  /\ \A r \in Runs : r.rounds \in 0 .. MaxRound
  /\ MaxFaults \in Nat

VARIABLES
  run,           \* what is run: [name, rounds]
  inFlight,      \* scheduled_deliveries with the fault model applied already
  haltedRound,   \* Node.halted_round of every node
  downed,        \* the nodes the campaign has crashed, which it does for good
  faults         \* how many faults the campaign has injected

scenarioVars == <<clusterVars, run, inFlight, haltedRound, downed, faults>>

-----------------------------------------------------------------------------
(* Network fault models. *)

\* A Delivery: None as its round drops the packet.
OnTime(p) == [deliverRound |-> p.round, round |-> p.round, row |-> p.row, extra |-> {}]

Dropped(p) == [OnTime(p) EXCEPT !.deliverRound = None]

IsFrom(p, dst, fault, src, to) == p.round = fault /\ p.src = src /\ dst = to

AsymmetricLossAt(p, dst, fault) ==
  IF IsFrom(p, dst, fault, 1, 2) THEN Dropped(p) ELSE OnTime(p)

BridgePartitionAt(p, dst, fault, left, right) ==
  IF /\ p.round = fault
     /\ \/ p.src \in left /\ dst \in right
        \/ p.src \in right /\ dst \in left
  THEN Dropped(p) ELSE OnTime(p)

OneRoundDelay(p, dst) ==
  IF IsFrom(p, dst, 1, 2, 0) THEN [OnTime(p) EXCEPT !.deliverRound = 2] ELSE OnTime(p)

FutureRoundSkew(p, dst) ==
  IF p.round = 0 /\ p.src = 2 /\ dst \in {0, 1}
  THEN [OnTime(p) EXCEPT !.round = 1] ELSE OnTime(p)

RowCorruption(p, dst) ==
  IF IsFrom(p, dst, 1, 1, 2) THEN [OnTime(p) EXCEPT !.row = {0, 1}] ELSE OnTime(p)

\* The faults a campaign may give a packet but for the corruption of rows, which voids
\* agreement (see FastPath).
PacketFaults == {"loss", "delay", "duplicate"}

\* A duplicate is asked for in the round of the packet itself.
RandomDelivery(p, fault) ==
  CASE fault = "loss" -> Dropped(p)
    [] fault = "delay" -> [OnTime(p) EXCEPT !.deliverRound = p.round + 1]
    [] fault = "duplicate" -> [OnTime(p) EXCEPT !.extra = {p.round}]

\* The answer of the run's network_fault_model, the campaign's for a packet without a
\* fault included.
NetworkFaultModel(p, dst) ==
  CASE run.name = "asymmetric_loss" -> AsymmetricLossAt(p, dst, 0)
    [] run.name = "bridge_partition" -> BridgePartitionAt(p, dst, 0, {1}, {2})
    [] run.name = "one_epoch_delay" -> OneRoundDelay(p, dst)
    [] run.name = "future_epoch_skew" -> FutureRoundSkew(p, dst)
    [] run.name = "ack_bitmap_corruption" -> RowCorruption(p, dst)
    [] OTHER -> OnTime(p)

-----------------------------------------------------------------------------
(* Node fault models. *)

DownAfterRound0(n, victims) == n \in victims /\ round >= 1

RecoverableCrashes(n, schedule) == <<n, round>> \in schedule

\* Whether the run's node_fault_model wants node n crashed in this round.
IsDown(n) ==
  CASE run.name = "node2_crash" -> DownAfterRound0(n, {2})
    [] run.name = "quorum_loss" -> DownAfterRound0(n, {1, 2})
    [] run.name \in {"controlled_rejoin", "online_rejoin"} ->
         RecoverableCrashes(n, {<<2, 1>>})
    [] OTHER -> n \in downed

\* The run is a trial of the random campaign.
Trial == run.name = "random_campaign"

\* The campaign may crash a node in any round but the first.
MayGoDown(n) ==
  /\ Trial
  /\ round >= 1
  /\ n \notin downed
  /\ faults < MaxFaults

-----------------------------------------------------------------------------
(* The run. *)

ScenarioInit ==
  /\ ClusterInit
  /\ run \in Runs
  /\ inFlight = {}
  /\ haltedRound = [n \in Node |-> None]
  /\ downed = {}
  /\ faults = 0

ScenarioControlPlane ==
  /\ round < run.rounds
  /\ ControlPlaneTurn
  /\ UNCHANGED <<run, inFlight, haltedRound, downed, faults>>

\* halted_round is set with every stop and cleared by a reboot.
ScenarioNode(n) ==
  /\ ~(IsDown(n) /\ nodes[n].status = "RUNNING")
  /\ NodeActs(n)
  /\ haltedRound' = [haltedRound EXCEPT ![n] =
       IF nodes'[n].status = "RUNNING" THEN None
       ELSE IF nodes'[n].status # nodes[n].status THEN round ELSE @]
  /\ UNCHANGED <<run, inFlight, downed, faults>>

\* crash() does nothing to a node that has stopped already.
ScheduledCrash(n) ==
  /\ IsDown(n)
  /\ CrashNode(n)
  /\ haltedRound' = [haltedRound EXCEPT ![n] = round]
  /\ UNCHANGED <<run, inFlight, downed, faults>>

RandomCrash(n) ==
  /\ MayGoDown(n)
  /\ CrashNode(n)
  /\ haltedRound' = [haltedRound EXCEPT ![n] = round]
  /\ downed' = downed \cup {n}
  /\ faults' = faults + 1
  /\ UNCHANGED <<run, inFlight>>

\* _materialize_packet().
Materialized(p, delivery) == [p EXCEPT !.round = delivery.round, !.row = delivery.row]

Arrival(at, dst, p) == [at |-> at, dst |-> dst, packet |-> p]

\* What _advance_network() schedules of packet p for node dst.  An arrival of this
\* round is handed over in this round; a duplicate is only ever put on the queue,
\* where one for this round has missed its turn.
Scheduled(p, dst, delivery) ==
  IF delivery.deliverRound = None THEN {}
  ELSE {Arrival(at, dst, Materialized(p, delivery)) :
          at \in {delivery.deliverRound} \cup {r \in delivery.extra : r > round}}

ArrivesNow(a) == a.at <= round

Sent == {s \in packets \X Node : s[2] \in s[1].destinations}

\* The packets the campaign may pick for a fault, and the fault each gets.
Injections ==
  IF ~Trial THEN {<<>>}
  ELSE UNION {[hit -> PacketFaults] :
                hit \in {S \in SUBSET Sent : faults + Cardinality(S) <= MaxFaults}}

\* _advance_network(): every packet meets the fault model once, then what is due
\* is received.
AdvanceNetwork ==
  \E injected \in Injections :
    LET delivery(s) == IF s \in DOMAIN injected THEN RandomDelivery(s[1], injected[s])
                       ELSE NetworkFaultModel(s[1], s[2])
        arrivals == inFlight \cup UNION {Scheduled(s[1], s[2], delivery(s)) : s \in Sent}
    IN  /\ Deliver([n \in Node |->
             {a.packet : a \in {b \in arrivals : b.dst = n /\ ArrivesNow(b)}}])
        /\ inFlight' = {a \in arrivals : ~ArrivesNow(a)}
        /\ faults' = faults + Cardinality(DOMAIN injected)
        /\ UNCHANGED <<run, haltedRound, downed>>

ScenarioFinished ==
  /\ round = run.rounds
  /\ turn = ControlTurn
  /\ UNCHANGED scenarioVars

ScenarioNext ==
  \/ ScenarioControlPlane
  \/ \E n \in Node : ScenarioNode(n)
  \/ \E n \in Node : ScheduledCrash(n)
  \/ \E n \in Node : RandomCrash(n)
  \/ AdvanceNetwork
  \/ ScenarioFinished

ScenarioSpec == ScenarioInit /\ [][ScenarioNext]_scenarioVars

-----------------------------------------------------------------------------
(* What the built-in scenarios document (scenarios/builtin.py). *)

Upto(n) == [i \in 1 .. n + 1 |-> i - 1]

\* Rounds 0 to a, then b to n.
Around(a, b, n) == Upto(a) \o [i \in 1 .. n - b + 1 |-> b + i - 1]

Expects(statuses, commits, halts) ==
  [statuses |-> statuses, committedRounds |-> commits, haltedRounds |-> halts]

AllRunning == <<"RUNNING", "RUNNING", "RUNNING">>

NoHalts == <<None, None, None>>

Rejoined(n) ==
  Expects(AllRunning, <<Around(32, 35, n), Around(32, 35, n), Around(31, 35, n)>>, NoHalts)

Expectation ==
  [perfect |-> Expects(AllRunning, <<Upto(2), Upto(2), Upto(2)>>, NoHalts),
   node2_crash |->
     Expects(<<"RUNNING", "RUNNING", "CRASHED">>, <<Upto(2), Upto(2), <<>>>>,
             <<None, None, 1>>),
   asymmetric_loss |->
     Expects(AllRunning, <<Around(33, 36, 37), Around(33, 36, 37), Around(32, 36, 37)>>,
             NoHalts),
   bridge_partition |->
     Expects(<<"HALTED", "HALTED", "HALTED">>, <<<<>>, <<>>, <<>>>>, <<2, 2, 2>>),
   one_epoch_delay |->
     Expects(<<"HALTED", "RUNNING", "RUNNING">>, <<Upto(0), Upto(2), Upto(2)>>,
             <<3, None, None>>),
   quorum_loss |->
     Expects(<<"HALTED", "CRASHED", "CRASHED">>, <<<<>>, <<>>, <<>>>>, <<2, 1, 1>>),
   future_epoch_skew |->
     Expects(<<"RUNNING", "RUNNING", "HALTED">>, <<Upto(2), Upto(2), <<>>>>,
             <<None, None, 2>>),
   ack_bitmap_corruption |->
     Expects(<<"RUNNING", "RUNNING", "HALTED">>, <<Upto(2), Upto(2), Upto(1)>>,
             <<None, None, 4>>),
   controlled_rejoin |-> Rejoined(52),
   online_rejoin |-> Rejoined(37)]

ReferenceRounds ==
  [name \in DOMAIN Expectation |->
     CASE name \in {"asymmetric_loss", "online_rejoin"} -> 40
       [] name = "controlled_rejoin" -> 55
       [] OTHER -> 5]

-----------------------------------------------------------------------------
(* The checks of a finished run. *)

AtEnd == round = run.rounds /\ turn = ControlTurn

InOrder(f) == [i \in 1 .. Cardinality(Node) |-> f[i - 1]]

Statuses == InOrder([n \in Node |-> nodes[n].status])

CommittedRounds ==
  InOrder([n \in Node |-> [i \in DOMAIN history[n] |-> history[n][i].round]])

Mismatch(name, expected, actual) == IF expected = actual THEN {} ELSE {name}

\* ScenarioExpectation.check().
ExpectationFailures(e) ==
  Mismatch("status mismatch", e.statuses, Statuses)
    \cup Mismatch("commit mismatch", e.committedRounds, CommittedRounds)
    \cup Mismatch("halted_round mismatch", e.haltedRounds, InOrder(haltedRound))

Contiguous(rounds) == rounds = Upto(Len(rounds) - 1)

\* The relaxed check of one node when more rounds were run than documented.
RelaxedFailure(e, n) ==
  LET expected == e.committedRounds[n + 1]
      actual == CommittedRounds[n + 1]
      stopped == nodes[n].status # "RUNNING" \/ haltedRound[n] # None
  IN  IF ~IsPrefix(expected, actual) THEN {"commit prefix mismatch"}
      ELSE IF ~Contiguous(actual) THEN {"non-contiguous commit prefix"}
      ELSE IF stopped /\ actual # expected THEN {"unexpected extra commits"}
      ELSE {}

\* evaluate_expectation_for_round_budget().
BudgetFailures(name, rounds) ==
  LET e == Expectation[name]
  IN  IF rounds = ReferenceRounds[name] THEN ExpectationFailures(e)
      ELSE IF rounds < ReferenceRounds[name] THEN {}
      ELSE Mismatch("status mismatch", e.statuses, Statuses)
             \cup Mismatch("halted_round mismatch", e.haltedRounds, InOrder(haltedRound))
             \cup UNION {RelaxedFailure(e, n) : n \in Node}

\* safety_violations() of random_campaign.py.
NonPrefix(n) == ~Contiguous([i \in DOMAIN history[n] |-> history[n][i].round])

\* The proposals are those of the commit set.
CommittedValue(e) == <<e.epoch, e.commitSet>>

Conflicts ==
  {nodePair \in Node \X Node :
     \E e \in Range(history[nodePair[1]]), f \in Range(history[nodePair[2]]) :
       e.round = f.round /\ CommittedValue(e) # CommittedValue(f)}

SafetyViolations == {n \in Node : NonPrefix(n)} \cup Conflicts

\* summarize_trial(), without the violations and the rounds of the first stops.
TrialSummary ==
  LET with(status) == Cardinality({n \in Node : nodes[n].status = status})
  IN  [committedCounts |-> [n \in Node |-> Len(history[n])],
       haltedNodes |-> with("HALTED"),
       crashedNodes |-> with("CRASHED")]

-----------------------------------------------------------------------------
(* Properties. *)

\* Every built-in scenario ends as builtin.py documents it: each node with the status,
\* the committed rounds and the halt round stated there, to the round in which a
\* repaired node is back.  With a few rounds more nobody stops or comes back either;
\* what cli.py then holds against a run is the hole a rejoin leaves in every log.
ScenariosEndAsDocumented ==
  (AtEnd /\ run.name \in DOMAIN ReferenceRounds) =>
    BudgetFailures(run.name, run.rounds) =
      IF run.rounds > ReferenceRounds[run.name] /\ cp.config # InitialConfig
      THEN {"non-contiguous commit prefix"} ELSE {}

\* The campaign raises no false alarm: in runs as short as its own, no loss, delay,
\* duplicate or crash, in any combination, makes safety_violations() count the run
\* as unsafe.
CampaignFindsNoViolation == Trial => SafetyViolations = {}

\* One lost, late or doubled packet, or one crash, stops one node at most, and the
\* others commit every round that can be judged: only a second fault can stop them.
OneFaultStopsOneNode ==
  (Trial /\ faults <= 1) =>
    /\ TrialSummary.haltedNodes + TrialSummary.crashedNodes <= 1
    /\ AtEnd => \A n \in Node :
         nodes[n].status = "RUNNING" => TrialSummary.committedCounts[n] = run.rounds - 2
=============================================================================
