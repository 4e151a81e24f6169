-------------------------------- MODULE Rejoin --------------------------------
(***************************************************************************)
(* The cluster across cutovers, under any faults up to MaxCrash and        *)
(* MaxLoss, none after LastFaultRound: a node crashes at the start of its  *)
(* turn, a packet is lost.  A delayed packet is a lost one, as receive()   *)
(* counts none of another round, and a duplicate of a counted packet       *)
(* changes nothing; modules FastPath and Scenarios keep them apart.        *)
(***************************************************************************)
EXTENDS Cluster

CONSTANTS
  LastFaultRound,  \* bound: the last round with a fault
  MaxCrash,        \* bound: how many crashes
  MaxLoss          \* bound: how many packets are lost

ASSUME RejoinAssumption == {LastFaultRound, MaxCrash, MaxLoss} \subseteq Nat

VARIABLES
  crashes,     \* faults so far
  losses

faultVars == <<crashes, losses>>

vars == <<clusterVars, faultVars>>

Init ==
  /\ ClusterInit
  /\ crashes = 0
  /\ losses = 0

ControlPlaneStep ==
  /\ round < MaxRound
  /\ ControlPlaneTurn
  /\ UNCHANGED faultVars

NodeStep(n) ==
  /\ NodeActs(n)
  /\ UNCHANGED faultVars

Crash(n) ==
  /\ crashes < MaxCrash
  /\ round <= LastFaultRound
  /\ CrashNode(n)
  /\ crashes' = crashes + 1
  /\ UNCHANGED losses

NetworkRound ==
  \E lost \in SUBSET {d \in Node \X packets :
                       d[1] \in d[2].destinations /\ Counts(d[1], d[2])} :
    /\ losses + Cardinality(lost) <= MaxLoss
    /\ lost # {} => round <= LastFaultRound
    /\ losses' = losses + Cardinality(lost)
    /\ DeliverAllBut(lost)
    /\ UNCHANGED crashes

Finished ==
  /\ round = MaxRound
  /\ UNCHANGED vars

Next ==
  \/ ControlPlaneStep
  \/ \E n \in Node : NodeStep(n)
  \/ \E n \in Node : Crash(n)
  \/ NetworkRound
  \/ Finished

Spec == Init /\ [][Next]_vars

-----------------------------------------------------------------------------
(* Properties. *)

\* Every variable keeps its type; updates are only ever built for real states.
TypeOK ==
  /\ ClusterTypeOK
  /\ crashes \in 0 .. MaxCrash
  /\ losses \in 0 .. MaxLoss

\* The claim of node.py above _quorum(): groups running different configs can
\* never both commit.  No two nodes, whatever runs they were in and whatever
\* they were repaired with, hold different entries for a round.
NoConflictingCommits ==
  \A n, m \in Node : \A e \in Range(history[n]), f \in Range(history[m]) :
    e.round = f.round => e = f

\* A third fault can tie the lengths of different logs, and the wrong one is
\* then taken for the most complete (see the README).
AtMostTwoFaults == crashes + losses <= 2

\* The node's own account of its log (committed_frontier, commit_digest) and the
\* one ClusterRun keeps for it are updated at different times, by commits and by
\* repairs.  The node's is never ahead, and as long as no crash keeps a node from
\* pulling a repair before the next push overwrites it, they agree.
DigestIsOfHistory ==
  \A n \in Node :
    /\ AtMostTwoFaults => Range(nodes[n].digest) \subseteq Range(history[n])
    /\ crashes = 0 /\ mailbox[n] = <<>> => nodes[n].digest = history[n]

\* A node commits the rounds in order and, within a run, every one of them: only
\* a cutover leaves a hole in its log.
GapsOnlyAtCutovers ==
  \A n \in Node : \A i \in 1 .. Len(history[n]) - 1 :
    LET this == history[n][i]
        next == history[n][i + 1]
    IN  \/ next.round = this.round + 1 /\ next.epoch = this.epoch
        \/ next.round > this.round /\ next.epoch > this.epoch

\* Every update a node pulls widens its sound set to the whole membership again.
\* Even so nobody who missed a committed round of a run is in a later one of
\* that run, but for the run's second round, which is collected before its
\* first is judged.
NobodyComesBackWithinARun ==
  \A n \in Node : \A i, j \in 1 .. Len(history[n]) :
    (i + 1 < j /\ history[n][i].epoch = history[n][j].epoch)
      => history[n][j].commitSet \subseteq history[n][i].commitSet

Tracked == cp.collecting \cup cp.targets \cup cp.queued

\* A node that has stopped, or that the control plane holds for failed, is in
\* the present episode or waits for the next: no order of crashes, halts, aborts
\* and cutovers makes the control plane forget it.
NoStoppedNodeIsForgotten ==
  turn = NetworkTurn =>
    \A n \in Node :
      (nodes[n].status # "RUNNING" \/ cp.states[n] = "FAILED") => n \in Tracked

\* The control plane commits a config only when every member, stopped ones
\* included, has taken it over: a node that was down when the config was prepared
\* is waited for until it has pulled it, or the episode is aborted.
CommittedConfigHasReachedItsMembers ==
  cp.pending.status = "COMMITTED" =>
    \A n \in cp.pending.members :
      cp.pending.run \in {nodes[n].pending.run, nodes[n].config.run}

\* When the faults are over every node comes back, however many there were, and
\* the whole cluster commits again: the simulation, which always gets to its last
\* round, ends with every round committed everywhere that could still be judged.
EveryoneComesBack ==
  (turn = ControlTurn /\ round = MaxRound) =>
    \A n \in Node :
      /\ nodes[n].status = "RUNNING"
      /\ nodes[n].state = "ACTIVE"
      /\ \E e \in Range(history[n]) : e.round = MaxRound - 3

\* With up to two faults, no repair makes the cluster lose an entry that a node
\* has committed, although the source of a repair may itself miss an entry.
CommittedEntriesSurvive ==
  [][AtMostTwoFaults' =>
       UNION {Range(history[n]) : n \in Node}
         \subseteq UNION {Range(history'[n]) : n \in Node}]_vars
=============================================================================
