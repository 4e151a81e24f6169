----------------------------- MODULE ControlPlane -----------------------------
(***************************************************************************)
(* The control plane of sim/control/control_plane.py as pure operators on  *)
(* its state, the record c; module Rejoin says when each one runs.         *)
(*                                                                         *)
(* A stopped node goes through an EPISODE.  Interruptions reported within  *)
(* a collection window become the episode's targets; the targets are       *)
(* marked RECOVERING and repaired with the longest committed log; then a   *)
(* config with them is PREPARED, acknowledged by all its members,          *)
(* COMMITTED and switched to at one future round.  If the acknowledgements *)
(* are late the episode is aborted and started over.                       *)
(*                                                                         *)
(* Abstractions: bitmaps are sets; `pending` is both _pending_future and   *)
(* current_state.pending_config, which the code always writes together; a  *)
(* repair log of <<>> is an absent one (an empty one is never made); the   *)
(* times of queued interruptions are never read; records kept for          *)
(* debug_snapshot() are left out.                                          *)
(***************************************************************************)
EXTENDS SoundMatrix, Sequences, SequencesExt

CONSTANTS            \* SimulationTiming and cutover_slack_rounds, in ticks
  RoundLength, HaltReportDelay, CollectionDelay, DecisionDelay, RepairDelay,
  CutoverSlack,
  InstallDelays      \* the install delays a run may be configured with

ASSUME TimingAssumption ==
  /\ Node \subseteq Nat
  /\ RoundLength \in Nat \ {0}
  /\ {HaltReportDelay, CollectionDelay, DecisionDelay, RepairDelay,
      CutoverSlack} \cup InstallDelays \subseteq Nat

None == -1

MembershipStates == {"ACTIVE", "FAILED", "RECOVERING", "REJOIN_PENDING"}

Actions == {"mark_recovering", "prepare_online_rejoin",
            "commit_online_rejoin", "abort_online_rejoin"}

NoPending == [status |-> "NONE", epoch |-> 0, members |-> {}, run |-> 0,
              effective |-> None]

InitialConfig == [epoch |-> 0, members |-> Node, run |-> 0]

InitialControlPlane(delay) ==
  [installDelay |-> delay,
   config       |-> InitialConfig,
   states       |-> [n \in Node |-> "ACTIVE"],
   pending      |-> NoPending,
   repair       |-> [n \in Node |-> <<>>],
   scheduled    |-> {},
   collecting   |-> {},    \* _collecting_targets
   targets      |-> {},    \* _episode_targets
   queued       |-> {},    \* _queued_interruptions
   deadline     |-> None,  \* _collection_deadline_ns
   nextEpisode  |-> 1,
   episode      |-> None,  \* _active_episode_id
   members      |-> {},    \* _episode_members_bitmap
   prepareRound |-> None,
   acks         |-> {}]

MaxOf(a, b) == IF a >= b THEN a ELSE b

RoundAt(time) == time \div RoundLength

-----------------------------------------------------------------------------
(* Repair logs. *)

\* MUTANT: the shortest log is taken for the most complete one.
ShortestLog(history) ==
  history[CHOOSE n \in Node : \A m \in Node :
    \/ Len(history[n]) < Len(history[m])
    \/ Len(history[n]) = Len(history[m]) /\ n <= m]

\* The longest committed log; of several, that of the lowest node id.
RepairPrefix(history) ==
  history[CHOOSE n \in Node : \A m \in Node :
    \/ Len(history[n]) > Len(history[m])
    \/ Len(history[n]) = Len(history[m]) /\ n <= m]

RepairTargets(c) == {n \in Node : c.states[n] \in {"RECOVERING", "REJOIN_PENDING"}}

RebuildRepairLogs(c, history) ==
  IF RepairTargets(c) # {} /\ RepairPrefix(history) = <<>> THEN c
  ELSE [c EXCEPT !.repair = [n \in Node |->
          IF n \in RepairTargets(c) THEN RepairPrefix(history) ELSE <<>>]]

-----------------------------------------------------------------------------
(* Interruptions, collection windows and episodes. *)

EpisodeActive(c) ==
  c.targets # {} \/ c.pending.status # "NONE" \/ c.episode # None

BeginWindow(c, time) ==
  IF c.collecting # {} \/ EpisodeActive(c) \/ c.queued = {} THEN c
  ELSE [c EXCEPT !.collecting = c.queued,
                 !.queued = {},
                 !.deadline = time + CollectionDelay]

\* MUTANT: the episode's config forgets the nodes that are still running.
OnlyTargets(c) == c.targets

EpisodeMembers(c) == {n \in Node : c.states[n] = "ACTIVE"} \cup c.targets

At(time, action, episode) == [at |-> time, action |-> action, episode |-> episode]

ScheduleEpisode(c) ==
  LET repairStart == c.deadline + DecisionDelay
      prepareAt == repairStart + RepairDelay
      id == c.nextEpisode
  IN  [c EXCEPT
        !.episode = id,
        !.nextEpisode = id + 1,
        !.members = EpisodeMembers(c),
        !.prepareRound = RoundAt(prepareAt) + 1,
        !.scheduled = @ \cup
          {At(repairStart, "mark_recovering", id),
           At(prepareAt, "prepare_online_rejoin", id),
           At(prepareAt + c.installDelay, "abort_online_rejoin", id)}]

CloseWindowIfDue(c, time) ==
  IF c.deadline = None \/ time < c.deadline THEN c
  ELSE IF c.collecting = {} THEN [c EXCEPT !.deadline = None]
  ELSE [ScheduleEpisode([c EXCEPT !.targets = c.collecting, !.collecting = {}])
          EXCEPT !.deadline = None]

ClearEpisode(c) ==
  [c EXCEPT !.targets = {},
            !.episode = None,
            !.members = {},
            !.prepareRound = None,
            !.acks = {},
            !.scheduled = {item \in @ : c.episode = None \/ item.episode # c.episode}]

\* MUTANT: an interruption during an episode is marked but not queued.
EnqueueUnlessInEpisode(c, n) ==
  IF EpisodeActive(c) THEN c ELSE [c EXCEPT !.queued = @ \cup {n}]

Enqueue(c, n) == [c EXCEPT !.queued = @ \cup {n}]

\* MUTANT: the node's status is filed where its membership state belongs.
MarkCrashed(c, n) == [c EXCEPT !.states[n] = "CRASHED"]

MarkFailed(c, n) == [c EXCEPT !.states[n] = "FAILED"]

\* NodeCrashed and NodeHalted: the node joins the open window if it is in
\* time for it, and waits for the next one otherwise.
NoteInterruption(c, n, available) ==
  IF c.deadline # None /\ available <= c.deadline /\ c.targets = {}
  THEN [MarkFailed(c, n) EXCEPT !.collecting = @ \cup {n}]
  ELSE BeginWindow(Enqueue(MarkFailed(c, n), n), available)

-----------------------------------------------------------------------------
(* The scheduled actions of an episode. *)

StatesWithTargets(c, state) ==
  [n \in Node |-> IF n \in c.targets THEN state ELSE c.states[n]]

UpdateNodeStates(c, states) == [c EXCEPT !.states = states]

InstallPendingFuture(c, pending) == [c EXCEPT !.pending = pending]

MarkRecovering(c) == UpdateNodeStates(c, StatesWithTargets(c, "RECOVERING"))

PrepareRejoin(c) ==
  UpdateNodeStates(
    InstallPendingFuture([c EXCEPT !.acks = {}],
      [status |-> "PREPARED",
       epoch |-> c.config.epoch + 1,
       members |-> c.members,
       run |-> c.config.run + 1,
       effective |-> c.prepareRound + CutoverSlack]),
    StatesWithTargets(c, "REJOIN_PENDING"))

\* The switch waits until the commit has been visible for a round.
CutoverRound(announced, time) == MaxOf(announced, RoundAt(time) + 2)

CommitRejoin(c, time) ==
  IF c.pending.status = "NONE" THEN c
  ELSE InstallPendingFuture(c,
         [c.pending EXCEPT !.status = "COMMITTED",
                           !.effective = CutoverRound(@, time)])

RetryTargets(c) == c.targets \cup c.queued

\* The end of an episode: the active nodes are settled, a waiting interruption
\* opens the next window.
EndEpisode(c, active, time) ==
  BeginWindow(ClearEpisode(
    [c EXCEPT !.states = [n \in Node |-> IF n \in active THEN "ACTIVE" ELSE "FAILED"],
              !.pending = NoPending,
              !.repair = [n \in Node |-> <<>>]]), time)

AbortRejoin(c, time) ==
  IF c.pending.status # "PREPARED" THEN c
  ELSE EndEpisode([c EXCEPT !.queued = RetryTargets(c)],
                  Node \ RetryTargets(c), time)

ApplyAction(c, item) ==
  IF item.episode # c.episode THEN c
  ELSE CASE item.action = "mark_recovering" -> MarkRecovering(c)
         [] item.action = "prepare_online_rejoin" -> PrepareRejoin(c)
         [] item.action = "commit_online_rejoin" -> CommitRejoin(c, item.at)
         [] item.action = "abort_online_rejoin" -> AbortRejoin(c, item.at)

\* Due actions run in the order of their times; of two with the same time, in
\* the alphabetical order of their names.
Rank(action) == CASE action = "abort_online_rejoin" -> 0
                  [] action = "commit_online_rejoin" -> 1
                  [] action = "mark_recovering" -> 2
                  [] action = "prepare_online_rejoin" -> 3

Earlier(a, b) == a.at < b.at \/ (a.at = b.at /\ Rank(a.action) < Rank(b.action))

CutoverIsDue(c, round) ==
  c.pending.status = "COMMITTED" /\ round >= c.pending.effective

ActivateCutoverIfDue(c, round) ==
  IF ~CutoverIsDue(c, round) THEN c
  ELSE EndEpisode([c EXCEPT !.config = [epoch |-> c.pending.epoch,
                                        members |-> c.pending.members,
                                        run |-> c.pending.run]],
                  c.pending.members, round * RoundLength)

-----------------------------------------------------------------------------
(* The entry points ClusterRun calls. *)

\* MUTANT: a majority is taken for all members.
QuorumAcked(c, acks) == Cardinality(acks) >= Quorum

FutureMembers(c) == c.pending.members

AllAcked(c, acks) == FutureMembers(c) \subseteq acks

\* PrepareAck: the last missing one schedules the commit, once.
NotePrepareAck(c, n, config, time) ==
  IF \/ c.pending.status # "PREPARED"
     \/ config.run # c.pending.run
     \/ config.effective # c.pending.effective THEN c
  ELSE LET acks == c.acks \cup {n}
           toCommit == At(time + DecisionDelay, "commit_online_rejoin", c.episode)
       IN  [c EXCEPT !.acks = acks,
                     !.scheduled =
                       IF /\ AllAcked(c, acks)
                          /\ \A item \in @ : \/ item.action # toCommit.action
                                             \/ item.episode # c.episode
                       THEN @ \cup {toCommit} ELSE @]

\* Whether a window has to be opened or closed is looked at before and after the due
\* actions.
Window(c, time) == CloseWindowIfDue(BeginWindow(c, time), time)

\* Of the actions the one that sorted() puts first.
First(items) == CHOOSE i \in items : \A j \in items : ~Earlier(j, i)

\* The loop over the due actions: after k of them, the state and those left to do.
ApplyActions(c, ready) ==
  LET loop[k \in 0 .. Cardinality(ready)] ==
        IF k = 0 THEN [state |-> c, todo |-> ready]
        ELSE LET before == loop[k - 1]
                 item == First(before.todo)
             IN  [state |-> ApplyAction(before.state, item),
                  todo |-> before.todo \ {item}]
  IN  loop[Cardinality(ready)].state

\* advance_to_time().
AdvanceToTime(c, time, history) ==
  LET opened == Window(c, time)
      ready == {item \in opened.scheduled : item.at <= time}
      applied == ApplyActions([opened EXCEPT !.scheduled = @ \ ready], ready)
  IN  RebuildRepairLogs(Window(applied, time), history)

\* __call__(): the state the nodes are to be told of in this round.
ControlState(c, round, history) ==
  RebuildRepairLogs(ActivateCutoverIfDue(c, round), history)

-----------------------------------------------------------------------------
(* The types of its state. *)

Configs == [epoch : Nat, members : SUBSET Node, run : Nat]

PendingStatuses == {"NONE", "PREPARED", "COMMITTED"}

Pendings == [status : PendingStatuses, epoch : Nat, members : SUBSET Node, run : Nat,
             effective : Int]

Entries == [round : Nat, epoch : Nat, commitSet : SUBSET Node]

ScheduledActions == [at : Nat, action : Actions, episode : Nat]

ControlPlaneStates ==
  [installDelay : Nat, config : Configs, states : [Node -> MembershipStates],
   pending : Pendings, repair : [Node -> Seq(Entries)],
   scheduled : SUBSET ScheduledActions,
   collecting : SUBSET Node, targets : SUBSET Node, queued : SUBSET Node,
   deadline : Nat \cup {None}, nextEpisode : Nat, episode : Nat \cup {None},
   members : SUBSET Node, prepareRound : Nat \cup {None}, acks : SUBSET Node]
=============================================================================
