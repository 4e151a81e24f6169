-------------------------- MODULE ControlPlaneProofs --------------------------
(***************************************************************************)
(* What the operations of the control plane preserve, for any finite set   *)
(* of nodes and any timing.  Module ClusterProofs builds on it.             *)
(*                                                                         *)
(* An episode, the window before it and the pending config come and go     *)
(* together (WindowInv, PendingInv); who is not active is in the window,   *)
(* in the episode or waits (StatesInv); and of the actions that are        *)
(* scheduled, those of the present episode fit the config's status         *)
(* (ItemsInv).  The actions that are due are taken out of the schedule     *)
(* before the first of them is applied, so ItemsInv is about a set that    *)
(* is larger than the schedule.                                            *)
(***************************************************************************)
EXTENDS ControlPlane, FiniteSetTheorems, NaturalsInduction, WellFoundedInduction, TLAPS

WindowInv(c) ==
  /\ c.deadline # None <=> c.collecting # {}
  /\ c.collecting # {} => ~EpisodeActive(c)
  /\ c.targets # {} <=> c.episode # None
  /\ c.pending.status # "NONE" => c.episode # None
  /\ c.episode # None =>
       /\ c.episode < c.nextEpisode
       /\ c.targets \subseteq c.members
       /\ Node \ c.members \subseteq c.queued
       /\ c.prepareRound # None

StatesInv(c) ==
  \A n \in Node :
    /\ c.states[n] \in {"RECOVERING", "REJOIN_PENDING"} => n \in c.targets
    /\ c.states[n] = "FAILED" => n \in c.collecting \cup c.targets \cup c.queued
    /\ c.states[n] = "ACTIVE" => n \in c.config.members /\ c.repair[n] = <<>>

PendingInv(c) ==
  /\ c.pending.status # "NONE" =>
       /\ c.pending.members = c.members
       /\ c.pending.run = c.config.run + 1
       /\ c.pending.epoch = c.config.epoch + 1
       /\ c.pending.effective >= CutoverSlack
  /\ c.pending.status = "COMMITTED" => c.pending.members \subseteq c.acks

\* The items are those scheduled and those that are due and not applied yet.
ItemsInv(c, items) ==
  /\ c.scheduled \subseteq items
  /\ items \subseteq ScheduledActions
  /\ IsFiniteSet(items)
  /\ \A i \in items :
       /\ i.episode < c.nextEpisode
       /\ i.episode = c.episode /\ i.action = "prepare_online_rejoin" =>
            c.pending.status = "NONE"
       /\ i.episode = c.episode /\ i.action = "commit_online_rejoin" =>
            c.pending.status = "PREPARED" /\ c.pending.members \subseteq c.acks
  /\ \A i, j \in items : i.episode = j.episode /\ i.action = j.action => i = j

InvWith(c, items) ==
  /\ c \in ControlPlaneStates
  /\ WindowInv(c)
  /\ StatesInv(c)
  /\ PendingInv(c)
  /\ ItemsInv(c, items)

ControlPlaneInv(c) == InvWith(c, c.scheduled)

\* What no operation of the control plane does between two cutovers: change the config or
\* a committed successor, let a node be active that was not, or make up acknowledgements.
StaysInRun(c, d) ==
  /\ d.config = c.config
  /\ c.pending.status = "COMMITTED" => d.pending = c.pending
  /\ \A n \in Node : d.states[n] = "ACTIVE" => c.states[n] = "ACTIVE"
  /\ d.acks # {} => d.acks \subseteq c.acks /\ d.pending.run = c.pending.run

KeepsRun(c, d) ==
  StaysInRun(c, d) /\ \A n \in Node : d.repair[n] \in {c.repair[n], <<>>}

\* A cutover.
SwitchesRun(c, d) ==
  /\ d.config.run = c.config.run + 1
  /\ d.config.epoch = c.config.epoch + 1
  /\ d.pending = NoPending
  /\ d.acks = {}

(* One step after the other. *)
LEMMA KeepsRunTransitive ==
  ASSUME NEW c, NEW d, NEW e, KeepsRun(c, d), KeepsRun(d, e)
  PROVE  KeepsRun(c, e)
<1>1. \A n \in Node : e.repair[n] \in {c.repair[n], <<>>}
  BY DEF KeepsRun, StaysInRun
<1> QED
  BY <1>1 DEF KeepsRun, StaysInRun

(* The delays are numbers, as the assumption says in one line. *)
LEMMA Timing ==
  /\ Node \subseteq Nat
  /\ RoundLength \in Nat \ {0}
  /\ HaltReportDelay \in Nat /\ CollectionDelay \in Nat /\ DecisionDelay \in Nat
  /\ RepairDelay \in Nat /\ CutoverSlack \in Nat /\ InstallDelays \subseteq Nat
  BY TimingAssumption

(* So is a round. *)
LEMMA RoundAtType == ASSUME NEW time \in Nat PROVE RoundAt(time) \in Nat
  BY Timing DEF RoundAt

-----------------------------------------------------------------------------
(* Induction. *)

(* A set of numbers has a least one. *)
LEMMA Least ==
  ASSUME NEW T, T \subseteq Nat, T # {}
  PROVE  \E x \in T : \A y \in T : ~(y < x)
<1>1. PICK x \in T : \A y \in T : ~(<<y, x>> \in OpToRel(<, Nat))
  BY NatLessThanWellFounded, WFMin
<1>2. \A y \in T : y < x => <<y, x>> \in OpToRel(<, Nat)
  BY DEF OpToRel
<1> QED
  BY <1>1, <1>2

(* Induction, over the set of the numbers for which a formula holds. *)
LEMMA SetInduction ==
  ASSUME NEW S, 0 \in S, \A k \in Nat : k \in S => k + 1 \in S
  PROVE  Nat \subseteq S
<1> SUFFICES ASSUME Nat \ S # {} PROVE FALSE
  OBVIOUS
<1>1. PICK x \in Nat \ S : \A y \in Nat \ S : ~(y < x)
  BY Least
<1>2. x # 0 /\ x - 1 \in Nat
  OBVIOUS
<1>3. x - 1 \in S
  BY <1>1, <1>2
<1> QED
  BY <1>2, <1>3

-----------------------------------------------------------------------------
(* Windows and episodes. *)

(* The parts of a state have their types. *)
LEMMA FieldTypes ==
  ASSUME NEW c \in ControlPlaneStates
  PROVE  /\ c.installDelay \in Nat /\ c.config \in Configs /\ c.pending \in Pendings
         /\ c.states \in [Node -> MembershipStates]
         /\ c.repair \in [Node -> Seq(Entries)]
         /\ c.scheduled \in SUBSET ScheduledActions
         /\ c.collecting \in SUBSET Node /\ c.targets \in SUBSET Node
         /\ c.queued \in SUBSET Node /\ c.members \in SUBSET Node
         /\ c.acks \in SUBSET Node
         /\ c.deadline \in Nat \cup {None} /\ c.nextEpisode \in Nat
         /\ c.episode \in Nat \cup {None} /\ c.prepareRound \in Nat \cup {None}
  BY Zenon DEF ControlPlaneStates

(* Opening a window takes what is queued. *)
LEMMA BeginWindowIs ==
  ASSUME NEW c \in ControlPlaneStates, NEW time \in Nat,
         NEW d, d = BeginWindow(c, time)
  PROVE  \/ /\ d = c
            /\ c.collecting # {} \/ EpisodeActive(c) \/ c.queued = {}
         \/ /\ c.collecting = {} /\ c.queued # {} /\ ~EpisodeActive(c)
            /\ d \in ControlPlaneStates
            /\ d.collecting = c.queued /\ d.queued = {} /\ d.deadline \in Nat
            /\ d.config = c.config /\ d.states = c.states /\ d.pending = c.pending
            /\ d.repair = c.repair /\ d.scheduled = c.scheduled /\ d.targets = c.targets
            /\ d.nextEpisode = c.nextEpisode /\ d.episode = c.episode
            /\ d.members = c.members
            /\ d.prepareRound = c.prepareRound /\ d.acks = c.acks
<1>1. CASE c.collecting # {} \/ EpisodeActive(c) \/ c.queued = {}
  BY <1>1 DEF BeginWindow
<1>2. CASE ~(c.collecting # {} \/ EpisodeActive(c) \/ c.queued = {})
  <2>1. time + CollectionDelay \in Nat
    BY Timing
  <2>2. d = [c EXCEPT !.collecting = c.queued, !.queued = {},
                      !.deadline = time + CollectionDelay]
    BY <1>2 DEF BeginWindow
  <2>3. d \in ControlPlaneStates
    BY <2>1, <2>2, Zenon DEF ControlPlaneStates
  <2> QED
    BY <1>2, <2>1, <2>2, <2>3 DEF ControlPlaneStates
<1> QED
  BY <1>1, <1>2

(* That is all it does. *)
LEMMA BeginWindowKeeps ==
  ASSUME NEW c, NEW items, InvWith(c, items), NEW time \in Nat,
         NEW d, d = BeginWindow(c, time)
  PROVE  InvWith(d, items) /\ KeepsRun(c, d) /\ d.scheduled = c.scheduled
<1>1. c \in ControlPlaneStates
  BY DEF InvWith
<1>2. CASE d = c
  BY <1>2 DEF KeepsRun, StaysInRun
<1>3. CASE d # c
  <2>1. None \notin Nat
    BY DEF None
  <2> QED
    BY <1>1, <1>3, <2>1, BeginWindowIs, FieldTypes
    DEF InvWith, WindowInv, StatesInv, PendingInv, ItemsInv, KeepsRun, StaysInRun, EpisodeActive
<1> QED
  BY <1>2, <1>3

\* What is scheduled for episode id.
EpisodeItems(a, b, e, id) == {At(a, "mark_recovering", id), At(b, "prepare_online_rejoin", id),
                              At(e, "abort_online_rejoin", id)}

(* Of new actions with an id of their own none is like another. *)
LEMMA NewItems ==
  ASSUME NEW c, NEW items, ItemsInv(c, items), c.nextEpisode \in Nat,
         NEW a \in Nat, NEW b \in Nat, NEW e \in Nat
  PROVE  LET new == EpisodeItems(a, b, e, c.nextEpisode) IN
         /\ new \subseteq ScheduledActions /\ IsFiniteSet(items \cup new)
         /\ \A i \in new : i.episode = c.nextEpisode /\ i.action # "commit_online_rejoin"
         /\ \A i, j \in items \cup new :
              i.episode = j.episode /\ i.action = j.action => i = j
<1> DEFINE new == EpisodeItems(a, b, e, c.nextEpisode)
<1>1. new \subseteq ScheduledActions
  BY DEF EpisodeItems, At, ScheduledActions, Actions
<1>2. IsFiniteSet(new)
  <2> DEFINE x == At(a, "mark_recovering", c.nextEpisode)
             y == At(b, "prepare_online_rejoin", c.nextEpisode)
             z == At(e, "abort_online_rejoin", c.nextEpisode)
  <2> HIDE DEF x, y, z
  <2>1. IsFiniteSet({x}) /\ IsFiniteSet({y}) /\ IsFiniteSet({z})
    BY FS_Singleton
  <2>2. IsFiniteSet({x} \cup {y}) /\ IsFiniteSet(({x} \cup {y}) \cup {z})
    BY <2>1, FS_Union
  <2>3. new = ({x} \cup {y}) \cup {z}
    BY DEF EpisodeItems, x, y, z
  <2> QED
    BY <2>2, <2>3
<1>3. IsFiniteSet(items \cup new)
  BY <1>2, FS_Union DEF ItemsInv
<1>4. \A i \in new : i.episode = c.nextEpisode /\ i.action # "commit_online_rejoin"
  BY DEF EpisodeItems, At
<1>5. \A i, j \in new : i.action = j.action => i = j
  BY DEF EpisodeItems, At
<1>6. \A i \in items : i.episode < c.nextEpisode
  BY DEF ItemsInv
<1>7. \A i \in items : i.episode # c.nextEpisode
  BY <1>6
<1> QED
  BY <1>1, <1>3, <1>4, <1>5, <1>7 DEF ItemsInv

(* Closing a window makes an episode of what it has collected. *)
LEMMA CloseWindowIs ==
  ASSUME NEW c \in ControlPlaneStates, NEW time \in Nat, WindowInv(c),
         NEW d, d = CloseWindowIfDue(c, time), d # c
  PROVE  /\ c.collecting # {} /\ c.deadline \in Nat
         /\ d \in ControlPlaneStates
         /\ d.collecting = {} /\ d.targets = c.collecting /\ d.deadline = None
         /\ d.episode = c.nextEpisode /\ d.nextEpisode = c.nextEpisode + 1
         /\ d.members = {n \in Node : c.states[n] = "ACTIVE"} \cup c.collecting
         /\ d.prepareRound \in Nat
         /\ \E a, b, e \in Nat :
              d.scheduled = c.scheduled \cup EpisodeItems(a, b, e, c.nextEpisode)
         /\ d.config = c.config /\ d.states = c.states /\ d.pending = c.pending
         /\ d.repair = c.repair /\ d.queued = c.queued /\ d.acks = c.acks
<1>1. c.deadline # None /\ c.deadline \in Nat /\ c.collecting # {}
  BY FieldTypes DEF CloseWindowIfDue, WindowInv
<1> DEFINE a == c.deadline + DecisionDelay
           b == a + RepairDelay
           e == b + c.installDelay
           id == c.nextEpisode
           new == EpisodeItems(a, b, e, id)
           members == {n \in Node : c.states[n] = "ACTIVE"} \cup c.collecting
           open == [c EXCEPT !.targets = c.collecting, !.collecting = {}]
<1>2. d = [ScheduleEpisode(open) EXCEPT !.deadline = None]
  BY <1>1 DEF CloseWindowIfDue
<1>3. /\ open.deadline = c.deadline /\ open.installDelay = c.installDelay
      /\ open.nextEpisode = c.nextEpisode /\ open.states = c.states
      /\ open.targets = c.collecting /\ open.scheduled = c.scheduled
  BY DEF ControlPlaneStates
<1>4. ScheduleEpisode(open) =
        [open EXCEPT !.episode = id, !.nextEpisode = id + 1, !.members = members,
                     !.prepareRound = RoundAt(b) + 1, !.scheduled = c.scheduled \cup new]
  BY <1>3, Zenon DEF ScheduleEpisode, EpisodeMembers, EpisodeItems
<1>5. /\ a \in Nat /\ b \in Nat /\ e \in Nat /\ id \in Nat /\ id + 1 \in Nat
      /\ RoundAt(b) + 1 \in Nat
  <2>1. a \in Nat /\ b \in Nat /\ e \in Nat /\ id \in Nat
    BY <1>1, Timing, FieldTypes
  <2> QED
    BY <2>1, RoundAtType
<1> HIDE DEF a, b, e, id
<1>6. new \subseteq ScheduledActions
  BY <1>5 DEF EpisodeItems, At, ScheduledActions, Actions
<1>7. members \in SUBSET Node /\ c.scheduled \cup new \in SUBSET ScheduledActions
  BY <1>6, FieldTypes
<1> HIDE DEF new, members
<1>8. d = [[open EXCEPT !.episode = id, !.nextEpisode = id + 1, !.members = members,
                        !.prepareRound = RoundAt(b) + 1, !.scheduled = c.scheduled \cup new]
             EXCEPT !.deadline = None]
  BY <1>2, <1>4
<1>9. d \in ControlPlaneStates
  <2>1. open \in ControlPlaneStates
    <3>1. c.collecting \in SUBSET Node /\ {} \in SUBSET Node
      BY FieldTypes
    <3> QED
      BY <3>1, Zenon DEF ControlPlaneStates
  <2> HIDE DEF open
  <2> DEFINE filled == [open EXCEPT
        !.episode = id, !.nextEpisode = id + 1, !.members = members,
        !.prepareRound = RoundAt(b) + 1, !.scheduled = c.scheduled \cup new]
  <2>2. filled \in ControlPlaneStates
    BY <2>1, <1>5, <1>7, Zenon DEF ControlPlaneStates
  <2> HIDE DEF filled
  <2>3. [filled EXCEPT !.deadline = None] \in ControlPlaneStates
    BY <2>2, Zenon DEF ControlPlaneStates
  <2> QED
    BY <2>3, <1>8 DEF filled
<1>10. /\ d.collecting = {} /\ d.targets = c.collecting /\ d.deadline = None
       /\ d.episode = id /\ d.nextEpisode = id + 1 /\ d.members = members
       /\ d.prepareRound = RoundAt(b) + 1
       /\ d.scheduled = c.scheduled \cup new
       /\ d.config = c.config /\ d.states = c.states /\ d.pending = c.pending
       /\ d.repair = c.repair /\ d.queued = c.queued /\ d.acks = c.acks
  BY <1>8 DEF ControlPlaneStates
<1> QED
  BY <1>1, <1>5, <1>9, <1>10 DEF id, members, new

(* The new episode is a good one, for nobody is in another. *)
LEMMA CloseWindowKeeps ==
  ASSUME NEW c, ControlPlaneInv(c), NEW time \in Nat,
         NEW d, d = CloseWindowIfDue(c, time)
  PROVE  ControlPlaneInv(d) /\ KeepsRun(c, d)
<1>1. c \in ControlPlaneStates /\ WindowInv(c)
  BY DEF ControlPlaneInv, InvWith
<1>2. CASE d = c
  BY <1>2 DEF KeepsRun, StaysInRun
<1>3. CASE d # c
  <2>1. /\ c.collecting # {} /\ c.deadline \in Nat
        /\ d \in ControlPlaneStates
        /\ d.collecting = {} /\ d.targets = c.collecting /\ d.deadline = None
        /\ d.episode = c.nextEpisode /\ d.nextEpisode = c.nextEpisode + 1
        /\ d.members = {n \in Node : c.states[n] = "ACTIVE"} \cup c.collecting
        /\ d.prepareRound \in Nat
        /\ \E a, b, e \in Nat :
             d.scheduled = c.scheduled \cup EpisodeItems(a, b, e, c.nextEpisode)
        /\ d.config = c.config /\ d.states = c.states /\ d.pending = c.pending
        /\ d.repair = c.repair /\ d.queued = c.queued /\ d.acks = c.acks
    BY <1>1, <1>3, CloseWindowIs
  <2>2. PICK a, b, e \in Nat :
               d.scheduled = c.scheduled \cup EpisodeItems(a, b, e, c.nextEpisode)
    BY <2>1
  <2>3. ItemsInv(c, c.scheduled) /\ StatesInv(c) /\ PendingInv(c)
    BY DEF ControlPlaneInv, InvWith
  <2>4. c.nextEpisode \in Nat /\ c.states \in [Node -> MembershipStates]
    BY <1>1, FieldTypes
  <2>5. ~EpisodeActive(c) /\ c.targets = {} /\ c.pending.status = "NONE" /\ c.episode = None
    BY <1>1, <2>1 DEF WindowInv, EpisodeActive
  <2>6. None \notin Nat
    BY DEF None
  <2>7. WindowInv(d)
    <3>1. ASSUME NEW n \in Node, n \notin d.members PROVE n \in d.queued
      BY <2>1, <2>3, <2>4, <2>5, <3>1 DEF StatesInv, MembershipStates
    <3> QED
      BY <2>1, <2>4, <2>5, <2>6, <3>1 DEF WindowInv
  <2>8. StatesInv(d)
    BY <2>1, <2>3, <2>5 DEF StatesInv
  <2>9. PendingInv(d)
    BY <2>1, <2>3, <2>5 DEF PendingInv
  <2>10. ItemsInv(d, d.scheduled)
    <3> DEFINE items == EpisodeItems(a, b, e, c.nextEpisode)
    <3>1. /\ items \subseteq ScheduledActions /\ IsFiniteSet(c.scheduled \cup items)
          /\ \A i \in items : i.episode = c.nextEpisode /\ i.action # "commit_online_rejoin"
          /\ \A i, j \in c.scheduled \cup items :
               i.episode = j.episode /\ i.action = j.action => i = j
      <4>1. c.nextEpisode \in Nat /\ a \in Nat /\ b \in Nat /\ e \in Nat
        BY <2>2, <2>4
      <4> QED
        BY <2>3, <4>1, NewItems
    <3> HIDE DEF items
    <3>2. \A i \in c.scheduled : i.episode < c.nextEpisode /\ i.episode \in Nat
      BY <2>3 DEF ItemsInv, ScheduledActions
    <3>3. \A i \in c.scheduled : i.episode # c.nextEpisode /\ i.episode < c.nextEpisode + 1
      BY <2>4, <3>2
    <3>4. d.scheduled = c.scheduled \cup items
      BY <2>2 DEF items
    <3>5. \A i \in d.scheduled :
            /\ i.episode < d.nextEpisode
            /\ i.episode = d.episode => i.action # "commit_online_rejoin"
      BY <2>1, <2>4, <3>1, <3>3, <3>4
    <3>6. c.scheduled \subseteq ScheduledActions
      BY <2>3 DEF ItemsInv
    <3> QED
      BY <2>1, <2>5, <3>1, <3>4, <3>5, <3>6 DEF ItemsInv
  <2>11. KeepsRun(c, d)
    BY <2>1, <2>5 DEF KeepsRun, StaysInRun
  <2> QED
    BY <2>1, <2>7, <2>8, <2>9, <2>10, <2>11 DEF ControlPlaneInv, InvWith
<1> QED
  BY <1>2, <1>3

(* Looking for a window to open and for one to close. *)
LEMMA WindowKeeps ==
  ASSUME NEW c, ControlPlaneInv(c), NEW time \in Nat
  PROVE  ControlPlaneInv(Window(c, time)) /\ KeepsRun(c, Window(c, time))
<1> DEFINE d == BeginWindow(c, time)
           e == CloseWindowIfDue(d, time)
<1>1. ControlPlaneInv(d) /\ KeepsRun(c, d)
  BY BeginWindowKeeps DEF ControlPlaneInv
<1> HIDE DEF d
<1>2. ControlPlaneInv(e) /\ KeepsRun(d, e)
  BY <1>1, CloseWindowKeeps
<1> QED
  BY <1>1, <1>2, KeepsRunTransitive DEF Window, d

-----------------------------------------------------------------------------
(* The actions of an episode. *)

(* No pending config is one of its kind. *)
LEMMA NoPendingType == NoPending \in Pendings
  BY DEF NoPending, Pendings, PendingStatuses, None

\* An episode in which everybody has been seen to.
MayEndWith(c, active) ==
  /\ c \in ControlPlaneStates
  /\ active \in SUBSET Node
  /\ active \subseteq c.config.members
  /\ Node \ active \subseteq c.queued
  /\ c.collecting = {}
  /\ c.deadline = None

(* The end of an episode leaves everybody settled or queued, whatever it was. *)
LEMMA EndEpisodeEstablishes ==
  ASSUME NEW c, NEW active, MayEndWith(c, active), NEW items, ItemsInv(c, items),
         NEW time \in Nat, NEW d, d = EndEpisode(c, active, time)
  PROVE  /\ InvWith(d, items)
         /\ d.config = c.config /\ d.pending = NoPending /\ d.acks = {}
         /\ d.scheduled \subseteq c.scheduled
         /\ \A n \in Node : /\ d.states[n] = (IF n \in active THEN "ACTIVE" ELSE "FAILED")
                           /\ d.repair[n] = <<>>
<1> DEFINE states == [n \in Node |-> IF n \in active THEN "ACTIVE" ELSE "FAILED"]
           repair == [n \in Node |-> <<>>]
           settled == [c EXCEPT !.states = states, !.pending = NoPending, !.repair = repair]
           e == ClearEpisode(settled)
           left == {item \in c.scheduled : c.episode = None \/ item.episode # c.episode}
<1>1. c \in ControlPlaneStates /\ c.collecting = {} /\ c.deadline = None
  BY DEF MayEndWith
<1>2. active \subseteq c.config.members /\ Node \ active \subseteq c.queued
  BY DEF MayEndWith
<1>3. states \in [Node -> MembershipStates] /\ repair \in [Node -> Seq(Entries)]
  BY DEF MembershipStates
<1>4. left \in SUBSET ScheduledActions
  BY <1>1, FieldTypes
<1>5. \A n \in Node : /\ states[n] = "ACTIVE" => n \in active
                      /\ states[n] = "FAILED" => n \notin active
                      /\ states[n] \notin {"RECOVERING", "REJOIN_PENDING"}
                      /\ repair[n] = <<>>
  OBVIOUS
<1> HIDE DEF states, repair
<1>6. settled.scheduled = c.scheduled /\ settled.episode = c.episode
  BY <1>1 DEF ControlPlaneStates
<1>7. e = [settled EXCEPT !.targets = {}, !.episode = None, !.members = {},
                          !.prepareRound = None, !.acks = {}, !.scheduled = left]
  BY <1>6, Zenon DEF ClearEpisode
<1>8. e \in ControlPlaneStates
  <2>1. settled \in ControlPlaneStates
    BY <1>1, <1>3, NoPendingType, Zenon DEF ControlPlaneStates
  <2> HIDE DEF settled, left
  <2>2. {} \in SUBSET Node /\ None \in Nat \cup {None}
    OBVIOUS
  <2> QED
    BY <2>1, <2>2, <1>4, <1>7, Zenon DEF ControlPlaneStates
<1>9. /\ e.states = states /\ e.pending = NoPending /\ e.repair = repair
      /\ e.targets = {} /\ e.episode = None /\ e.members = {} /\ e.acks = {}
      /\ e.scheduled = left /\ e.collecting = {} /\ e.deadline = None
      /\ e.config = c.config /\ e.queued = c.queued /\ e.nextEpisode = c.nextEpisode
  <2>1. /\ settled.states = states /\ settled.pending = NoPending /\ settled.repair = repair
        /\ settled.collecting = {} /\ settled.deadline = None /\ settled.config = c.config
        /\ settled.queued = c.queued /\ settled.nextEpisode = c.nextEpisode
    BY <1>1 DEF ControlPlaneStates
  <2>2. {"targets", "episode", "members", "prepareRound", "acks", "scheduled"}
          \subseteq DOMAIN settled
    BY <1>1 DEF ControlPlaneStates
  <2> HIDE DEF settled, left
  <2> QED
    BY <1>7, <2>1, <2>2
<1>10. InvWith(e, items)
  <2>1. WindowInv(e)
    BY <1>9 DEF WindowInv, NoPending
  <2>2. StatesInv(e)
    BY <1>2, <1>5, <1>9 DEF StatesInv
  <2>3. PendingInv(e)
    BY <1>9 DEF PendingInv, NoPending
  <2>4. ItemsInv(e, items)
    <3>1. \A i \in items : i.episode # None
      BY DEF ItemsInv, ScheduledActions, None
    <3> QED
      BY <1>9, <3>1 DEF ItemsInv
  <2> QED
    BY <1>8, <2>1, <2>2, <2>3, <2>4 DEF InvWith
<1>11. d = BeginWindow(e, time)
  BY Zenon DEF EndEpisode, states, repair
<1> HIDE DEF e
<1>12. InvWith(d, items) /\ d.scheduled = e.scheduled
  BY <1>10, <1>11, BeginWindowKeeps
<1>13. /\ d.config = e.config /\ d.pending = e.pending /\ d.acks = e.acks
       /\ d.states = e.states /\ d.repair = e.repair
  BY <1>8, <1>11, BeginWindowIs
<1> QED
  BY <1>9, <1>12, <1>13 DEF states, repair

\* What is left when item, which is due, has been applied to c.
AppliedKeeps(c, items, item, d) ==
  InvWith(d, items \ {item}) /\ KeepsRun(c, d) /\ d.scheduled \subseteq c.scheduled

(* The items that are left still fit. *)
LEMMA LessItems ==
  ASSUME NEW c, NEW items, NEW less, ItemsInv(c, items), less \subseteq items,
         c.scheduled \subseteq less
  PROVE  ItemsInv(c, less)
  BY FS_Subset DEF ItemsInv

(* Marking the targets, or making them pending, changes nothing but their states. *)
LEMMA MarkKeeps ==
  ASSUME NEW c, NEW items, InvWith(c, items), NEW state \in {"RECOVERING", "REJOIN_PENDING"},
         NEW d, d = UpdateNodeStates(c, StatesWithTargets(c, state))
  PROVE  InvWith(d, items) /\ KeepsRun(c, d) /\ d.scheduled = c.scheduled
<1> DEFINE states == StatesWithTargets(c, state)
<1>1. c \in ControlPlaneStates
  BY DEF InvWith
<1>2. states \in [Node -> MembershipStates]
  BY <1>1, FieldTypes DEF StatesWithTargets, MembershipStates
<1>3. \A n \in Node : states[n] = IF n \in c.targets THEN state ELSE c.states[n]
  BY DEF StatesWithTargets
<1> HIDE DEF states
<1>4. d = [c EXCEPT !.states = states]
  BY DEF UpdateNodeStates, states
<1>5. d \in ControlPlaneStates
  BY <1>1, <1>2, <1>4, Zenon DEF ControlPlaneStates
<1>6. /\ d.states = states
      /\ d.config = c.config /\ d.pending = c.pending /\ d.repair = c.repair
      /\ d.scheduled = c.scheduled /\ d.collecting = c.collecting /\ d.targets = c.targets
      /\ d.queued = c.queued /\ d.deadline = c.deadline /\ d.nextEpisode = c.nextEpisode
      /\ d.episode = c.episode /\ d.members = c.members
      /\ d.prepareRound = c.prepareRound /\ d.acks = c.acks
  BY <1>1, <1>4 DEF ControlPlaneStates
<1>7. WindowInv(d)
  BY <1>6 DEF InvWith, WindowInv, EpisodeActive
<1>8. StatesInv(d)
  BY <1>3, <1>6 DEF InvWith, StatesInv
<1>9. PendingInv(d) /\ ItemsInv(d, items)
  BY <1>6 DEF InvWith, PendingInv, ItemsInv
<1> QED
  BY <1>3, <1>5, <1>6, <1>7, <1>8, <1>9 DEF InvWith, KeepsRun, StaysInRun

(* A prepared config is that of the episode, and the first of its kind. *)
LEMMA PrepareKeeps ==
  ASSUME NEW c, NEW items, InvWith(c, items), NEW item \in items, item \notin c.scheduled,
         item.episode = c.episode, item.action = "prepare_online_rejoin",
         NEW d, d = PrepareRejoin(c)
  PROVE  AppliedKeeps(c, items, item, d)
<1> DEFINE less == items \ {item}
           pending == [status |-> "PREPARED", epoch |-> c.config.epoch + 1,
                       members |-> c.members, run |-> c.config.run + 1,
                       effective |-> c.prepareRound + CutoverSlack]
           told == [[c EXCEPT !.acks = {}] EXCEPT !.pending = pending]
           states == StatesWithTargets(told, "REJOIN_PENDING")
<1>1. c \in ControlPlaneStates
  BY DEF InvWith
<1>2. c.pending.status = "NONE" /\ c.episode # None
  BY DEF InvWith, ItemsInv, ScheduledActions, None
<1>3. /\ c.prepareRound + CutoverSlack \in Int
      /\ c.prepareRound + CutoverSlack >= CutoverSlack
  <2>1. c.prepareRound \in Nat
    BY <1>1, <1>2, FieldTypes DEF InvWith, WindowInv
  <2> QED
    BY <2>1, Timing
<1>4. pending \in Pendings
  BY <1>1, <1>3, FieldTypes DEF Pendings, PendingStatuses, Configs
<1>5. /\ pending.status = "PREPARED" /\ pending.members = c.members
      /\ pending.run = c.config.run + 1 /\ pending.epoch = c.config.epoch + 1
      /\ pending.effective >= CutoverSlack
  BY <1>3
<1>6. \A i \in less : i.episode = c.episode => i.action # "prepare_online_rejoin"
  BY DEF InvWith, ItemsInv
<1>7. \A i \in items : i.episode = c.episode => i.action # "commit_online_rejoin"
  BY <1>2 DEF InvWith, ItemsInv
<1> HIDE DEF pending
<1>8. told \in ControlPlaneStates
  <2>1. {} \in SUBSET Node
    OBVIOUS
  <2> QED
    BY <1>1, <1>4, <2>1, Zenon DEF ControlPlaneStates
<1>9. /\ told.acks = {} /\ told.pending = pending
      /\ told.config = c.config /\ told.states = c.states /\ told.repair = c.repair
      /\ told.scheduled = c.scheduled /\ told.collecting = c.collecting
      /\ told.targets = c.targets /\ told.queued = c.queued /\ told.deadline = c.deadline
      /\ told.nextEpisode = c.nextEpisode /\ told.episode = c.episode
      /\ told.members = c.members /\ told.prepareRound = c.prepareRound
  BY <1>1 DEF ControlPlaneStates
<1>10. d = UpdateNodeStates(told, StatesWithTargets(c, "REJOIN_PENDING"))
  <2>1. [c EXCEPT !.acks = {}].members = c.members
    BY <1>1 DEF ControlPlaneStates
  <2> QED
    BY Zenon DEF PrepareRejoin, InstallPendingFuture, pending
<1> HIDE DEF told
<1>11. StatesWithTargets(told, "REJOIN_PENDING") = StatesWithTargets(c, "REJOIN_PENDING")
  BY <1>9 DEF StatesWithTargets
<1>12. InvWith(told, less)
  <2>1. WindowInv(told) /\ StatesInv(told)
    BY <1>2, <1>9 DEF InvWith, WindowInv, StatesInv, EpisodeActive
  <2>2. PendingInv(told)
    BY <1>5, <1>9 DEF PendingInv
  <2>3. ItemsInv(told, less)
    <3>1. c.scheduled \subseteq less
      BY DEF InvWith, ItemsInv
    <3>2. ItemsInv(c, less)
      BY <3>1, LessItems DEF InvWith
    <3> QED
      BY <1>6, <1>7, <1>9, <3>2 DEF ItemsInv
  <2> QED
    BY <1>8, <2>1, <2>2, <2>3 DEF InvWith
<1>13. InvWith(d, less) /\ KeepsRun(told, d) /\ d.scheduled = told.scheduled
  BY <1>10, <1>11, <1>12, MarkKeeps
<1>14. KeepsRun(c, told)
  BY <1>2, <1>9 DEF KeepsRun, StaysInRun
<1> QED
  BY <1>9, <1>13, <1>14, KeepsRunTransitive DEF AppliedKeeps

(* A commit is of a prepared config that all its members have acknowledged. *)
LEMMA CommitKeeps ==
  ASSUME NEW c, NEW items, InvWith(c, items), NEW item \in items, item \notin c.scheduled,
         item.episode = c.episode, item.action = "commit_online_rejoin",
         NEW d, d = CommitRejoin(c, item.at)
  PROVE  AppliedKeeps(c, items, item, d)
<1> DEFINE less == items \ {item}
           pending == [c.pending EXCEPT !.status = "COMMITTED",
                                        !.effective = CutoverRound(@, item.at)]
<1>1. c \in ControlPlaneStates
  BY DEF InvWith
<1>2. c.pending.status = "PREPARED" /\ c.pending.members \subseteq c.acks
  BY DEF InvWith, ItemsInv
<1>3. /\ CutoverRound(c.pending.effective, item.at) \in Int
      /\ CutoverRound(c.pending.effective, item.at) >= CutoverSlack
  <2>1. item.at \in Nat
    BY DEF InvWith, ItemsInv, ScheduledActions
  <2>2. c.pending.effective \in Int /\ c.pending.effective >= CutoverSlack
    BY <1>1, <1>2, FieldTypes DEF Pendings, InvWith, PendingInv
  <2>3. RoundAt(item.at) \in Nat
    BY <2>1, RoundAtType
  <2> QED
    BY <2>2, <2>3, Timing DEF CutoverRound, MaxOf
<1>4. pending \in Pendings
  BY <1>1, <1>3, FieldTypes DEF Pendings, PendingStatuses
<1>5. /\ pending.status = "COMMITTED" /\ pending.members = c.pending.members
      /\ pending.run = c.pending.run /\ pending.epoch = c.pending.epoch
      /\ pending.effective >= CutoverSlack
  BY <1>1, <1>3, FieldTypes DEF Pendings
<1>6. d = [c EXCEPT !.pending = pending]
  BY <1>2 DEF CommitRejoin, InstallPendingFuture
<1> HIDE DEF pending
<1>7. d \in ControlPlaneStates
  BY <1>1, <1>4, <1>6, Zenon DEF ControlPlaneStates
<1>8. /\ d.pending = pending
      /\ d.config = c.config /\ d.states = c.states /\ d.repair = c.repair
      /\ d.scheduled = c.scheduled /\ d.collecting = c.collecting /\ d.targets = c.targets
      /\ d.queued = c.queued /\ d.deadline = c.deadline /\ d.nextEpisode = c.nextEpisode
      /\ d.episode = c.episode /\ d.members = c.members
      /\ d.prepareRound = c.prepareRound /\ d.acks = c.acks
  BY <1>1, <1>6 DEF ControlPlaneStates
<1>9. WindowInv(d) /\ StatesInv(d)
  BY <1>2, <1>5, <1>8 DEF InvWith, WindowInv, StatesInv, EpisodeActive
<1>10. PendingInv(d)
  BY <1>2, <1>5, <1>8 DEF InvWith, PendingInv
<1>11. ItemsInv(d, less)
  <2>1. c.scheduled \subseteq less
    BY DEF InvWith, ItemsInv
  <2>2. ItemsInv(c, less)
    BY <2>1, LessItems DEF InvWith
  <2>3. \A i \in less : i.episode = c.episode =>
          i.action \notin {"prepare_online_rejoin", "commit_online_rejoin"}
    BY <1>2 DEF InvWith, ItemsInv
  <2> QED
    BY <1>8, <2>2, <2>3 DEF ItemsInv
<1> QED
  BY <1>2, <1>5, <1>7, <1>8, <1>9, <1>10, <1>11 DEF InvWith, AppliedKeeps, KeepsRun, StaysInRun

(* An abort leaves those active that are in no episode and wait for none. *)
LEMMA AbortKeeps ==
  ASSUME NEW c, NEW items, InvWith(c, items), NEW item \in items, item \notin c.scheduled,
         NEW d, d = AbortRejoin(c, item.at)
  PROVE  AppliedKeeps(c, items, item, d)
<1> DEFINE less == items \ {item}
           retry == RetryTargets(c)
           active == Node \ retry
           again == [c EXCEPT !.queued = retry]
<1>1. c \in ControlPlaneStates
  BY DEF InvWith
<1>2. ItemsInv(c, less)
  <2>1. c.scheduled \subseteq less
    BY DEF InvWith, ItemsInv
  <2> QED
    BY <2>1, LessItems DEF InvWith
<1>3. CASE c.pending.status # "PREPARED"
  BY <1>2, <1>3 DEF AbortRejoin, InvWith, AppliedKeeps, KeepsRun, StaysInRun
<1>4. CASE c.pending.status = "PREPARED"
  <2>1. /\ c.episode # None /\ c.collecting = {} /\ c.deadline = None
    BY <1>4 DEF InvWith, WindowInv, EpisodeActive
  <2>2. retry \in SUBSET Node
    BY <1>1, FieldTypes DEF RetryTargets
  <2>3. \A n \in Node \ retry : c.states[n] = "ACTIVE" /\ n \in c.config.members
    BY <1>1, <2>1, FieldTypes DEF RetryTargets, InvWith, StatesInv, MembershipStates
  <2>4. again \in ControlPlaneStates
    BY <1>1, <2>2, Zenon DEF ControlPlaneStates
  <2>5. /\ again.queued = retry /\ again.config = c.config /\ again.collecting = {}
        /\ again.deadline = None /\ again.scheduled = c.scheduled
        /\ again.nextEpisode = c.nextEpisode /\ again.episode = c.episode
        /\ again.pending = c.pending /\ again.acks = c.acks
    BY <1>1, <2>1 DEF ControlPlaneStates
  <2>6. d = EndEpisode(again, active, item.at)
    BY <1>4 DEF AbortRejoin
  <2> HIDE DEF again, retry
  <2>7. ItemsInv(again, less)
    BY <1>2, <2>5 DEF ItemsInv
  <2>8. PICK time \in Nat : time = item.at
    BY DEF InvWith, ItemsInv, ScheduledActions
  <2>9. /\ InvWith(d, less)
        /\ d.config = c.config /\ d.acks = {}
        /\ d.scheduled \subseteq c.scheduled
        /\ \A n \in Node : /\ d.states[n] = (IF n \in active THEN "ACTIVE" ELSE "FAILED")
                          /\ d.repair[n] = <<>>
    <3>1. MayEndWith(again, active)
      BY <2>2, <2>3, <2>4, <2>5 DEF MayEndWith
    <3> HIDE DEF active, less
    <3>3. /\ InvWith(d, less)
          /\ d.config = again.config /\ d.acks = {}
          /\ d.scheduled \subseteq again.scheduled
          /\ \A n \in Node : /\ d.states[n] = (IF n \in active THEN "ACTIVE" ELSE "FAILED")
                            /\ d.repair[n] = <<>>
      BY <2>6, <2>7, <2>8, <3>1, EndEpisodeEstablishes
    <3> QED
      BY <2>5, <3>3
  <2>10. KeepsRun(c, d)
    BY <1>4, <2>3, <2>9 DEF KeepsRun, StaysInRun
  <2> QED
    BY <2>9, <2>10 DEF AppliedKeeps
<1> QED
  BY <1>3, <1>4

(* Whatever the action, if it is not of an episode that is over. *)
LEMMA ApplyActionKeeps ==
  ASSUME NEW c, NEW items, InvWith(c, items), NEW item \in items, item \notin c.scheduled
  PROVE  AppliedKeeps(c, items, item, ApplyAction(c, item))
<1>1. item.action \in Actions
  BY DEF InvWith, ItemsInv, ScheduledActions
<1>2. CASE item.episode # c.episode
  <2>1. c.scheduled \subseteq items \ {item}
    BY DEF InvWith, ItemsInv
  <2> QED
    BY <1>2, <2>1, LessItems DEF ApplyAction, InvWith, AppliedKeeps, KeepsRun, StaysInRun
<1>3. CASE item.episode = c.episode /\ item.action = "mark_recovering"
  <2> DEFINE d == ApplyAction(c, item)
  <2>1. d = UpdateNodeStates(c, StatesWithTargets(c, "RECOVERING"))
    BY <1>3 DEF ApplyAction, MarkRecovering
  <2> HIDE DEF d
  <2>2. InvWith(d, items) /\ KeepsRun(c, d) /\ d.scheduled = c.scheduled
    BY <2>1, MarkKeeps
  <2>3. ItemsInv(d, items \ {item})
    <3>1. d.scheduled \subseteq items \ {item}
      BY <2>2 DEF InvWith, ItemsInv
    <3> QED
      BY <2>2, <3>1, LessItems DEF InvWith
  <2> QED
    BY <2>2, <2>3 DEF InvWith, AppliedKeeps, d
<1>4. CASE item.episode = c.episode /\ item.action = "prepare_online_rejoin"
  BY <1>4, PrepareKeeps DEF ApplyAction
<1>5. CASE item.episode = c.episode /\ item.action = "commit_online_rejoin"
  BY <1>5, CommitKeeps DEF ApplyAction
<1>6. CASE item.episode = c.episode /\ item.action = "abort_online_rejoin"
  BY <1>6, AbortKeeps DEF ApplyAction
<1> QED
  BY <1>1, <1>2, <1>3, <1>4, <1>5, <1>6 DEF Actions

(* sorted() has a first one to put. *)
LEMMA FirstIsOne ==
  ASSUME NEW items, items \subseteq ScheduledActions, items # {}
  PROVE  First(items) \in items
<1> DEFINE times == {i.at : i \in items}
<1>1. PICK soonest \in items : \A j \in items : ~(j.at < soonest.at)
  <2>1. times \subseteq Nat /\ times # {}
    BY DEF ScheduledActions
  <2> HIDE DEF times
  <2>2. PICK t \in times : \A u \in times : ~(u < t)
    BY <2>1, Least
  <2> QED
    BY <2>2 DEF times
<1> DEFINE due == {i \in items : i.at = soonest.at}
           ranks == {Rank(i.action) : i \in due}
<1>2. \A i \in items : Rank(i.action) \in Nat
  BY DEF ScheduledActions, Actions, Rank
<1>3. PICK i \in due : \A j \in due : ~(Rank(j.action) < Rank(i.action))
  <2>1. ranks \subseteq Nat /\ ranks # {}
    BY <1>2
  <2> HIDE DEF ranks
  <2>2. PICK r \in ranks : \A s \in ranks : ~(s < r)
    BY <2>1, Least
  <2> QED
    BY <2>2 DEF ranks
<1>4. \A j \in items : ~Earlier(j, i)
  BY <1>1, <1>3 DEF Earlier
<1> QED
  BY <1>3, <1>4 DEF First

\* What the loop over the due actions has made of the first k of them.
Looped(c, ready, g, k) ==
  g = [j \in 0 .. k |->
        IF j = 0 THEN [state |-> c, todo |-> ready]
        ELSE LET before == g[j - 1]
                 item == First(before.todo)
             IN  [state |-> ApplyAction(before.state, item),
                  todo |-> before.todo \ {item}]]

(* The loop ends. *)
LEMMA LoopEnds ==
  ASSUME NEW c, NEW ready, IsFiniteSet(ready)
  PROVE  \E g : Looped(c, ready, g, Cardinality(ready)) /\
                ApplyActions(c, ready) = g[Cardinality(ready)].state
<1> DEFINE S == {k \in Nat : \E g : Looped(c, ready, g, k)}
           Next(p) == [state |-> ApplyAction(p.state, First(p.todo)),
                       todo |-> p.todo \ {First(p.todo)}]
<1>1. 0 \in S
  <2> DEFINE g == [j \in 0 .. 0 |-> [state |-> c, todo |-> ready]]
  <2>1. \A j \in 0 .. 0 : j = 0
    OBVIOUS
  <2>2. Looped(c, ready, g, 0)
    BY <2>1 DEF Looped
  <2> QED
    BY <2>2
<1>2. ASSUME NEW k \in Nat, k \in S PROVE k + 1 \in S
  <2>1. PICK g : Looped(c, ready, g, k)
    BY <1>2
  <2> DEFINE h == [j \in 0 .. k + 1 |-> IF j <= k THEN g[j] ELSE Next(g[k])]
  <2>2. /\ DOMAIN g = 0 .. k
        /\ \A j \in 0 .. k : g[j] = IF j = 0 THEN [state |-> c, todo |-> ready]
                                    ELSE Next(g[j - 1])
    BY <2>1 DEF Looped
  <2> HIDE DEF Next
  <2>3. \A j \in 0 .. k + 1 : h[j] = IF j = 0 THEN [state |-> c, todo |-> ready]
                                     ELSE Next(h[j - 1])
    BY <2>2
  <2>4. h = [j \in 0 .. k + 1 |-> IF j = 0 THEN [state |-> c, todo |-> ready]
                                  ELSE Next(h[j - 1])]
    BY <2>3
  <2> HIDE DEF h
  <2>5. Looped(c, ready, h, k + 1)
    BY <2>4 DEF Looped, Next
  <2> QED
    BY <2>5
<1>3. Cardinality(ready) \in Nat
  BY FS_CardinalityType
<1>4. \E g : Looped(c, ready, g, Cardinality(ready))
  <2> HIDE DEF S
  <2>1. Cardinality(ready) \in S
    BY <1>1, <1>2, <1>3, SetInduction
  <2> QED
    BY <2>1 DEF S
<1> QED
  BY <1>4 DEF ApplyActions, Looped

(* What the loop leaves is a state like the one it starts from. *)
LEMMA ApplyActionsKeep ==
  ASSUME NEW c, NEW ready, InvWith(c, c.scheduled \cup ready), c.scheduled \cap ready = {}
  PROVE  /\ ControlPlaneInv(ApplyActions(c, ready))
         /\ KeepsRun(c, ApplyActions(c, ready))
<1> DEFINE N == Cardinality(ready)
<1>1. IsFiniteSet(ready) /\ ready \subseteq ScheduledActions
  <2>1. ready \subseteq c.scheduled \cup ready
    OBVIOUS
  <2> QED
    BY <2>1, FS_Subset DEF InvWith, ItemsInv
<1>2. N \in Nat
  BY <1>1, FS_CardinalityType
<1>3. PICK g : Looped(c, ready, g, N) /\ ApplyActions(c, ready) = g[N].state
  BY <1>1, LoopEnds
<1> DEFINE Good(s, todo) == /\ todo \subseteq ready
                            /\ InvWith(s, s.scheduled \cup todo)
                            /\ s.scheduled \cap todo = {}
                            /\ s.scheduled \subseteq c.scheduled
                            /\ KeepsRun(c, s)
           P(k) == Good(g[k].state, g[k].todo) /\ Cardinality(g[k].todo) = N - k
           S == {k \in Nat : k <= N => P(k)}
<1> HIDE DEF N
<1>4. P(0)
  <2>1. g[0].state = c /\ g[0].todo = ready
    BY <1>2, <1>3 DEF Looped
  <2>2. KeepsRun(c, c)
    BY DEF KeepsRun, StaysInRun
  <2> QED
    BY <1>2, <2>1, <2>2 DEF N
<1>5. ASSUME NEW k \in Nat, k + 1 <= N, P(k) PROVE P(k + 1)
  <2> DEFINE s == g[k].state
             todo == g[k].todo
             item == First(todo)
             t == ApplyAction(s, item)
  <2>1. Good(s, todo) /\ Cardinality(todo) = N - k
    BY <1>5
  <2>2. g[k + 1].state = t /\ g[k + 1].todo = todo \ {item}
    <3>1. k + 1 \in 0 .. N /\ k + 1 # 0 /\ k + 1 - 1 = k
      BY <1>2, <1>5
    <3>2. \A j \in 0 .. N : j # 0 =>
            g[j] = [state |-> ApplyAction(g[j - 1].state, First(g[j - 1].todo)),
                    todo |-> g[j - 1].todo \ {First(g[j - 1].todo)}]
      BY <1>3 DEF Looped
    <3>3. g[k + 1] = [state |-> t, todo |-> todo \ {item}]
      BY <3>1, <3>2
    <3> QED
      BY <3>3
  <2> HIDE DEF s, todo
  <2>3. IsFiniteSet(todo) /\ todo # {}
    BY <1>1, <1>2, <1>5, <2>1, FS_Subset, FS_EmptySet
  <2>4. item \in todo
    BY <1>1, <2>1, <2>3, FirstIsOne
  <2> HIDE DEF item
  <2>5. Cardinality(todo \ {item}) = N - (k + 1)
    <3>1. Cardinality(todo \ {item}) = Cardinality(todo) - 1
      BY <2>3, <2>4, FS_RemoveElement
    <3> QED
      BY <1>2, <2>1, <3>1
  <2>6. AppliedKeeps(s, s.scheduled \cup todo, item, t)
    BY <2>1, <2>4, ApplyActionKeeps
  <2> HIDE DEF t
  <2>7. InvWith(t, t.scheduled \cup (todo \ {item}))
    <3>1. t.scheduled \cup (todo \ {item}) \subseteq (s.scheduled \cup todo) \ {item}
      BY <2>1, <2>4, <2>6 DEF AppliedKeeps
    <3>2. ItemsInv(t, t.scheduled \cup (todo \ {item}))
      BY <2>6, <3>1, LessItems DEF AppliedKeeps, InvWith
    <3> QED
      BY <2>6, <3>2 DEF AppliedKeeps, InvWith
  <2>8. KeepsRun(c, t)
    BY <2>1, <2>6, KeepsRunTransitive DEF AppliedKeeps
  <2>9. Good(t, todo \ {item})
    BY <2>1, <2>6, <2>7, <2>8 DEF AppliedKeeps
  <2> HIDE DEF Good
  <2> QED
    BY <2>2, <2>5, <2>9
<1>6. 0 \in S /\ \A k \in Nat : k \in S => k + 1 \in S
  <2> HIDE DEF P
  <2> QED
    BY <1>2, <1>4, <1>5
<1>7. P(N)
  <2> HIDE DEF P
  <2>1. Nat \subseteq S
    <3> HIDE DEF S
    <3> QED
      BY <1>6, SetInduction
  <2> QED
    BY <1>2, <2>1
<1>8. Good(g[N].state, g[N].todo) /\ Cardinality(g[N].todo) = 0
  BY <1>2, <1>7
<1>9. g[N].todo = {}
  <2>1. IsFiniteSet(g[N].todo)
    BY <1>1, <1>8, FS_Subset
  <2> QED
    BY <1>8, <2>1, FS_EmptySet
<1> QED
  BY <1>3, <1>8, <1>9 DEF ControlPlaneInv

-----------------------------------------------------------------------------
(* The entry points. *)

(* A repair log is for those who need one. *)
LEMMA RebuildKeeps ==
  ASSUME NEW c, ControlPlaneInv(c), NEW history, Node # {} => RepairPrefix(history) \in Seq(Entries),
         NEW d, d = RebuildRepairLogs(c, history)
  PROVE  /\ ControlPlaneInv(d)
         /\ d.config = c.config /\ d.pending = c.pending /\ d.states = c.states
         /\ d.acks = c.acks
         /\ \A n \in Node : d.repair[n] \in {c.repair[n], <<>>, RepairPrefix(history)}
<1>1. c \in ControlPlaneStates
  BY DEF ControlPlaneInv, InvWith
<1>2. CASE d = c
  BY <1>2
<1>3. CASE d # c
  <2> DEFINE prefix == RepairPrefix(history)
             repair == [n \in Node |-> IF n \in RepairTargets(c) THEN prefix ELSE <<>>]
  <2>1. d = [c EXCEPT !.repair = repair]
    BY <1>3 DEF RebuildRepairLogs
  <2>2. Node # {} => prefix \in Seq(Entries)
    OBVIOUS
  <2> HIDE DEF prefix
  <2>3. repair \in [Node -> Seq(Entries)]
    BY <2>2
  <2>4. \A n \in Node : /\ repair[n] \in {prefix, <<>>}
                        /\ c.states[n] = "ACTIVE" => repair[n] = <<>>
    BY DEF RepairTargets
  <2> HIDE DEF repair
  <2>5. d \in ControlPlaneStates
    BY <1>1, <2>1, <2>3, Zenon DEF ControlPlaneStates
  <2>6. /\ d.repair = repair
        /\ d.config = c.config /\ d.pending = c.pending /\ d.states = c.states
        /\ d.scheduled = c.scheduled /\ d.collecting = c.collecting /\ d.targets = c.targets
        /\ d.queued = c.queued /\ d.deadline = c.deadline /\ d.nextEpisode = c.nextEpisode
        /\ d.episode = c.episode /\ d.members = c.members
        /\ d.prepareRound = c.prepareRound /\ d.acks = c.acks
    BY <1>1, <2>1 DEF ControlPlaneStates
  <2>7. WindowInv(d)
    BY <2>6 DEF ControlPlaneInv, InvWith, WindowInv, EpisodeActive
  <2>8. StatesInv(d)
    BY <2>4, <2>6 DEF ControlPlaneInv, InvWith, StatesInv
  <2>9. PendingInv(d) /\ ItemsInv(d, d.scheduled)
    BY <2>6 DEF ControlPlaneInv, InvWith, PendingInv, ItemsInv
  <2> QED
    BY <2>4, <2>5, <2>6, <2>7, <2>8, <2>9 DEF ControlPlaneInv, InvWith, prefix
<1> QED
  BY <1>2, <1>3

(* What is due is done, and a node is repaired with a committed log. *)
LEMMA AdvanceKeeps ==
  ASSUME NEW c, ControlPlaneInv(c), NEW time \in Nat,
         NEW history, Node # {} => RepairPrefix(history) \in Seq(Entries)
  PROVE  LET d == AdvanceToTime(c, time, history) IN
         /\ ControlPlaneInv(d) /\ StaysInRun(c, d)
         /\ \A n \in Node : d.repair[n] \in {c.repair[n], <<>>, RepairPrefix(history)}
<1> DEFINE opened == Window(c, time)
           ready == {item \in opened.scheduled : item.at <= time}
           rest == opened.scheduled \ ready
           taken == [opened EXCEPT !.scheduled = rest]
           applied == ApplyActions(taken, ready)
           closed == Window(applied, time)
           d == RebuildRepairLogs(closed, history)
<1>1. ControlPlaneInv(opened) /\ KeepsRun(c, opened)
  BY WindowKeeps
<1>2. opened \in ControlPlaneStates
  BY <1>1 DEF ControlPlaneInv, InvWith
<1>3. AdvanceToTime(c, time, history) = d
  BY DEF AdvanceToTime
<1> HIDE DEF opened
<1>4. InvWith(taken, taken.scheduled \cup ready) /\ taken.scheduled \cap ready = {}
        /\ KeepsRun(opened, taken)
  <2>1. rest \in SUBSET ScheduledActions
    BY <1>2, FieldTypes
  <2>2. rest \cup ready = opened.scheduled /\ rest \cap ready = {}
    OBVIOUS
  <2> HIDE DEF rest, ready
  <2>3. taken \in ControlPlaneStates
    BY <1>2, <2>1, Zenon DEF ControlPlaneStates
  <2>4. /\ taken.scheduled = rest
        /\ taken.config = opened.config /\ taken.pending = opened.pending
        /\ taken.states = opened.states /\ taken.repair = opened.repair
        /\ taken.collecting = opened.collecting /\ taken.targets = opened.targets
        /\ taken.queued = opened.queued /\ taken.deadline = opened.deadline
        /\ taken.nextEpisode = opened.nextEpisode /\ taken.episode = opened.episode
        /\ taken.members = opened.members
        /\ taken.prepareRound = opened.prepareRound /\ taken.acks = opened.acks
    BY <1>2 DEF ControlPlaneStates
  <2> HIDE DEF taken
  <2>5. WindowInv(taken)
    BY <1>1, <2>4 DEF ControlPlaneInv, InvWith, WindowInv, EpisodeActive
  <2>6. StatesInv(taken)
    BY <1>1, <2>4 DEF ControlPlaneInv, InvWith, StatesInv
  <2>7. PendingInv(taken)
    BY <1>1, <2>4 DEF ControlPlaneInv, InvWith, PendingInv
  <2>8. ItemsInv(taken, opened.scheduled)
    BY <1>1, <2>2, <2>4 DEF ControlPlaneInv, InvWith, ItemsInv
  <2>9. KeepsRun(opened, taken)
    BY <2>4 DEF KeepsRun, StaysInRun
  <2> QED
    BY <2>2, <2>3, <2>4, <2>5, <2>6, <2>7, <2>8, <2>9 DEF InvWith
<1> HIDE DEF taken, ready
<1>5. ControlPlaneInv(applied) /\ KeepsRun(taken, applied)
  BY <1>4, ApplyActionsKeep
<1> HIDE DEF applied
<1>6. ControlPlaneInv(closed) /\ KeepsRun(applied, closed)
  BY <1>5, WindowKeeps
<1> HIDE DEF closed
<1>7. KeepsRun(c, closed)
  BY <1>1, <1>4, <1>5, <1>6, KeepsRunTransitive
<1>8. /\ ControlPlaneInv(d)
      /\ d.config = closed.config /\ d.pending = closed.pending
      /\ d.states = closed.states /\ d.acks = closed.acks
      /\ \A n \in Node : d.repair[n] \in {closed.repair[n], <<>>, RepairPrefix(history)}
  BY <1>6, RebuildKeeps
<1> HIDE DEF d
<1>9. StaysInRun(c, d)
  BY <1>7, <1>8 DEF KeepsRun, StaysInRun
<1> QED
  BY <1>3, <1>7, <1>8, <1>9 DEF KeepsRun

(* A cutover brings in the config that all its members have acknowledged. *)
LEMMA CutoverKeeps ==
  ASSUME NEW c, ControlPlaneInv(c), NEW round \in Nat
  PROVE  LET d == ActivateCutoverIfDue(c, round) IN
         /\ ControlPlaneInv(d) /\ ~CutoverIsDue(d, round)
         /\ d = c \/ (SwitchesRun(c, d) /\ round >= CutoverSlack)
         /\ \A n \in Node : d.repair[n] \in {c.repair[n], <<>>}
<1> DEFINE d == ActivateCutoverIfDue(c, round)
<1>1. CASE ~CutoverIsDue(c, round)
  BY <1>1 DEF ActivateCutoverIfDue
<1>2. CASE CutoverIsDue(c, round)
  <2> DEFINE config == [epoch |-> c.pending.epoch, members |-> c.pending.members,
                        run |-> c.pending.run]
             active == c.pending.members
             next == [c EXCEPT !.config = config]
  <2>1. c \in ControlPlaneStates
    BY DEF ControlPlaneInv, InvWith
  <2>2. /\ c.pending.status = "COMMITTED" /\ c.episode # None
        /\ c.collecting = {} /\ c.deadline = None
    BY <1>2 DEF CutoverIsDue, ControlPlaneInv, InvWith, WindowInv, EpisodeActive
  <2>13. round >= CutoverSlack
    <3>1. /\ round >= c.pending.effective /\ c.pending.effective >= CutoverSlack
          /\ c.pending.effective \in Int
      BY <1>2, <2>1, <2>2, FieldTypes
      DEF CutoverIsDue, ControlPlaneInv, InvWith, PendingInv, Pendings
    <3> QED
      BY <3>1, Timing
  <2>3. /\ active \in SUBSET Node /\ Node \ active \subseteq c.queued
        /\ config.run = c.config.run + 1 /\ config.epoch = c.config.epoch + 1
        /\ config.members = active
    BY <2>1, <2>2, FieldTypes DEF ControlPlaneInv, InvWith, WindowInv, PendingInv, Pendings
  <2>4. config \in Configs
    BY <2>1, FieldTypes DEF Pendings, Configs
  <2> HIDE DEF config
  <2>5. next \in ControlPlaneStates
    BY <2>1, <2>4, Zenon DEF ControlPlaneStates
  <2>6. /\ next.config = config
        /\ next.queued = c.queued /\ next.collecting = {} /\ next.deadline = None
        /\ next.scheduled = c.scheduled /\ next.nextEpisode = c.nextEpisode
        /\ next.episode = c.episode /\ next.pending = c.pending /\ next.acks = c.acks
    BY <2>1, <2>2 DEF ControlPlaneStates
  <2>7. d = EndEpisode(next, active, round * RoundLength)
    BY <1>2 DEF ActivateCutoverIfDue, config
  <2>8. PICK time \in Nat : time = round * RoundLength
    BY Timing
  <2> HIDE DEF d, next, active
  <2>9. MayEndWith(next, active)
    BY <2>3, <2>5, <2>6 DEF MayEndWith
  <2>10. ItemsInv(next, c.scheduled)
    BY <2>6 DEF ControlPlaneInv, InvWith, ItemsInv
  <2>11. /\ InvWith(d, c.scheduled)
         /\ d.config = config /\ d.pending = NoPending /\ d.acks = {}
         /\ \A n \in Node : d.repair[n] = <<>>
    BY <2>6, <2>7, <2>8, <2>9, <2>10, EndEpisodeEstablishes
  <2>12. ControlPlaneInv(d)
    <3>1. ItemsInv(d, c.scheduled)
      BY <2>11 DEF InvWith
    <3>2. d.scheduled \subseteq c.scheduled
      BY <3>1 DEF ItemsInv
    <3>3. ItemsInv(d, d.scheduled)
      BY <3>1, <3>2, LessItems
    <3> QED
      BY <2>11, <3>3 DEF ControlPlaneInv, InvWith
  <2> QED
    BY <2>3, <2>11, <2>12, <2>13 DEF CutoverIsDue, NoPending, SwitchesRun, d
<1> QED
  BY <1>1, <1>2

(* A round's turn of the control plane: it stays in the run or switches to the next. *)
THEOREM TurnKeeps ==
  ASSUME NEW c, ControlPlaneInv(c), NEW round \in Nat, NEW time \in Nat,
         NEW history, Node # {} => RepairPrefix(history) \in Seq(Entries)
  PROVE  LET d == ControlState(AdvanceToTime(c, time, history), round, history) IN
         /\ ControlPlaneInv(d) /\ ~CutoverIsDue(d, round)
         /\ StaysInRun(c, d) \/ (SwitchesRun(c, d) /\ round >= CutoverSlack)
         /\ \A n \in Node : d.repair[n] \in {c.repair[n], <<>>, RepairPrefix(history)}
<1> DEFINE advanced == AdvanceToTime(c, time, history)
           active == ActivateCutoverIfDue(advanced, round)
           d == RebuildRepairLogs(active, history)
<1>1. /\ ControlPlaneInv(advanced) /\ StaysInRun(c, advanced)
      /\ \A n \in Node : advanced.repair[n] \in {c.repair[n], <<>>, RepairPrefix(history)}
  BY AdvanceKeeps
<1> HIDE DEF advanced
<1>2. /\ ControlPlaneInv(active) /\ ~CutoverIsDue(active, round)
      /\ active = advanced \/ (SwitchesRun(advanced, active) /\ round >= CutoverSlack)
      /\ \A n \in Node : active.repair[n] \in {advanced.repair[n], <<>>}
  BY <1>1, CutoverKeeps
<1> HIDE DEF active
<1>3. /\ ControlPlaneInv(d)
      /\ d.config = active.config /\ d.pending = active.pending
      /\ d.states = active.states /\ d.acks = active.acks
      /\ \A n \in Node : d.repair[n] \in {active.repair[n], <<>>, RepairPrefix(history)}
  BY <1>2, RebuildKeeps
<1>4. ControlState(advanced, round, history) = d
  BY DEF ControlState, active
<1> HIDE DEF d
<1>5. ~CutoverIsDue(d, round)
  BY <1>2, <1>3 DEF CutoverIsDue
<1>6. StaysInRun(c, d) \/ (SwitchesRun(c, d) /\ round >= CutoverSlack)
  BY <1>1, <1>2, <1>3 DEF StaysInRun, SwitchesRun
<1> QED
  BY <1>1, <1>2, <1>3, <1>4, <1>5, <1>6 DEF advanced

(* An acknowledgement is counted, and the last one that is missing schedules the commit. *)
LEMMA AckKeeps ==
  ASSUME NEW c, ControlPlaneInv(c), NEW n \in Node, NEW config, NEW time \in Nat,
         NEW d, d = NotePrepareAck(c, n, config, time)
  PROVE  /\ ControlPlaneInv(d)
         /\ d.config = c.config /\ d.pending = c.pending /\ d.states = c.states
         /\ d.repair = c.repair
         /\ d.acks \subseteq c.acks \cup {n}
<1> DEFINE acks == c.acks \cup {n}
           toCommit == At(time + DecisionDelay, "commit_online_rejoin", c.episode)
           scheduled == IF /\ AllAcked(c, acks)
                           /\ \A item \in c.scheduled : \/ item.action # toCommit.action
                                                       \/ item.episode # c.episode
                        THEN c.scheduled \cup {toCommit} ELSE c.scheduled
<1>1. c \in ControlPlaneStates
  BY DEF ControlPlaneInv, InvWith
<1>2. CASE d = c
  BY <1>2
<1>3. CASE d # c
  <2>1. c.pending.status = "PREPARED" /\ c.episode # None
    BY <1>3 DEF NotePrepareAck, ControlPlaneInv, InvWith, WindowInv
  <2>2. d = [c EXCEPT !.acks = acks, !.scheduled = scheduled]
    BY <1>3, Zenon DEF NotePrepareAck
  <2>3. /\ toCommit \in ScheduledActions /\ toCommit.episode = c.episode
        /\ toCommit.action = "commit_online_rejoin"
    <3>1. time + DecisionDelay \in Nat /\ c.episode \in Nat
      BY <1>1, <2>1, Timing, FieldTypes
    <3> QED
      BY <3>1 DEF At, ScheduledActions, Actions
  <2> HIDE DEF toCommit
  <2>4. \/ scheduled = c.scheduled
        \/ /\ scheduled = c.scheduled \cup {toCommit}
           /\ c.pending.members \subseteq acks
           /\ \A item \in c.scheduled : \/ item.action # "commit_online_rejoin"
                                       \/ item.episode # c.episode
    BY <2>3 DEF AllAcked, FutureMembers
  <2> HIDE DEF scheduled
  <2>5. IsFiniteSet(scheduled) /\ scheduled \in SUBSET ScheduledActions
    <3>1. IsFiniteSet(c.scheduled) /\ c.scheduled \in SUBSET ScheduledActions
      BY DEF ControlPlaneInv, InvWith, ItemsInv
    <3>2. IsFiniteSet(c.scheduled \cup {toCommit})
      BY <3>1, FS_AddElement
    <3> QED
      BY <2>3, <2>4, <3>1, <3>2
  <2>6. acks \in SUBSET Node
    BY <1>1, FieldTypes
  <2> HIDE DEF acks
  <2>7. d \in ControlPlaneStates
    BY <1>1, <2>2, <2>5, <2>6, Zenon DEF ControlPlaneStates
  <2>8. /\ d.acks = acks /\ d.scheduled = scheduled
        /\ d.config = c.config /\ d.pending = c.pending /\ d.states = c.states
        /\ d.repair = c.repair /\ d.collecting = c.collecting /\ d.targets = c.targets
        /\ d.queued = c.queued /\ d.deadline = c.deadline /\ d.nextEpisode = c.nextEpisode
        /\ d.episode = c.episode /\ d.members = c.members /\ d.prepareRound = c.prepareRound
    BY <1>1, <2>2 DEF ControlPlaneStates
  <2>9. WindowInv(d) /\ StatesInv(d) /\ PendingInv(d)
    <3>1. WindowInv(c) /\ StatesInv(c) /\ PendingInv(c)
      BY DEF ControlPlaneInv, InvWith
    <3> QED
      BY <2>1, <2>8, <3>1 DEF WindowInv, StatesInv, PendingInv, EpisodeActive
  <2>10. ItemsInv(d, d.scheduled)
    <3>1. ItemsInv(c, c.scheduled) /\ c.episode < c.nextEpisode
      BY <2>1 DEF ControlPlaneInv, InvWith, WindowInv
    <3>2. c.acks \subseteq acks
      BY DEF acks
    <3> QED
      BY <2>1, <2>3, <2>4, <2>5, <2>8, <3>1, <3>2 DEF ItemsInv
  <2> QED
    BY <2>7, <2>8, <2>9, <2>10 DEF ControlPlaneInv, InvWith, acks
<1> QED
  BY <1>2, <1>3

(* Who has stopped is failed, and collected or queued. *)
LEMMA InterruptionKeeps ==
  ASSUME NEW c, ControlPlaneInv(c), NEW n \in Node, NEW time \in Nat,
         NEW d, d = NoteInterruption(c, n, time)
  PROVE  /\ ControlPlaneInv(d)
         /\ d.config = c.config /\ d.pending = c.pending /\ d.repair = c.repair
         /\ d.acks = c.acks
         /\ \A m \in Node : d.states[m] = (IF m = n THEN "FAILED" ELSE c.states[m])
<1> DEFINE states == [c.states EXCEPT ![n] = "FAILED"]
           failed == MarkFailed(c, n)
           collecting == c.collecting \cup {n}
           queued == c.queued \cup {n}
<1>1. c \in ControlPlaneStates
  BY DEF ControlPlaneInv, InvWith
<1>2. /\ states \in [Node -> MembershipStates]
      /\ \A m \in Node : states[m] = (IF m = n THEN "FAILED" ELSE c.states[m])
  BY <1>1, FieldTypes DEF MembershipStates
<1>3. failed = [c EXCEPT !.states = states]
  BY <1>1 DEF MarkFailed
<1> HIDE DEF states, failed
<1>4. failed \in ControlPlaneStates
  BY <1>1, <1>2, <1>3, Zenon DEF ControlPlaneStates
<1>5. /\ failed.states = states
      /\ failed.config = c.config /\ failed.pending = c.pending
      /\ failed.repair = c.repair /\ failed.scheduled = c.scheduled
      /\ failed.collecting = c.collecting /\ failed.targets = c.targets
      /\ failed.queued = c.queued /\ failed.deadline = c.deadline
      /\ failed.nextEpisode = c.nextEpisode /\ failed.episode = c.episode
      /\ failed.members = c.members
      /\ failed.prepareRound = c.prepareRound /\ failed.acks = c.acks
  BY <1>1, <1>3 DEF ControlPlaneStates
<1>6. collecting \in SUBSET Node /\ queued \in SUBSET Node
  BY <1>1, FieldTypes
<1>7. WindowInv(c) /\ StatesInv(c) /\ PendingInv(c) /\ ItemsInv(c, c.scheduled)
  BY DEF ControlPlaneInv, InvWith
<1>8. CASE c.deadline # None /\ time <= c.deadline /\ c.targets = {}
  <2>1. d = [failed EXCEPT !.collecting = collecting]
    BY <1>5, <1>8 DEF NoteInterruption, failed
  <2>2. d \in ControlPlaneStates
    <3> HIDE DEF collecting
    <3> QED
      BY <1>4, <1>6, <2>1, Zenon DEF ControlPlaneStates
  <2>3. /\ d.states = states /\ d.collecting = collecting
        /\ d.config = c.config /\ d.pending = c.pending
        /\ d.repair = c.repair /\ d.scheduled = c.scheduled
        /\ d.targets = c.targets /\ d.queued = c.queued /\ d.deadline = c.deadline
        /\ d.nextEpisode = c.nextEpisode /\ d.episode = c.episode
        /\ d.members = c.members
        /\ d.prepareRound = c.prepareRound /\ d.acks = c.acks
    BY <1>4, <1>5, <2>1 DEF ControlPlaneStates
  <2>4. WindowInv(d)
    BY <1>7, <1>8, <2>3 DEF WindowInv, EpisodeActive
  <2>5. StatesInv(d)
    BY <1>2, <1>7, <2>3 DEF StatesInv
  <2>6. PendingInv(d) /\ ItemsInv(d, d.scheduled)
    BY <1>7, <2>3 DEF PendingInv, ItemsInv
  <2> QED
    BY <1>2, <2>2, <2>3, <2>4, <2>5, <2>6 DEF ControlPlaneInv, InvWith
<1>9. CASE ~(c.deadline # None /\ time <= c.deadline /\ c.targets = {})
  <2> DEFINE e == Enqueue(failed, n)
  <2>1. e = [failed EXCEPT !.queued = queued]
    BY <1>4, <1>5 DEF Enqueue, ControlPlaneStates
  <2>2. d = BeginWindow(e, time)
    BY <1>9 DEF NoteInterruption, failed
  <2> HIDE DEF e
  <2>3. e \in ControlPlaneStates
    <3> HIDE DEF queued
    <3> QED
      BY <1>4, <1>6, <2>1, Zenon DEF ControlPlaneStates
  <2>4. /\ e.states = states /\ e.queued = queued
        /\ e.config = c.config /\ e.pending = c.pending
        /\ e.repair = c.repair /\ e.scheduled = c.scheduled
        /\ e.targets = c.targets /\ e.collecting = c.collecting /\ e.deadline = c.deadline
        /\ e.nextEpisode = c.nextEpisode /\ e.episode = c.episode
        /\ e.members = c.members
        /\ e.prepareRound = c.prepareRound /\ e.acks = c.acks
    BY <1>4, <1>5, <2>1 DEF ControlPlaneStates
  <2>5. WindowInv(e)
    BY <1>7, <2>4 DEF WindowInv, EpisodeActive
  <2>6. StatesInv(e)
    BY <1>2, <1>7, <2>4 DEF StatesInv
  <2>7. PendingInv(e) /\ ItemsInv(e, e.scheduled)
    BY <1>7, <2>4 DEF PendingInv, ItemsInv
  <2>8. InvWith(e, e.scheduled)
    BY <2>3, <2>5, <2>6, <2>7 DEF InvWith
  <2>9. InvWith(d, e.scheduled) /\ d.scheduled = e.scheduled
    BY <2>2, <2>8, BeginWindowKeeps
  <2>10. /\ d.config = e.config /\ d.pending = e.pending /\ d.repair = e.repair
         /\ d.acks = e.acks /\ d.states = e.states
    BY <2>2, <2>3, BeginWindowIs
  <2> QED
    BY <1>2, <2>4, <2>9, <2>10 DEF ControlPlaneInv
<1> QED
  BY <1>8, <1>9

(* It starts with everybody active. *)
LEMMA InitialControlPlaneIsGood ==
  ASSUME NEW delay \in Nat
  PROVE  ControlPlaneInv(InitialControlPlane(delay))
<1> DEFINE c == InitialControlPlane(delay)
           states == [n \in Node |-> "ACTIVE"]
           repair == [n \in Node |-> <<>>]
<1>1. InitialConfig \in Configs /\ NoPending \in Pendings
  BY NoPendingType DEF InitialConfig, Configs
<1>2. states \in [Node -> MembershipStates] /\ repair \in [Node -> Seq(Entries)]
  BY DEF MembershipStates
<1>3. c \in ControlPlaneStates
  <2> HIDE DEF states, repair
  <2> QED
    BY <1>1, <1>2 DEF InitialControlPlane, ControlPlaneStates, states, repair, None
<1>4. WindowInv(c)
  BY DEF InitialControlPlane, WindowInv, NoPending
<1>5. StatesInv(c) /\ PendingInv(c)
  BY DEF InitialControlPlane, StatesInv, PendingInv, NoPending, InitialConfig
<1>6. ItemsInv(c, c.scheduled)
  BY FS_EmptySet DEF InitialControlPlane, ItemsInv
<1> QED
  BY <1>3, <1>4, <1>5, <1>6 DEF ControlPlaneInv, InvWith

-----------------------------------------------------------------------------
(* Before the first episode. *)

\* Nodes have stopped at most, and no window can close before it was open for its time.
BeforeFirstEpisode(c) ==
  /\ c.scheduled = {} /\ c.episode = None /\ c.targets = {} /\ c.pending.status = "NONE"
  /\ c.collecting = {} => c.queued = {}
  /\ c.deadline # None => c.deadline >= HaltReportDelay + CollectionDelay
  /\ \A n \in Node : c.states[n] \in {"ACTIVE", "FAILED"} /\ c.repair[n] = <<>>

(* With no window to close and nothing due, time changes nothing. *)
LEMMA NothingIsDue ==
  ASSUME NEW c \in ControlPlaneStates, BeforeFirstEpisode(c),
         NEW time \in Nat, time < HaltReportDelay + CollectionDelay, NEW round, NEW history
  PROVE  ControlState(AdvanceToTime(c, time, history), round, history) = c
<1>1. BeginWindow(c, time) = c
  BY DEF BeforeFirstEpisode, BeginWindow
<1>2. c.deadline \in Nat \cup {None} /\ HaltReportDelay \in Nat /\ CollectionDelay \in Nat
  BY FieldTypes, Timing
<1>3. c.deadline = None \/ time < c.deadline
  BY <1>2 DEF BeforeFirstEpisode, None
<1>4. Window(c, time) = c
  BY <1>1, <1>3 DEF Window, CloseWindowIfDue
<1>5. \A items : [c EXCEPT !.scheduled = @ \ items] = c
  BY DEF BeforeFirstEpisode, ControlPlaneStates
<1>6. ApplyActions(c, {}) = c
  <2>1. IsFiniteSet({}) /\ Cardinality({}) = 0
    BY FS_EmptySet
  <2>2. PICK g : Looped(c, {}, g, 0) /\ ApplyActions(c, {}) = g[0].state
    BY <2>1, LoopEnds
  <2> QED
    BY <2>2 DEF Looped
<1>7. RebuildRepairLogs(c, history) = c
  <2>1. RepairTargets(c) = {}
    BY DEF RepairTargets, BeforeFirstEpisode
  <2>2. RebuildRepairLogs(c, history) = [c EXCEPT !.repair = [n \in Node |-> <<>>]]
    BY <2>1 DEF RebuildRepairLogs
  <2>3. c.repair = [n \in Node |-> <<>>]
    BY FieldTypes DEF BeforeFirstEpisode
  <2> QED
    BY <2>2, <2>3 DEF ControlPlaneStates
<1>8. AdvanceToTime(c, time, history) = c
  <2>1. {item \in c.scheduled : item.at <= time} = {}
    BY DEF BeforeFirstEpisode
  <2>2. AdvanceToTime(c, time, history)
          = RebuildRepairLogs(Window(ApplyActions(c, {}), time), history)
    BY <1>4, <1>5, <2>1, Zenon DEF AdvanceToTime
  <2> QED
    BY <1>4, <1>6, <1>7, <2>2
<1>9. ActivateCutoverIfDue(c, round) = c
  BY DEF ActivateCutoverIfDue, CutoverIsDue, BeforeFirstEpisode
<1> QED
  BY <1>7, <1>8, <1>9 DEF ControlState

(* A stop opens a window or joins it. *)
LEMMA StopBeforeFirstEpisode ==
  ASSUME NEW c, ControlPlaneInv(c), BeforeFirstEpisode(c), NEW n \in Node,
         NEW time \in Nat, time >= HaltReportDelay, NEW d, d = NoteInterruption(c, n, time)
  PROVE  BeforeFirstEpisode(d)
<1> DEFINE states == [c.states EXCEPT ![n] = "FAILED"]
           failed == MarkFailed(c, n)
<1>1. c \in ControlPlaneStates /\ WindowInv(c)
  BY DEF ControlPlaneInv, InvWith
<1>2. /\ \A m \in Node : states[m] \in {"ACTIVE", "FAILED"}
      /\ failed = [c EXCEPT !.states = states]
  BY <1>1, FieldTypes DEF MarkFailed, BeforeFirstEpisode
<1> HIDE DEF states, failed
<1>3. BeforeFirstEpisode(failed) /\ ~EpisodeActive(failed)
  BY <1>1, <1>2 DEF BeforeFirstEpisode, EpisodeActive, ControlPlaneStates
<1>4. CASE c.deadline # None /\ time <= c.deadline /\ c.targets = {}
  <2>1. d = [failed EXCEPT !.collecting = @ \cup {n}]
    BY <1>4 DEF NoteInterruption, failed
  <2> QED
    BY <1>1, <1>2, <1>3, <2>1 DEF BeforeFirstEpisode, ControlPlaneStates
<1>5. CASE ~(c.deadline # None /\ time <= c.deadline /\ c.targets = {})
  <2> DEFINE queueing == Enqueue(failed, n)
  <2>1. d = BeginWindow(queueing, time)
    BY <1>5 DEF NoteInterruption, failed
  <2>2. /\ queueing = [failed EXCEPT !.queued = @ \cup {n}]
    BY DEF Enqueue
  <2> HIDE DEF queueing
  <2>3. /\ queueing.collecting = failed.collecting /\ queueing.deadline = failed.deadline
        /\ queueing.scheduled = {} /\ queueing.episode = None /\ queueing.targets = {}
        /\ queueing.pending.status = "NONE" /\ queueing.queued # {}
        /\ \A m \in Node : /\ queueing.states[m] \in {"ACTIVE", "FAILED"}
                           /\ queueing.repair[m] = <<>>
        /\ DOMAIN queueing = DOMAIN c
    BY <1>1, <1>2, <1>3, <2>2 DEF BeforeFirstEpisode, ControlPlaneStates
  <2>4. CASE queueing.collecting # {}
    BY <1>3, <2>1, <2>3, <2>4 DEF BeginWindow, BeforeFirstEpisode
  <2>5. CASE queueing.collecting = {}
    <3>1. d = [queueing EXCEPT !.collecting = queueing.queued, !.queued = {},
                               !.deadline = time + CollectionDelay]
      BY <2>1, <2>3, <2>5 DEF BeginWindow, EpisodeActive
    <3>2. time + CollectionDelay >= HaltReportDelay + CollectionDelay
      BY Timing
    <3> QED
      BY <1>1, <1>2, <2>2, <2>3, <3>1, <3>2 DEF BeforeFirstEpisode, ControlPlaneStates
  <2> QED
    BY <2>4, <2>5
<1> QED
  BY <1>4, <1>5

(* At the start nobody has stopped. *)
LEMMA InitialBeforeFirstEpisode ==
  ASSUME NEW delay
  PROVE  BeforeFirstEpisode(InitialControlPlane(delay))
  BY DEF BeforeFirstEpisode, InitialControlPlane, NoPending
=============================================================================
