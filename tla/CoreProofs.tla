----------------------------- MODULE CoreProofs -----------------------------
(***************************************************************************)
(* Proofs about Core, for any cluster, any geometry of rounds, any number  *)
(* of register writes and any number of clock faults.                      *)
(*                                                                         *)
(* That the core judges as the simulator does is not inductive: it needs   *)
(* that nobody outside the sound set has a row in the previous stage,      *)
(* which only holds while the core runs, because a reboot empties the      *)
(* sound set and leaves the stages alone.  Every way into S_RUN clears the *)
(* rows, and what the asynchronous transitions touch leaves S_RUN.         *)
(***************************************************************************)
EXTENDS Core, TLAPS

\* The fields of the records TypeOK speaks of.
CurrentStages == [valid : BOOLEAN, round : RoundIds, proposals : SUBSET Node]

PreviousStages == [valid : BOOLEAN, round : RoundIds, proposals : SUBSET Node,
                   rows : [Node -> SUBSET Node]]

Sends == [round : RoundIds, run : Run \cup {0}, row : SUBSET Node]

Commits == [round : RoundIds \cup {-1}, set : SUBSET Node]

Halts == [reason : Reasons, round : RoundIds]

CoreRecords ==
  [state : States, run : Run \cup {0}, installed : SUBSET Node, sound : SUBSET Node,
   current : CurrentStages, previous : PreviousStages,
   tx : Sends, commit : Commits, halt : Halts, excluded : BOOLEAN]

\* The registers hold a round of the second they know.
Aligned ==
  \E k \in 0 .. RoundsPerSecond - 1 :
    /\ roundBase = k * RoundLength
    /\ roundId = prevSec * RoundsPerSecond + k

\* What bounds the count of rounds is that it restarts with every second.
TimeInv == TimingTypeOK /\ ((armed \/ roundStart) => Aligned)

RecordInv == config \in Configs /\ core \in CoreRecords

SoftwareInv ==
  /\ asked \in Configs
  /\ pending \in BOOLEAN /\ ack \in BOOLEAN
  /\ writes \in 0 .. MaxWrite

RememberedInv ==
  /\ activatedAt \in RoundIds
  /\ lastCommit \in RoundIds \cup {-1}
  /\ missed \in BOOLEAN

\* While the core runs, only the sound set has left evidence behind.
SoundEvidence(c) ==
  c.state = "RUN" =>
    /\ Self \in c.sound
    /\ c.sound \subseteq c.installed
    /\ \A m \in Node \ c.sound : c.previous.rows[m] = {}

EvidenceInv == SoundEvidence(core)

\* What is armed is what software armed.
AskedInv == pending => asked = config

IInv ==
  /\ TimeInv /\ RecordInv /\ SoftwareInv /\ RememberedInv
  /\ EvidenceInv /\ AskedInv

-----------------------------------------------------------------------------
(* Arithmetic. *)

\* A quotient and a remainder are unique, and what lies outside the range of a
\* remainder belongs to another quotient.
LEMMA Quotients ==
  ASSUME NEW L \in Nat \ {0}, NEW a \in Int, NEW b \in Int,
         NEW r \in 0 .. L - 1, NEW s \in Int,
         a * L + r = b * L + s
  PROVE  /\ s \in 0 .. L - 1 => a = b /\ r = s
         /\ s = L => a = b + 1 /\ r = 0
         /\ s < 0 => a < b
<1>1. (a - b) * L = s - r
  OBVIOUS
<1>2. a - b >= 1 => (a - b) * L >= L
  OBVIOUS
<1>3. a - b <= -1 => (a - b) * L <= -L
  OBVIOUS
<1>4. a - b >= 2 => (a - b) * L >= 2 * L
  OBVIOUS
<1>5. a = b => (a - b) * L = 0
  OBVIOUS
<1>6. a = b + 1 => (a - b) * L = L
  OBVIOUS
<1> QED
  BY <1>1, <1>2, <1>3, <1>4, <1>5, <1>6

\* Division, in the form the other steps use it.
LEMMA Division ==
  ASSUME NEW L \in Nat \ {0}, NEW t \in Int
  PROVE  /\ t \div L \in Int
         /\ t % L \in 0 .. L - 1
         /\ t = (t \div L) * L + (t % L)
OBVIOUS

\* The multiple of the length at or before a moment.
LEMMA Quotient ==
  ASSUME NEW L \in Nat \ {0}, NEW n \in Nat
  PROVE  /\ n \div L \in Nat
         /\ (n \div L) * L <= n /\ n < (n \div L) * L + L
<1>1. /\ n \div L \in Int /\ n % L \in 0 .. L - 1
      /\ n = (n \div L) * L + (n % L)
  BY Division
<1>2. n \div L \in Nat
  OBVIOUS
<1> QED
  BY <1>1, <1>2

\* The rounds of a second: the multiples of the length below the second's end.
LEMMA RoundsOfSecond ==
  ASSUME NEW k \in Nat, NEW L \in Nat \ {0}, NEW R \in Nat \ {0}
  PROVE  /\ k * L < R * L => k \in 0 .. R - 1
         /\ k \in 0 .. R - 1 => k * L + L <= R * L
         /\ k \in 0 .. R - 1 /\ k * L + L >= R * L => k = R - 1
<1>1. k >= R => k * L >= R * L
  OBVIOUS
<1>2. k + 1 <= R => (k + 1) * L <= R * L
  OBVIOUS
<1>3. k + 2 <= R => (k + 2) * L <= R * L
  OBVIOUS
<1>4. (k + 1) * L = k * L + L /\ (k + 2) * L = k * L + 2 * L
  OBVIOUS
<1> QED
  BY <1>1, <1>2, <1>3, <1>4

-----------------------------------------------------------------------------
(* Time. *)

\* The rounds there are; round 0 is one of them.
LEMMA RoundIdsType == RoundIds \subseteq Nat /\ 0 \in RoundIds
<1>1. (MaxSecond + 2) * RoundsPerSecond \in Nat
  BY CoreTimingAssumption
<1> QED
  BY <1>1 DEF RoundIds

\* The rounds of a second that time reaches, and the first of the next one.
LEMMA RoundsOfTime ==
  ASSUME NEW s \in Seconds, NEW k \in 0 .. RoundsPerSecond
  PROVE  s * RoundsPerSecond + k \in RoundIds
<1>1. /\ RoundsPerSecond \in Nat \ {0} /\ MaxSecond \in Nat
      /\ s \in Nat /\ s <= MaxSecond
  BY CoreTimingAssumption DEF Seconds
<1>2. /\ s * RoundsPerSecond \in Nat
      /\ s * RoundsPerSecond <= MaxSecond * RoundsPerSecond
  BY <1>1
<1>3. (MaxSecond + 2) * RoundsPerSecond = MaxSecond * RoundsPerSecond + 2 * RoundsPerSecond
  BY <1>1
<1>4. MaxSecond * RoundsPerSecond \in Nat
  BY <1>1
<1> QED
  BY <1>1, <1>2, <1>3, <1>4 DEF RoundIds

\* The numbers of the clock and of the round registers.
LEMMA TimeTypes ==
  ASSUME TimeInv
  PROVE  /\ sec \in Nat /\ ns \in Nat /\ prevSec \in Nat
         /\ roundId \in Nat /\ roundId \in RoundIds
         /\ ns < SecondLength
BY RoundIdsType, CoreTimingAssumption
   DEF TimeInv, TimingTypeOK, Seconds, Offsets, SecondLength

\* The clock stays within its bounds.
LEMMA ClockTypes ==
  ASSUME TimeInv, PtpClock
  PROVE  /\ sec' \in Seconds /\ ns' \in Offsets
         /\ step' \in BOOLEAN /\ valid' \in BOOLEAN
         /\ faults' \in 0 .. MaxFault
<1>1. SecondLength \in Nat \ {0}
  BY CoreTimingAssumption DEF SecondLength
<1>2. ASSUME NEW d \in Int, MovesBy(d) PROVE sec' \in Seconds /\ ns' \in Offsets
  <2>1. sec * SecondLength \in Int /\ ns \in Int
    BY <1>1, TimeTypes
  <2>2. sec * SecondLength + ns + d \in Int
    BY <2>1
  <2> QED
    BY <1>1, <1>2, <2>2, Division DEF MovesBy, Offsets
<1>3. sec' \in Seconds /\ ns' \in Offsets
  BY <1>2, CoreTimingAssumption
     DEF PtpClock, GoodTime, SteppedTime, BackwardTime, LostLock
<1>4. faults \in 0 .. MaxFault
  BY DEF TimeInv, TimingTypeOK
<1>5. faults' \in 0 .. MaxFault
  BY <1>4, CoreTimingAssumption
     DEF PtpClock, GoodTime, SteppedTime, BackwardTime, LostLock
<1>6. step' \in BOOLEAN /\ valid' \in BOOLEAN
  BY Zenon DEF PtpClock, GoodTime, SteppedTime, BackwardTime, LostLock
<1> QED
  BY <1>3, <1>5, <1>6

\* An armed core counts rounds of the second it knows, so that the count is bounded
\* by time; a rollover seen before arming starts from the first.
LEMMA RoundsKeep ==
  ASSUME TimeInv, Rounds
  PROVE  /\ roundId' \in RoundIds /\ roundBase' \in Offsets
         /\ prevSec' \in Seconds
         /\ armed' \in BOOLEAN /\ roundStart' \in BOOLEAN
         /\ (armed' \/ roundStart') => Aligned'
<1>1. /\ RoundLength \in Nat \ {0} /\ RoundsPerSecond \in Nat \ {0}
      /\ SecondLength = RoundsPerSecond * RoundLength
      /\ SecondLength \in Nat \ {0}
      /\ Offsets = 0 .. SecondLength - 1
      /\ sec \in Nat /\ ns \in Nat /\ prevSec \in Nat /\ roundId \in Nat
      /\ ns < SecondLength
  BY TimeTypes, CoreTimingAssumption DEF SecondLength, Offsets
<1>2. /\ sec \in Seconds /\ prevSec \in Seconds
      /\ roundId \in RoundIds /\ roundBase \in Offsets
      /\ armed \in BOOLEAN /\ roundStart \in BOOLEAN /\ ((armed \/ roundStart) => Aligned)
      /\ prevSec' = sec
  BY DEF TimeInv, TimingTypeOK, Rounds
<1> HIDE DEF SecondLength, Offsets
<1>3. ASSUME NEW k \in 0 .. RoundsPerSecond - 1,
             roundBase' = k * RoundLength,
             roundId' = sec * RoundsPerSecond + k,
             armed' \in BOOLEAN, roundStart' = TRUE \/ roundStart' = FALSE
      PROVE  /\ roundId' \in RoundIds /\ roundBase' \in Offsets
             /\ prevSec' \in Seconds
             /\ armed' \in BOOLEAN /\ roundStart' \in BOOLEAN
             /\ (armed' \/ roundStart') => Aligned'
  <2>1. k * RoundLength \in Nat /\ k * RoundLength + RoundLength <= SecondLength
    BY <1>1, RoundsOfSecond
  <2>2. roundBase' \in Offsets
    BY <1>1, <1>3, <2>1
  <2>3. roundId' \in RoundIds
    <3>1. k \in 0 .. RoundsPerSecond
      BY <1>1
    <3> QED
      BY <1>2, <1>3, <3>1, RoundsOfTime
  <2>4. Aligned'
    BY <1>2, <1>3 DEF Aligned
  <2> QED
    BY <1>2, <1>3, <2>2, <2>3, <2>4
<1>4. CASE Disarm
  <2>1. 0 \in Offsets /\ 0 \in RoundIds
    BY <1>1, RoundIdsType
  <2>2. armed' = FALSE /\ roundId' = 0 /\ roundBase' = 0 /\ roundStart' = FALSE
    BY <1>4 DEF Disarm
  <2> QED
    BY <1>2, <2>1, <2>2, Zenon
<1>5. CASE LetGo
  BY <1>2, <1>5 DEF LetGo
<1>6. CASE Arm
  <2> DEFINE k == ns \div RoundLength
  <2>1. /\ sec = prevSec
        /\ roundId' = prevSec * RoundsPerSecond + k
        /\ roundBase' = k * RoundLength
        /\ armed' = TRUE /\ roundStart' = FALSE
    BY <1>6 DEF Arm, SecondChanged, RoundAt
  <2>2. k \in Nat /\ k * RoundLength <= ns /\ ns < k * RoundLength + RoundLength
    BY <1>1, Quotient
  <2> HIDE DEF k
  <2>3. k \in 0 .. RoundsPerSecond - 1
    BY <1>1, <2>2, RoundsOfSecond
  <2> QED
    BY <1>3, <2>1, <2>3
<1>7. CASE Rollover
  <2>1. /\ sec = prevSec + 1
        /\ roundId' = (prevSec + 1) * RoundsPerSecond
        /\ roundBase' = 0
        /\ armed' = armed /\ roundStart' = TRUE
    BY <1>7 DEF Rollover, SecondAdvanced
  <2>2. 0 \in 0 .. RoundsPerSecond - 1 /\ 0 * RoundLength = 0
    BY <1>1
  <2>3. roundId' = sec * RoundsPerSecond + 0
    BY <1>1, <2>1
  <2> QED
    BY <1>2, <1>3, <2>1, <2>2, <2>3
<1>8. CASE Advance
  <2>1. /\ sec = prevSec /\ armed /\ armed' = armed /\ roundStart' = TRUE
        /\ ns >= roundBase + RoundLength
        /\ roundId' = roundId + 1 /\ roundBase' = roundBase + RoundLength
    BY <1>8 DEF Advance, BoundaryHit, SecondChanged
  <2>2. PICK k \in 0 .. RoundsPerSecond - 1 :
          /\ roundBase = k * RoundLength
          /\ roundId = prevSec * RoundsPerSecond + k
    BY <1>2, <2>1 DEF Aligned
  <2>3. (k + 1) * RoundLength = roundBase + RoundLength
    BY <1>1, <2>2
  <2>4. k + 1 \in 0 .. RoundsPerSecond - 1
    BY <1>1, <2>1, <2>2, <2>3, RoundsOfSecond
  <2>5. sec * RoundsPerSecond \in Nat
    BY <1>1
  <2>6. roundId' = sec * RoundsPerSecond + (k + 1)
    BY <1>1, <2>1, <2>2, <2>5
  <2> QED
    BY <1>2, <1>3, <2>1, <2>3, <2>4, <2>6
<1>9. CASE InRound
  <2>1. /\ sec = prevSec /\ armed
        /\ armed' = armed /\ roundStart' = FALSE
        /\ roundId' = roundId /\ roundBase' = roundBase
    BY <1>9 DEF InRound, SecondChanged
  <2> QED
    BY <1>2, <2>1 DEF Aligned
<1> QED
  BY <1>4, <1>5, <1>6, <1>7, <1>8, <1>9 DEF Rounds

-----------------------------------------------------------------------------
(* Control registers. *)

\* What software configures is a run, if any, of members among the nodes.
LEMMA ConfigTypes ==
  ASSUME NEW c \in Configs
  PROVE  c.run \in Run \cup {0} /\ c.members \subseteq Node
BY CoreAssumption DEF Configs

\* A register write leaves a configuration.
LEMMA RewrittenType ==
  ASSUME IInv, NEW w \in Writes \cup {NoWrite}
  PROVE  Rewritten(w) \in Configs
<1>1. config \in Configs
  BY DEF IInv, RecordInv
<1>2. CASE w \in [reg : {"run"}, value : Run]
  BY <1>1, <1>2 DEF Rewritten, Configs
<1>3. CASE w \in [reg : {"membership"}, value : Membership]
  BY <1>1, <1>3 DEF Rewritten, Configs
<1>4. CASE w \in [reg : {"effective_low", "effective_high"}, value : Halves]
  BY <1>1, <1>4 DEF Rewritten, Configs
<1>5. CASE w.reg \in {"control", "none"}
  BY <1>1, <1>5 DEF Rewritten
<1> QED
  BY <1>2, <1>3, <1>4, <1>5 DEF Writes, NoWrite

\* The registers of software keep their types, no write changes what is armed, and
\* every write is counted.
LEMMA RegisterStep ==
  ASSUME IInv, NEW w \in Writes \cup {NoWrite}, Registers(w)
  PROVE  /\ config' \in Configs
         /\ SoftwareInv'
         /\ enable' \in BOOLEAN
         /\ AskedInv'
<1>1. Staged(w) \in Configs
  BY RewrittenType DEF Staged, IInv, RecordInv
<1>2. /\ w.reg = "control" => w.enable \in BOOLEAN /\ w.activate \in BOOLEAN
                              /\ w.reboot \in BOOLEAN
      /\ enable \in BOOLEAN /\ pending \in BOOLEAN
      /\ asked \in Configs /\ config \in Configs
      /\ writes \in 0 .. MaxWrite
  BY DEF Writes, NoWrite, IInv, TimeInv, TimingTypeOK, SoftwareInv, RecordInv
<1>3. SoftwareInv'
  <2>1. pending' \in BOOLEAN
    BY <1>2 DEF Registers, PendingAfter
  <2>2. asked' \in Configs
    <3>1. ResetConfig \in Configs
      BY CoreAssumption DEF ResetConfig, Configs, Halves
    <3> QED
      BY <1>2, <3>1 DEF Registers
  <2>3. writes' \in 0 .. MaxWrite
    BY <1>2, CoreAssumption DEF Registers
  <2>4. ack' \in BOOLEAN
    BY DEF Registers
  <2> QED
    BY <2>1, <2>2, <2>3, <2>4 DEF SoftwareInv
<1>4. enable' \in BOOLEAN
  BY <1>2 DEF Registers
<1>5. AskedInv'
  <2> SUFFICES ASSUME pending' PROVE asked' = config'
    BY DEF AskedInv
  <2>1. CASE w.reg = "control" /\ w.activate
    <3>1. asked' = config
      BY <2>1 DEF Registers
    <3>2. config' = config
      BY <2>1 DEF Registers, Staged, Rewritten
    <3> QED
      BY <3>1, <3>2
  <2>2. CASE ~(w.reg = "control" /\ w.activate)
    <3>1. pending
      BY <2>2 DEF Registers, PendingAfter
    <3>2. asked' = asked
      BY <2>2 DEF Registers
    <3>3. config' = config
      BY <3>1 DEF Registers, Staged
    <3> QED
      BY <3>1, <3>2, <3>3 DEF IInv, AskedInv
  <2> QED
    BY <2>1, <2>2
<1> QED
  BY <1>1, <1>3, <1>4, <1>5 DEF Registers

-----------------------------------------------------------------------------
(* The registers of section 3. *)

\* No commit is a commit of round -1.
LEMMA NoCommitType == NoCommit \in Commits
BY DEF NoCommit, Commits

\* The asynchronous transitions keep the record's type, and a core that runs
\* afterwards has not met any of them.
LEMMA Settled ==
  ASSUME TimeInv, NEW c \in CoreRecords, NEW w, Settle(c, w)
  PROVE  /\ core' \in CoreRecords
         /\ core'.state = "RUN" => core' = c
<1> DEFINE lost == AfterTimingLoss(c)
           stopped == AfterStop(lost, w)
<1>1. lost \in CoreRecords /\ (lost.state = "RUN" => lost = c)
  <2>1. CASE TimingLost /\ core.state = "RUN"
    <3>1. [reason |-> "time_fault", round |-> roundId] \in Halts
      BY TimeTypes DEF Halts, Reasons
    <3> QED
      BY <2>1, <3>1 DEF AfterTimingLoss, CoreRecords, States
  <2>2. CASE ~(TimingLost /\ core.state = "RUN")
    BY <2>2 DEF AfterTimingLoss
  <2> QED
    BY <2>1, <2>2
<1> HIDE DEF lost
<1>2. stopped \in CoreRecords /\ (Stops(w) => stopped.state = "IDLE")
                              /\ (~Stops(w) => stopped = lost)
  <2>1. CASE Stops(w)
    <3>1. [lost.current EXCEPT !.valid = FALSE] \in CurrentStages
      BY <1>1 DEF CoreRecords, CurrentStages
    <3>2. [lost.previous EXCEPT !.valid = FALSE] \in PreviousStages
      BY <1>1 DEF CoreRecords, PreviousStages
    <3>3. [lost.tx EXCEPT !.row = {}] \in Sends
      BY <1>1 DEF CoreRecords, Sends
    <3>4. NoCommit \in Commits
      BY NoCommitType
    <3>5. stopped = [lost EXCEPT !.state = "IDLE",
                       !.current = [lost.current EXCEPT !.valid = FALSE],
                       !.previous = [lost.previous EXCEPT !.valid = FALSE],
                       !.tx = [lost.tx EXCEPT !.row = {}], !.commit = NoCommit]
      BY <1>1, <2>1 DEF AfterStop, CoreRecords
    <3> HIDE DEF stopped
    <3> QED
      BY <1>1, <2>1, <3>1, <3>2, <3>3, <3>4, <3>5 DEF CoreRecords, States
  <2>2. CASE ~Stops(w)
    BY <1>1, <2>2 DEF AfterStop
  <2> QED
    BY <2>1, <2>2
<1>3. core' = AfterReboot(stopped, w)
  BY DEF Settle, lost
<1> HIDE DEF stopped
<1>4. CASE Reboots(w)
  <2>1. Stops(w)
    BY <1>4 DEF Stops
  <2>2. [stopped.halt EXCEPT !.reason = "none"] \in Halts
    BY <1>2 DEF CoreRecords, Halts, Reasons
  <2>3. core' = [stopped EXCEPT !.halt = [stopped.halt EXCEPT !.reason = "none"],
                   !.excluded = FALSE, !.run = 0, !.sound = {}, !.installed = {}]
    BY <1>2, <1>3, <1>4 DEF AfterReboot, CoreRecords
  <2>4. core' \in CoreRecords /\ core'.state = stopped.state
    BY <1>2, <2>2, <2>3 DEF CoreRecords
  <2> QED
    BY <1>2, <2>1, <2>4
<1>5. CASE ~Reboots(w)
  <2>1. core' = stopped
    BY <1>3, <1>5 DEF AfterReboot
  <2> QED
    BY <1>1, <1>2, <2>1
<1> QED
  BY <1>4, <1>5

\* Nobody outside the sound set gets a packet into the stages.
LEMMA ReceivedKeeps ==
  ASSUME IInv, NEW p \in Acceptable \cup {NoPacket}
  PROVE  /\ Received(p) \in CoreRecords
         /\ SoundEvidence(Received(p))
<1>1. NoCommit \in Commits
  BY NoCommitType
<1>2. core \in CoreRecords
  BY DEF IInv, RecordInv
<1>3. CASE p = NoPacket
  <2>1. Received(p) = [core EXCEPT !.commit = NoCommit]
    BY <1>3 DEF Received
  <2> QED
    BY <1>1, <1>2, <2>1 DEF IInv, EvidenceInv, SoundEvidence, CoreRecords
<1>4. CASE p # NoPacket
  <2>1. p.src \in core.sound \ {Self} /\ p.row \in SUBSET Node
    BY <1>4, CoreAssumption DEF Acceptable
  <2>2. p.src \in Node
    BY <1>2, <2>1 DEF CoreRecords
  <2> DEFINE cur == [core.current EXCEPT !.proposals = @ \cup {p.src}]
             rws == [core.previous.rows EXCEPT ![p.src] = p.row]
             prv == [core.previous EXCEPT !.rows = rws]
  <2>3. cur \in CurrentStages
    BY <1>2, <2>2 DEF CoreRecords, CurrentStages
  <2>4. core.previous \in PreviousStages
    BY <1>2 DEF CoreRecords
  <2>5. rws \in [Node -> SUBSET Node]
    BY <2>1, <2>4 DEF PreviousStages
  <2>6. prv \in PreviousStages /\ prv.rows = rws
    BY <2>4, <2>5 DEF PreviousStages
  <2>7. Received(p) = [core EXCEPT !.commit = NoCommit, !.current = cur,
                                   !.previous = prv]
    BY <1>2, <1>4 DEF Received, CoreRecords, PreviousStages
  <2>8. \A m \in Node \ {p.src} : rws[m] = core.previous.rows[m]
    BY <2>4 DEF PreviousStages
  <2> HIDE DEF cur, rws, prv
  <2>9. Received(p) \in CoreRecords
    BY <1>1, <1>2, <2>3, <2>6, <2>7 DEF CoreRecords
  <2>10. /\ Received(p).state = core.state
         /\ Received(p).sound = core.sound
         /\ Received(p).installed = core.installed
         /\ Received(p).previous.rows = rws
    BY <1>2, <2>6, <2>7 DEF CoreRecords
  <2> QED
    BY <2>1, <2>8, <2>9, <2>10 DEF IInv, EvidenceInv, SoundEvidence
<1> QED
  BY <1>3, <1>4

\* A boundary files the node's own observation and nothing else.
LEMMA ShiftedKeeps ==
  ASSUME IInv, NEW c \in CoreRecords, Self \in c.sound, c.sound \subseteq c.installed
  PROVE  /\ Shifted(c) \in CoreRecords
         /\ SoundEvidence(Shifted(c))
<1>1. /\ core \in CoreRecords
      /\ core.current \in CurrentStages
  BY DEF IInv, RecordInv, CoreRecords
<1>2. core.run \in Run \cup {0} /\ roundId \in RoundIds /\ Self \in Node
  BY <1>1, CoreAssumption, TimeTypes DEF IInv, CoreRecords
<1> DEFINE rws == [NoRows EXCEPT ![Self] = core.current.proposals]
           prv == [valid |-> core.current.valid, round |-> core.current.round,
                   proposals |-> core.current.proposals, rows |-> rws]
           cur == [valid |-> TRUE, round |-> roundId, proposals |-> {Self}]
           nxt == [round |-> roundId, run |-> core.run,
                   row |-> core.current.proposals]
<1>3. rws \in [Node -> SUBSET Node] /\ \A m \in Node \ {Self} : rws[m] = {}
  BY <1>1, <1>2 DEF NoRows, CurrentStages
<1>4. prv \in PreviousStages /\ prv.rows = rws
  BY <1>1, <1>3 DEF CurrentStages, PreviousStages
<1>5. cur \in CurrentStages
  BY <1>2 DEF CurrentStages
<1>6. nxt \in Sends
  BY <1>1, <1>2 DEF CurrentStages, Sends
<1>7. Shifted(c) = [c EXCEPT !.previous = prv, !.current = cur, !.tx = nxt]
  BY DEF Shifted
<1> HIDE DEF rws, prv, cur, nxt
<1>8. Shifted(c) \in CoreRecords
  BY <1>4, <1>5, <1>6, <1>7 DEF CoreRecords
<1>9. /\ Shifted(c).sound = c.sound
      /\ Shifted(c).installed = c.installed
      /\ Shifted(c).previous.rows = rws
  BY <1>4, <1>7 DEF CoreRecords
<1> QED
  BY <1>3, <1>8, <1>9 DEF SoundEvidence

\* The reasons of a halt.
LEMMA HaltReasons == HaltReason \in Reasons
BY DEF HaltReason, Reasons

\* A commit drops the nodes that disagree, but never this one.
LEMMA CommitKeepsSelf ==
  ASSUME IInv, core.state = "RUN", EvalCommits
  PROVE  /\ Self \in EvalSoundSet
         /\ EvalSoundSet \subseteq core.installed
         /\ EvalSoundSet \subseteq Node
         /\ LocalRow \subseteq Node
<1>1. core \in CoreRecords /\ Self \in core.sound
  BY DEF IInv, RecordInv, EvidenceInv, SoundEvidence
<1>2. LocalRow = core.previous.rows[Self]
  BY <1>1 DEF LocalRow
<1>3. core.sound \subseteq core.installed /\ core.installed \subseteq Node
  BY <1>1 DEF IInv, EvidenceInv, SoundEvidence, CoreRecords
<1>4. core.previous.rows \in [Node -> SUBSET Node]
  BY <1>1 DEF CoreRecords, PreviousStages
<1> QED
  BY <1>1, <1>2, <1>3, <1>4 DEF EvalSoundSet

\* An activation starts from a stage without evidence.
LEMMA ActivateStep ==
  ASSUME IInv, NEW w, Activate(w)
  PROVE  \E c \in CoreRecords : /\ SoundEvidence(c) /\ Settle(c, w)
                                 /\ c.run = config.run
                                 /\ c.installed = config.members
<1>1. /\ core \in CoreRecords
      /\ core.previous \in PreviousStages
      /\ config \in Configs
      /\ config.run \in Run \cup {0} /\ config.members \subseteq Node
      /\ roundId \in RoundIds
      /\ NoCommit \in Commits
  BY TimeTypes, NoCommitType, ConfigTypes DEF IInv, RecordInv, CoreRecords
<1> DEFINE cur == [valid |-> TRUE, round |-> roundId, proposals |-> {Self}]
           prv == [core.previous EXCEPT !.valid = FALSE, !.rows = NoRows]
           nxt == [round |-> roundId, run |-> config.run, row |-> {Self}]
           c == [core EXCEPT
                   !.state = "RUN", !.commit = NoCommit, !.excluded = FALSE,
                   !.run = config.run,
                   !.installed = config.members, !.sound = config.members,
                   !.current = cur, !.previous = prv, !.tx = nxt]
<1>2. NoRows \in [Node -> SUBSET Node] /\ \A m \in Node : NoRows[m] = {}
  BY DEF NoRows
<1>3. prv \in PreviousStages /\ prv.rows = NoRows
  BY <1>1, <1>2 DEF PreviousStages
<1>4. cur \in CurrentStages
  BY <1>1, CoreAssumption DEF CurrentStages
<1>5. nxt \in Sends
  BY <1>1, CoreAssumption DEF Sends
<1>6. Settle(c, w)
  BY <1>1 DEF Activate, CoreRecords
<1>7. Self \in config.members
  BY DEF Activate, ActivationFires
<1> HIDE DEF cur, prv, nxt
<1>8. c \in CoreRecords
  BY <1>1, <1>3, <1>4, <1>5 DEF CoreRecords, States
<1>9. /\ c.sound = config.members /\ c.installed = config.members
      /\ c.previous = prv /\ c.run = config.run
  BY <1>1 DEF CoreRecords
<1> HIDE DEF c
<1> QED
  BY <1>2, <1>3, <1>6, <1>7, <1>8, <1>9 DEF SoundEvidence

\* What a boundary or a packet makes of the registers, before it settles.
LEMMA ProtocolStep ==
  ASSUME IInv, NEW w, Protocol(w)
  PROVE  \E c \in CoreRecords : SoundEvidence(c) /\ Settle(c, w)
<1>1. /\ core \in CoreRecords
      /\ core.current \in CurrentStages
      /\ core.previous \in PreviousStages
      /\ NoCommit \in Commits
  BY NoCommitType DEF IInv, RecordInv, CoreRecords
<1>2. CASE Activate(w)
  BY <1>2, ActivateStep
<1>3. CASE Wait(w)
  <2> DEFINE c == [core EXCEPT !.commit = NoCommit,
                     !.state = IF @ = "IDLE" /\ pending THEN "WAIT_ACTIVATE" ELSE @]
  <2>1. Settle(c, w) /\ core.state # "RUN"
    BY <1>3 DEF Wait
  <2>2. c \in CoreRecords /\ c.state # "RUN"
    BY <1>1, <2>1 DEF CoreRecords, States
  <2> QED
    BY <2>1, <2>2 DEF SoundEvidence
<1>4. CASE Fill(w)
  <2> DEFINE c == [core EXCEPT !.commit = NoCommit]
  <2>1. c \in CoreRecords /\ c.sound = core.sound /\ c.installed = core.installed
    BY <1>1 DEF CoreRecords
  <2>2. Self \in core.sound /\ core.sound \subseteq core.installed
    BY <1>4 DEF Fill, IInv, EvidenceInv, SoundEvidence
  <2>3. Settle(Shifted(c), w)
    BY <1>4 DEF Fill
  <2> HIDE DEF c
  <2> QED
    BY <2>1, <2>2, <2>3, ShiftedKeeps
<1>5. CASE Commit(w)
  <2> DEFINE com == [round |-> core.previous.round, set |-> LocalRow]
             c == [core EXCEPT !.sound = EvalSoundSet, !.commit = com]
  <2>1. /\ Self \in EvalSoundSet
        /\ EvalSoundSet \subseteq core.installed
        /\ EvalSoundSet \subseteq Node
        /\ LocalRow \subseteq Node
    BY <1>5, CommitKeepsSelf DEF Commit
  <2>2. com \in Commits
    BY <1>1, <2>1 DEF PreviousStages, Commits
  <2>3. Settle(Shifted(c), w)
    BY <1>5 DEF Commit
  <2> HIDE DEF com
  <2>4. c \in CoreRecords /\ c.sound = EvalSoundSet /\ c.installed = core.installed
    BY <1>1, <2>1, <2>2 DEF CoreRecords
  <2> HIDE DEF c
  <2> QED
    BY <2>1, <2>3, <2>4, ShiftedKeeps
<1>6. ASSUME NEW p \in Acceptable \cup {NoPacket}, Collect(w, p)
      PROVE  \E c \in CoreRecords : SoundEvidence(c) /\ Settle(c, w)
  BY <1>6, ReceivedKeeps DEF Collect
<1>7. ASSUME NEW p \in Acceptable \cup {NoPacket}, Refuse(w, p)
      PROVE  \E c \in CoreRecords : SoundEvidence(c) /\ Settle(c, w)
  <2> DEFINE c == [Received(p) EXCEPT !.excluded = TRUE, !.state = "IDLE"]
  <2>1. c \in CoreRecords /\ c.state # "RUN"
    BY ReceivedKeeps DEF CoreRecords, States
  <2> QED
    BY <1>7, <2>1 DEF Refuse, SoundEvidence
<1>8. ASSUME NEW p \in Acceptable \cup {NoPacket}, Halt(w, p)
      PROVE  \E c \in CoreRecords : SoundEvidence(c) /\ Settle(c, w)
  <2> DEFINE prv == [valid |-> core.current.valid, round |-> core.current.round,
                     proposals |-> core.current.proposals, rows |-> NoRows]
             hlt == [reason |-> HaltReason, round |-> core.previous.round]
             c == [Received(p) EXCEPT !.state = "HALT", !.previous = prv,
                                      !.halt = hlt]
  <2>1. prv \in PreviousStages
    BY <1>1 DEF NoRows, CurrentStages, PreviousStages
  <2>2. hlt \in Halts
    BY <1>1, HaltReasons DEF PreviousStages, Halts
  <2>3. Settle(c, w)
    BY <1>8 DEF Halt
  <2> HIDE DEF prv, hlt
  <2>4. c \in CoreRecords /\ c.state # "RUN"
    BY <2>1, <2>2, ReceivedKeeps DEF CoreRecords, States
  <2> QED
    BY <2>3, <2>4 DEF SoundEvidence
<1> QED
  BY <1>2, <1>3, <1>4, <1>5, <1>6, <1>7, <1>8 DEF Protocol

-----------------------------------------------------------------------------
(* The invariant. *)

LEMMA InitIInv == Init => IInv
<1> SUFFICES ASSUME Init PROVE IInv
  OBVIOUS
<1>1. TimeInv
  <2>1. 0 \in Seconds /\ 0 \in Offsets /\ 0 \in 0 .. MaxFault
    <3>1. SecondLength \in Nat \ {0}
      BY CoreTimingAssumption DEF SecondLength
    <3> QED
      BY <3>1, CoreTimingAssumption DEF Seconds, Offsets
  <2> QED
    BY <2>1, RoundIdsType DEF Init, TimingInit, TimeInv, TimingTypeOK
<1>2. ResetConfig \in Configs /\ config \in Configs
  BY CoreAssumption DEF Init, StagedConfigs, ResetConfig, Configs, Halves
<1>3. core \in CoreRecords /\ core.state = "IDLE"
  <2>1. NoRows \in [Node -> SUBSET Node]
    BY DEF NoRows
  <2> QED
    BY <2>1, RoundIdsType, NoCommitType DEF Init, ResetCore, CoreRecords, States,
       CurrentStages, PreviousStages, Sends, Halts, Reasons
<1>4. SoftwareInv
  <2>1. pending \in BOOLEAN /\ ack \in BOOLEAN
    BY Zenon DEF Init
  <2>2. asked \in Configs /\ writes \in 0 .. MaxWrite
    BY <1>2, CoreAssumption DEF Init
  <2> QED
    BY <2>1, <2>2 DEF SoftwareInv
<1>5. RememberedInv
  BY RoundIdsType DEF Init, RememberedInv
<1> QED
  BY <1>1, <1>2, <1>3, <1>4, <1>5
     DEF Init, IInv, RecordInv, EvidenceInv, SoundEvidence, AskedInv

LEMMA CycleIInv ==
  ASSUME IInv, Cycle
  PROVE  IInv'
<1>1. PICK w \in Writes \cup {NoWrite} : Registers(w) /\ Protocol(w)
  BY DEF Cycle
<1>2. config' \in Configs /\ SoftwareInv' /\ enable' \in BOOLEAN /\ AskedInv'
  BY <1>1, RegisterStep
<1>3. TimeInv'
  <2>1. TimeInv /\ PtpClock /\ Rounds
    BY DEF Cycle, IInv
  <2>2. SecondLength' = SecondLength /\ Offsets' = Offsets /\ RoundIds' = RoundIds
    BY DEF SecondLength, Offsets, RoundIds
  <2> QED
    BY <1>2, <2>1, <2>2, ClockTypes, RoundsKeep DEF TimeInv, TimingTypeOK
<1>4. PICK c \in CoreRecords : SoundEvidence(c) /\ Settle(c, w)
  BY <1>1, ProtocolStep
<1>5. core' \in CoreRecords /\ (core'.state = "RUN" => core' = c)
  BY <1>4, Settled DEF IInv
<1>6. SoundEvidence(core')
  BY <1>4, <1>5 DEF SoundEvidence
<1>7. RememberedInv'
  <2>1. roundId \in RoundIds /\ core'.commit.round \in RoundIds \cup {-1}
    BY <1>5, TimeTypes DEF IInv, CoreRecords, Commits
  <2>2. Remember /\ RememberedInv
    BY DEF Cycle, IInv
  <2> QED
    BY <2>1, <2>2, RoundIdsType DEF Remember, RememberedInv
<1> QED
  BY <1>2, <1>3, <1>5, <1>6, <1>7 DEF IInv, RecordInv, EvidenceInv, SoundEvidence

\* The registers keep their types and their bounds, only the sound set leaves evidence in a
\* running core, and what is armed is what software armed.
THEOREM Invariance == Spec => []IInv
<1>1. Init => IInv
  BY InitIInv
<1>2. IInv /\ [Next]_vars => IInv'
  <2> SUFFICES ASSUME IInv, [Next]_vars PROVE IInv'
    OBVIOUS
  <2>1. CASE Cycle
    BY <2>1, CycleIInv
  <2>2. CASE UNCHANGED vars
    BY <2>2 DEF vars, ptpVars, roundVars, csrVars, ghostVars, IInv, TimeInv,
       TimingTypeOK, Aligned, SoftwareInv, RememberedInv, RecordInv, EvidenceInv, SoundEvidence, AskedInv
  <2> QED
    BY <2>1, <2>2 DEF Next, TimeIsUp
<1> QED
  BY <1>1, <1>2, PTL DEF Spec

-----------------------------------------------------------------------------
(* What follows from it. *)

\* No register leaves its range: the rounds are those of the seconds that time reaches,
\* whatever the clock does and whenever the core is enabled (core.v:419).
THEOREM Typing == Spec => []TypeOK
<1>1. IInv => TypeOK
  BY DEF IInv, TimeInv, RecordInv, SoftwareInv, RememberedInv, TypeOK, CoreRecords,
     CurrentStages, PreviousStages, Sends, Commits, Halts
<1> QED
  BY <1>1, Invariance, PTL

\* At every boundary of a running core the verdict of the hardware is the
\* verdict of the simulator (core.v:796).
THEOREM Mirrors == Spec => []MirrorsTheSimulator
<1>1. IInv => MirrorsTheSimulator
  <2> SUFFICES ASSUME IInv, core.state = "RUN", core.previous.valid
               PROVE  MirrorsTheSimulator
    BY DEF MirrorsTheSimulator
  <2> DEFINE rows == core.previous.rows
             proposals == [m \in Node |-> IF m \in core.previous.proposals
                                          THEN core.previous.round ELSE NoProposal]
  <2>1. /\ rows \in [Node -> SUBSET Node]
        /\ core.previous.round \in Nat
        /\ core.installed \subseteq Node
    BY RoundIdsType DEF IInv, RecordInv, CoreRecords, PreviousStages
  <2>2. /\ Self \in core.sound
        /\ core.sound \subseteq core.installed
        /\ \A m \in Node \ core.sound : rows[m] = {}
    BY DEF IInv, EvidenceInv, SoundEvidence
  <2>3. LocalRow = rows[Self]
    BY <2>2 DEF LocalRow
  <2> HIDE DEF rows
  <2>4. RowSelfMissing <=> ~ \A m \in core.installed : RowIsValid(m, rows[m])
    BY <2>1, <2>2 DEF RowSelfMissing, RowIsValid, rows
  <2>5. LocalRow # {} => EvalSoundSet = Witnesses(Self, core.installed, rows)
    BY <2>1, <2>2, <2>3 DEF EvalSoundSet, Witnesses, rows
  <2>6. AgreedRowValid <=> HasAgreedRow(Self, core.installed, rows)
    BY <2>2, <2>3, <2>4, <2>5 DEF AgreedRowValid, HasAgreedRow
  <2>7. (LocalRow \subseteq core.previous.proposals)
           <=> CommitSetIsValid(Self, rows, proposals)
    <3>1. rows[Self] \subseteq Node
      BY <2>1, CoreAssumption
    <3>2. \A m \in Node : proposals[m] # NoProposal
                            <=> m \in core.previous.proposals
      BY <2>1 DEF NoProposal
    <3> HIDE DEF proposals
    <3> QED
      BY <2>3, <3>1, <3>2 DEF CommitSetIsValid, AgreedRow
  <2>8. Self \in EvalSoundSet /\ EvalSoundSet \subseteq core.sound
    BY <2>2, <2>3 DEF EvalSoundSet, rows
  <2> HIDE DEF proposals
  <2>9. HaltReason = LET verdict == Verdict(Self, core.installed, rows, proposals,
                                            core.sound)
                     IN  IF verdict = "commit" THEN "none" ELSE verdict
    <3>1. CASE ~AgreedRowValid
      BY <2>6, <3>1 DEF HaltReason, Verdict
    <3>2. CASE AgreedRowValid
      <4>1. SoundSet(Self, core.installed, rows) = EvalSoundSet
        BY <2>5, <3>2 DEF SoundSet, AgreedRowValid
      <4> QED
        BY <2>6, <2>7, <2>8, <3>2, <4>1 DEF HaltReason, Verdict
    <3> QED
      BY <3>1, <3>2
  <2> QED
    BY <2>9 DEF MirrorsTheSimulator, rows, proposals
<1> QED
  BY <1>1, Invariance, PTL

\* The core never runs under a configuration software did not arm as a whole,
\* nor before the round it names (core.v:315-327, 811).
THEOREM Installed == Spec => InstalledAsAsked
<1> DEFINE Asked ==
      (pending /\ ActivateConsumed /\ core'.state = "RUN") =>
         /\ core'.run = asked.run
         /\ core'.installed = asked.members
         /\ roundId >= EffectiveRound(asked)
<1>1. IInv /\ [Next]_vars => [Asked]_vars
  <2> SUFFICES ASSUME IInv, Cycle, pending, ActivateConsumed, core'.state = "RUN"
               PROVE  /\ core'.run = asked.run
                      /\ core'.installed = asked.members
                      /\ roundId >= EffectiveRound(asked)
    BY DEF Next, TimeIsUp
  <2>1. asked = config /\ roundStart /\ ActivationDue
    BY DEF IInv, AskedInv, ActivateConsumed
  <2>2. PICK w \in Writes \cup {NoWrite} : Registers(w) /\ Protocol(w)
    BY DEF Cycle
  <2>3. CASE Activate(w)
    <3>1. PICK c : /\ Settle(c, w)
                   /\ c \in CoreRecords
                   /\ c.run = config.run /\ c.installed = config.members
      BY <2>3, ActivateStep
    <3>2. core' = c
      BY <3>1, Settled DEF IInv
    <3> QED
      BY <2>1, <3>1, <3>2 DEF ActivationDue
  <2>4. ASSUME NEW p \in Acceptable \cup {NoPacket}, Refuse(w, p)
        PROVE  FALSE
    <3> DEFINE c == [Received(p) EXCEPT !.excluded = TRUE, !.state = "IDLE"]
    <3>1. c \in CoreRecords /\ c.state # "RUN"
      BY ReceivedKeeps DEF CoreRecords, States
    <3>2. Settle(c, w)
      BY <2>4 DEF Refuse
    <3> HIDE DEF c
    <3> QED
      BY <3>1, <3>2, Settled DEF IInv
  <2> QED
    BY <2>1, <2>2, <2>3, <2>4 DEF Protocol, Wait, Fill, Commit, Collect, Halt
<1>2. Spec => [][Asked]_vars
  BY <1>1, Invariance, PTL DEF Spec
<1> QED
  BY <1>2 DEF InstalledAsAsked

-----------------------------------------------------------------------------
(* The core and time.  The round registers only ever follow the clock, and see it a
   cycle late: what they hold is a round of the second the clock was in one cycle ago
   (Aligned), and the clock is in that round, or at its end, or has misbehaved and
   every wire says so (Follows).  The stages follow the registers, another cycle late
   (StageInv). *)

Healthy == TimingRunning /\ ~TimeFault

\* The clock is in the round of the registers or has just come to its end.
Follows ==
  \/ sec = prevSec /\ ns <= roundBase + RoundLength
  \/ sec = prevSec + 1 /\ ns = 0 /\ roundBase + RoundLength = SecondLength

\* A pulse without alignment is the rollover of a second, seen before arming.
ClockInv ==
  /\ (valid /\ ~step /\ sec = prevSec + 1) => ns = 0
  /\ (Healthy /\ (armed \/ roundStart)) => Follows
  /\ (Healthy /\ roundStart /\ ~armed) =>
        sec = prevSec /\ ns < RoundLength /\ roundBase = 0

\* The round a running core commits next.
DueRound == IF lastCommit = -1 THEN activatedAt ELSE lastCommit + 1

StageInv ==
  (core.state = "RUN" /\ ~missed) =>
    /\ armed \/ roundStart
    /\ core.current.valid
    /\ core.current.round = IF roundStart THEN roundId - 1 ELSE roundId
    /\ core.previous.valid =>
         /\ core.previous.round = core.current.round - 1
         /\ core.previous.round = DueRound
    /\ ~core.previous.valid => lastCommit = -1 /\ core.current.round = DueRound

TimeIInv == IInv /\ ClockInv /\ StageInv

-----------------------------------------------------------------------------
(* The clock. *)

\* Time moves by d: within the second, across its end, or back across its start.
LEMMA Moves ==
  ASSUME TimeInv, ClockInv, NEW d \in Int, d <= 1, MovesBy(d)
  PROVE  /\ sec' \in Nat /\ ns' \in 0 .. SecondLength - 1
         /\ \/ sec' = sec /\ ns' = ns + d
            \/ d = 1 /\ sec' = sec + 1 /\ ns' = 0 /\ ns = SecondLength - 1
            \/ sec' < sec
<1>1. SecondLength \in Nat \ {0}
  BY CoreTimingAssumption DEF SecondLength
<1>2. sec \in Nat /\ ns \in 0 .. SecondLength - 1
  BY <1>1, TimeTypes
<1>3. /\ sec' = (sec * SecondLength + ns + d) \div SecondLength
      /\ ns' = (sec * SecondLength + ns + d) % SecondLength
      /\ sec' \in Nat
  BY CoreTimingAssumption DEF MovesBy, Seconds
<1> HIDE DEF SecondLength
<1>4. sec * SecondLength + ns + d \in Int
  BY <1>1, <1>2
<1>5. /\ ns' \in 0 .. SecondLength - 1
      /\ sec' * SecondLength + ns' = sec * SecondLength + ns + d
  BY <1>1, <1>3, <1>4, Division
<1>6. sec' * SecondLength + ns' = sec * SecondLength + (ns + d)
  BY <1>1, <1>2, <1>5
<1>7. /\ ns + d \in 0 .. SecondLength - 1 => sec' = sec /\ ns' = ns + d
      /\ ns + d = SecondLength => sec' = sec + 1 /\ ns' = 0
      /\ ns + d < 0 => sec' < sec
  <2> DEFINE same(a, r, b, s) == a * SecondLength + r = b * SecondLength + s
  <2>1. \A a, b, s \in Int : \A r \in 0 .. SecondLength - 1 :
          same(a, r, b, s) => /\ s \in 0 .. SecondLength - 1 => a = b /\ r = s
                              /\ s = SecondLength => a = b + 1 /\ r = 0
                              /\ s < 0 => a < b
    BY <1>1, Quotients
  <2>2. same(sec', ns', sec, ns + d)
    BY <1>6
  <2> HIDE DEF same
  <2> QED
    BY <1>2, <1>3, <1>5, <2>1, <2>2
<1> QED
  BY <1>1, <1>2, <1>3, <1>5, <1>7

\* A cycle of the clock that flags nothing moves time on by one, leaves it within its
\* second, or takes it to an earlier one.
LEMMA ClockStep ==
  ASSUME TimeInv, ClockInv, PtpClock
  PROVE  /\ sec' \in Nat /\ ns' \in Nat /\ ns' < SecondLength
         /\ (valid' /\ ~step') =>
              \/ sec' = sec /\ ns' <= ns + 1
              \/ sec' = sec + 1 /\ ns' = 0 /\ ns = SecondLength - 1
              \/ sec' < sec
<1>1. SecondLength \in Nat \ {0} /\ sec \in Nat /\ ns \in Nat
  BY CoreTimingAssumption, TimeTypes DEF SecondLength
<1> DEFINE Unflagged == \/ sec' = sec /\ ns' <= ns + 1
                        \/ sec' = sec + 1 /\ ns' = 0 /\ ns = SecondLength - 1
                        \/ sec' < sec
<1>2. ASSUME NEW d \in Int, d <= 1, MovesBy(d)
      PROVE  sec' \in Nat /\ ns' \in 0 .. SecondLength - 1 /\ Unflagged
  BY <1>1, <1>2, Moves
<1>3. ASSUME NEW d \in Int, MovesBy(d)
      PROVE  sec' \in Nat /\ ns' \in 0 .. SecondLength - 1
  <2>1. sec * SecondLength + ns + d \in Int
    BY <1>1
  <2> QED
    BY <1>1, <1>3, <2>1, Division, CoreTimingAssumption DEF MovesBy, Seconds
<1>4. CASE GoodTime
  BY <1>1, <1>2, <1>4 DEF GoodTime
<1>5. CASE SteppedTime
  <2>1. \E d \in Int : MovesBy(d)
    BY <1>5, CoreTimingAssumption DEF SteppedTime
  <2> QED
    BY <1>1, <1>3, <1>5, <2>1 DEF SteppedTime
<1>6. CASE BackwardTime
  <2>1. \E d \in Int : d <= 1 /\ MovesBy(d)
    BY <1>6, CoreTimingAssumption DEF BackwardTime
  <2> QED
    BY <1>1, <1>2, <2>1
<1>7. CASE LostLock
  BY <1>1, <1>2, <1>7 DEF LostLock
<1> QED
  BY <1>4, <1>5, <1>6, <1>7 DEF PtpClock

-----------------------------------------------------------------------------
(* The round registers. *)

\* After a cycle that leaves them aligned, or with a pulse, the round registers hold
\* the round the clock was in.
LEMMA RoundsAlign ==
  ASSUME TimeInv, ClockInv, Rounds, armed' \/ roundStart'
  PROVE  /\ Healthy
         /\ roundBase' <= ns /\ ns < roundBase' + RoundLength
         /\ ~armed' => roundBase' = 0 /\ ns = 0
<1>1. /\ sec \in Nat /\ ns \in Nat /\ prevSec \in Nat /\ roundId \in Nat
      /\ RoundLength \in Nat \ {0} /\ RoundsPerSecond \in Nat \ {0}
      /\ SecondLength \in Nat \ {0} /\ SecondLength = RoundsPerSecond * RoundLength
      /\ ns < SecondLength
      /\ prevSec' = sec
  BY CoreTimingAssumption, TimeTypes DEF SecondLength, Rounds
<1> HIDE DEF SecondLength
<1>2. CASE Arm
  <2> DEFINE k == ns \div RoundLength
  <2>1. /\ Healthy /\ sec = prevSec
        /\ roundBase' = k * RoundLength
        /\ armed'
    BY <1>2 DEF Arm, Healthy, SecondChanged, RoundAt
  <2>2. k \in Nat /\ k * RoundLength <= ns /\ ns < k * RoundLength + RoundLength
    BY <1>1, Quotient
  <2> HIDE DEF k
  <2> QED
    BY <1>1, <2>1, <2>2
<1>3. CASE Rollover
  <2>1. /\ Healthy /\ sec = prevSec + 1
        /\ roundBase' = 0
    BY <1>3 DEF Rollover, Healthy, SecondAdvanced
  <2>2. ns = 0
    BY <2>1 DEF ClockInv, Healthy, TimingRunning, TimeFault
  <2> QED
    BY <1>1, <2>1, <2>2
<1>4. CASE Advance
  <2>1. /\ Healthy /\ sec = prevSec /\ armed /\ armed'
        /\ ns >= roundBase + RoundLength
        /\ roundBase' = roundBase + RoundLength
    BY <1>4 DEF Advance, Healthy, BoundaryHit, SecondChanged
  <2>2. PICK k \in 0 .. RoundsPerSecond - 1 :
          roundBase = k * RoundLength
    BY <2>1 DEF TimeInv, Aligned
  <2>3. k * RoundLength \in Nat
    BY <1>1, <2>2
  <2>4. ns <= roundBase + RoundLength
    BY <1>1, <2>1 DEF ClockInv, Follows
  <2> QED
    BY <1>1, <2>1, <2>2, <2>3, <2>4
<1>5. CASE InRound
  <2>1. /\ Healthy /\ sec = prevSec /\ armed /\ armed'
        /\ ns < roundBase + RoundLength
        /\ roundBase <= ns
        /\ roundBase' = roundBase
    <3>1. Aligned
      BY <1>5 DEF InRound, TimeInv
    <3>2. roundBase \in Nat
      BY <1>1, <3>1 DEF Aligned
    <3> QED
      BY <1>1, <1>5, <3>2 DEF InRound, Healthy, BoundaryHit, SecondChanged,
         TimeFault, TimeMovedBackward
  <2> QED
    BY <2>1
<1>6. CASE Disarm \/ LetGo
  BY <1>6 DEF Disarm, LetGo
<1> QED
  BY <1>2, <1>3, <1>4, <1>5, <1>6 DEF Rounds

\* A round is longer than a cycle (the elaboration check at core.v:161: the guard
\* and the sub-slots, of at least a cycle each, fit a round).
LEMMA RoundsStep ==
  ASSUME TimeInv, ClockInv, PtpClock, Rounds, RoundLength >= 2
  PROVE  ClockInv'
<1>1. /\ sec \in Nat /\ ns \in Nat
      /\ RoundLength \in Nat \ {0} /\ RoundsPerSecond \in Nat \ {0}
      /\ SecondLength = RoundsPerSecond * RoundLength
      /\ SecondLength \in Nat /\ SecondLength >= 2
      /\ prevSec' = sec
  BY CoreTimingAssumption, TimeTypes DEF SecondLength, Rounds
<1>2. SecondLength' = SecondLength
  BY DEF SecondLength
<1> HIDE DEF SecondLength
<1>3. /\ sec' \in Nat /\ ns' \in Nat /\ ns' < SecondLength
      /\ (valid' /\ ~step') =>
           \/ sec' = sec /\ ns' <= ns + 1
           \/ sec' = sec + 1 /\ ns' = 0 /\ ns = SecondLength - 1
           \/ sec' < sec
  BY ClockStep
<1>4. ASSUME Healthy', armed' \/ roundStart'
      PROVE  /\ Follows'
             /\ ~armed' => sec' = prevSec' /\ ns' < RoundLength /\ roundBase' = 0
  <2>1. /\ valid' /\ ~step'
        /\ sec' = sec \/ sec' = sec + 1
    BY <1>1, <1>4 DEF Healthy, TimingRunning, TimeFault, SecondJumped, SecondChanged
  <2>2. PICK k \in 0 .. RoundsPerSecond - 1 : roundBase' = k * RoundLength
    BY <1>4, RoundsKeep DEF Aligned
  <2>3. k * RoundLength \in Nat /\ k * RoundLength + RoundLength <= SecondLength
    BY <1>1, <2>2, RoundsOfSecond
  <2>4. /\ roundBase' <= ns /\ ns < roundBase' + RoundLength
        /\ ~armed' => roundBase' = 0 /\ ns = 0
    BY <1>4, RoundsAlign
  <2>5. CASE sec' = sec
    BY <1>1, <1>3, <2>1, <2>2, <2>3, <2>4, <2>5 DEF Follows
  <2>6. CASE sec' = sec + 1
    BY <1>1, <1>2, <1>3, <2>1, <2>2, <2>3, <2>4, <2>6 DEF Follows
  <2> QED
    BY <2>1, <2>5, <2>6
<1> QED
  BY <1>1, <1>2, <1>3, <1>4 DEF ClockInv

\* The registers count the pulses: no round is skipped, none comes twice.
LEMMA RoundAdvances ==
  ASSUME TimeInv, ClockInv, Rounds, Healthy, armed \/ roundStart
  PROVE  /\ armed' \/ roundStart'
         /\ roundId' = IF roundStart' THEN roundId + 1 ELSE roundId
<1>1. /\ sec \in Nat /\ ns \in Nat /\ prevSec \in Nat /\ roundId \in Nat
      /\ RoundLength \in Nat \ {0} /\ RoundsPerSecond \in Nat \ {0}
      /\ SecondLength = RoundsPerSecond * RoundLength
  BY CoreTimingAssumption, TimeTypes DEF SecondLength
<1> HIDE DEF SecondLength
<1>2. PICK k \in 0 .. RoundsPerSecond - 1 :
        roundBase = k * RoundLength /\ roundId = prevSec * RoundsPerSecond + k
  BY DEF TimeInv, Aligned
<1>3. k * RoundLength \in Nat /\ prevSec * RoundsPerSecond \in Nat
  BY <1>1, <1>2
<1>4. CASE Arm
  <2>1. /\ ~armed' => FALSE
        /\ roundStart' = FALSE
        /\ roundId' = prevSec * RoundsPerSecond + ns \div RoundLength
        /\ ns < RoundLength /\ roundBase = 0
    BY <1>4 DEF Arm, RoundAt, ClockInv
  <2>2. k >= 1 => k * RoundLength >= RoundLength
    BY <1>1, <1>2
  <2>3. k = 0
    BY <1>1, <1>2, <2>1, <2>2
  <2>4. ns \div RoundLength = 0
    BY <1>1, <2>1
  <2> QED
    BY <1>2, <1>3, <2>1, <2>3, <2>4
<1>5. CASE Rollover
  <2>1. /\ roundStart' = TRUE
        /\ roundId' = (prevSec + 1) * RoundsPerSecond
        /\ sec = prevSec + 1
    BY <1>5 DEF Rollover, SecondAdvanced
  <2>2. roundBase + RoundLength = SecondLength
    BY <1>1, <2>1 DEF ClockInv, Follows
  <2>3. k = RoundsPerSecond - 1
    BY <1>1, <1>2, <2>2, RoundsOfSecond
  <2>4. (prevSec + 1) * RoundsPerSecond = prevSec * RoundsPerSecond + RoundsPerSecond
    BY <1>1
  <2> QED
    BY <1>1, <1>2, <1>3, <2>1, <2>3, <2>4
<1>6. CASE Advance
  BY <1>6 DEF Advance
<1>7. CASE InRound
  BY <1>7 DEF InRound
<1> QED
  BY <1>4, <1>5, <1>6, <1>7 DEF Rounds, Disarm, LetGo, Healthy

-----------------------------------------------------------------------------
(* The stages. *)

\* A core that runs or halts after the asynchronous transitions was not stopped, and
\* runs only if it kept its time or survived the loss of it.
LEMMA SettledStates ==
  ASSUME TimeInv, NEW c \in CoreRecords, NEW w, Settle(c, w)
  PROVE  /\ core'.state = "RUN" => core' = c /\ enable
         /\ core'.state = "HALT" => core' = AfterTimingLoss(c)
<1>1. AfterTimingLoss(c) \in CoreRecords
  <2>1. [reason |-> "time_fault", round |-> roundId] \in Halts
    BY TimeTypes DEF Halts, Reasons
  <2> QED
    BY <2>1 DEF AfterTimingLoss, CoreRecords, States
<1> DEFINE lost == AfterTimingLoss(c)
           stopped == AfterStop(lost, w)
<1>2. core' = AfterReboot(stopped, w)
  BY DEF Settle
<1>3. CASE Stops(w)
  <2>1. stopped.state = "IDLE" /\ DOMAIN stopped = DOMAIN lost
    BY <1>1, <1>3 DEF AfterStop, CoreRecords
  <2> HIDE DEF stopped
  <2>2. core'.state = stopped.state
    BY <1>1, <1>2, <2>1 DEF AfterReboot, CoreRecords
  <2> QED
    BY <2>1, <2>2
<1>4. CASE ~Stops(w)
  BY <1>2, <1>4, Settled DEF AfterStop, AfterReboot, Stops
<1> QED
  BY <1>3, <1>4

-----------------------------------------------------------------------------
(* What the step makes of the registers, as far as the stages are concerned. *)

\* A failed evaluation keeps its reason and its round in the halt record.
LEMMA HaltStep ==
  ASSUME IInv, NEW w, NEW p \in Acceptable \cup {NoPacket}, Halt(w, p)
  PROVE  \E c \in CoreRecords :
           /\ Settle(c, w)
           /\ c.state = "HALT"
           /\ c.halt = [reason |-> HaltReason, round |-> core.previous.round]
<1>1. /\ core \in CoreRecords
      /\ core.current \in CurrentStages
      /\ core.previous \in PreviousStages
  BY DEF IInv, RecordInv, CoreRecords
<1> DEFINE prv == [valid |-> core.current.valid, round |-> core.current.round,
                   proposals |-> core.current.proposals, rows |-> NoRows]
           hlt == [reason |-> HaltReason, round |-> core.previous.round]
           c == [Received(p) EXCEPT !.state = "HALT", !.previous = prv,
                                    !.halt = hlt]
<1>2. prv \in PreviousStages
  BY <1>1 DEF NoRows, CurrentStages, PreviousStages
<1>3. hlt \in Halts
  BY <1>1, HaltReasons DEF PreviousStages, Halts
<1>4. Settle(c, w)
  BY DEF Halt
<1> HIDE DEF prv, hlt
<1>5. c \in CoreRecords /\ c.state = "HALT" /\ c.halt = hlt
  BY <1>2, <1>3, ReceivedKeeps DEF CoreRecords, States
<1> HIDE DEF c
<1> QED
  BY <1>4, <1>5 DEF hlt

\* The boundaries after which the core runs: an activation starts the pipeline anew,
\* any other shifts it.
LEMMA BoundaryRuns ==
  ASSUME IInv, NEW w, Activate(w) \/ Fill(w) \/ Commit(w)
  PROVE  \E c \in CoreRecords :
           /\ Settle(c, w) /\ c.state = "RUN"
           /\ roundStart /\ c.current.valid /\ c.current.round = roundId
           /\ \/ ActivationDue /\ ~c.previous.valid /\ c.commit = NoCommit
              \/ /\ ~ActivationDue /\ core.state = "RUN"
                 /\ c.previous.valid = core.current.valid
                 /\ c.previous.round = core.current.round
                 /\ \/ ~core.previous.valid /\ c.commit = NoCommit
                    \/ core.previous.valid /\ c.commit.round = core.previous.round
<1>1. /\ core \in CoreRecords
      /\ core.current \in CurrentStages
      /\ core.previous \in PreviousStages
      /\ NoCommit \in Commits
      /\ TimeInv
  BY NoCommitType DEF IInv, RecordInv, CoreRecords
<1>2. CASE Activate(w)
  <2> DEFINE cur == [valid |-> TRUE, round |-> roundId, proposals |-> {Self}]
             prv == [core.previous EXCEPT !.valid = FALSE, !.rows = NoRows]
             nxt == [round |-> roundId, run |-> config.run, row |-> {Self}]
             c == [core EXCEPT
                   !.state = "RUN", !.commit = NoCommit, !.excluded = FALSE,
                   !.run = config.run,
                   !.installed = config.members, !.sound = config.members,
                   !.current = cur, !.previous = prv, !.tx = nxt]
  <2>1. prv \in PreviousStages /\ ~prv.valid
    BY <1>1 DEF PreviousStages, NoRows
  <2>2. cur \in CurrentStages /\ cur.valid /\ cur.round = roundId
    BY <1>1, CoreAssumption, TimeTypes DEF CurrentStages
  <2>5. config.run \in Run \cup {0} /\ config.members \subseteq Node
    BY ConfigTypes DEF IInv, RecordInv
  <2>3. nxt \in Sends
    BY <1>1, <2>5, CoreAssumption, TimeTypes DEF Sends
  <2>4. Settle(c, w) /\ roundStart /\ ActivationDue
    BY <1>1, <1>2 DEF Activate, ActivationFires, CoreRecords
  <2> HIDE DEF cur, prv, nxt
  <2>6. /\ c \in CoreRecords /\ c.state = "RUN"
        /\ c.current = cur /\ c.previous = prv /\ c.commit = NoCommit
    BY <1>1, <2>1, <2>2, <2>3, <2>5 DEF CoreRecords, States
  <2> HIDE DEF c
  <2> QED
    BY <2>1, <2>2, <2>4, <2>6
<1>3. ASSUME NEW c \in CoreRecords, c.state = "RUN",
             Self \in c.sound, c.sound \subseteq c.installed
      PROVE  /\ Shifted(c) \in CoreRecords /\ Shifted(c).state = "RUN"
             /\ Shifted(c).current.valid /\ Shifted(c).current.round = roundId
             /\ Shifted(c).previous.valid = core.current.valid
             /\ Shifted(c).previous.round = core.current.round
             /\ Shifted(c).commit = c.commit
  <2>1. Shifted(c) \in CoreRecords
    BY <1>3, ShiftedKeeps
  <2> QED
    BY <1>3, <2>1 DEF Shifted, CoreRecords
<1>4. CASE Fill(w)
  <2> DEFINE c == [core EXCEPT !.commit = NoCommit]
  <2>1. /\ c \in CoreRecords /\ c.sound = core.sound /\ c.installed = core.installed
        /\ c.commit = NoCommit /\ c.state = core.state
    BY <1>1 DEF CoreRecords
  <2>2. Self \in core.sound /\ core.sound \subseteq core.installed
    BY <1>4 DEF Fill, IInv, EvidenceInv, SoundEvidence
  <2>3. Settle(Shifted(c), w)
    BY <1>4 DEF Fill
  <2>4. roundStart /\ ~ActivationDue /\ core.state = "RUN" /\ ~core.previous.valid
    BY <1>4 DEF Fill
  <2> HIDE DEF c
  <2> QED
    BY <1>3, <2>1, <2>2, <2>3, <2>4
<1>5. CASE Commit(w)
  <2> DEFINE com == [round |-> core.previous.round, set |-> LocalRow]
             c == [core EXCEPT !.sound = EvalSoundSet, !.commit = com]
  <2>1. roundStart /\ ~ActivationDue /\ core.state = "RUN" /\ core.previous.valid
    BY <1>5 DEF Commit, EvalCommits
  <2>2. /\ Self \in EvalSoundSet
        /\ EvalSoundSet \subseteq core.installed
        /\ EvalSoundSet \subseteq Node
        /\ LocalRow \subseteq Node
    BY <1>5, CommitKeepsSelf DEF Commit
  <2>3. /\ com \in Commits
        /\ com.round = core.previous.round
    BY <1>1, <2>2 DEF PreviousStages, Commits
  <2>4. Settle(Shifted(c), w)
    BY <1>5 DEF Commit
  <2> HIDE DEF com
  <2>5. /\ c \in CoreRecords /\ c.sound = EvalSoundSet /\ c.installed = core.installed
        /\ c.commit = com /\ c.state = core.state
    BY <1>1, <2>2, <2>3 DEF CoreRecords
  <2> HIDE DEF c
  <2> QED
    BY <1>3, <2>1, <2>2, <2>3, <2>4, <2>5
<1> QED
  BY <1>2, <1>4, <1>5

\* A cycle without a pulse leaves the stages where they are.
LEMMA CollectStep ==
  ASSUME IInv, NEW w, NEW p \in Acceptable \cup {NoPacket}, Collect(w, p)
  PROVE  \E c \in CoreRecords :
           /\ Settle(c, w) /\ c.state = core.state
           /\ ~roundStart
           /\ c.current.valid = core.current.valid
           /\ c.current.round = core.current.round
           /\ c.previous.valid = core.previous.valid
           /\ c.previous.round = core.previous.round
           /\ c.commit = NoCommit
<1>1. core \in CoreRecords
  BY DEF IInv, RecordInv
<1>2. Settle(Received(p), w) /\ ~roundStart
  BY DEF Collect
<1>3. Received(p) \in CoreRecords
  BY ReceivedKeeps
<1>4. /\ Received(p).state = core.state
      /\ Received(p).commit = NoCommit
      /\ Received(p).current.valid = core.current.valid
      /\ Received(p).current.round = core.current.round
      /\ Received(p).previous.valid = core.previous.valid
      /\ Received(p).previous.round = core.previous.round
  BY <1>1 DEF Received, CoreRecords, CurrentStages, PreviousStages
<1> QED
  BY <1>2, <1>3, <1>4

\* A core that refuses a configuration goes quiet.
LEMMA RefuseStep ==
  ASSUME IInv, NEW w, NEW p \in Acceptable \cup {NoPacket}, Refuse(w, p)
  PROVE  \E c \in CoreRecords : Settle(c, w) /\ c.state = "IDLE"
<1> DEFINE c == [Received(p) EXCEPT !.excluded = TRUE, !.state = "IDLE"]
<1>1. c \in CoreRecords /\ c.state = "IDLE"
  BY ReceivedKeeps DEF CoreRecords, States
<1>2. Settle(c, w)
  BY DEF Refuse
<1> HIDE DEF c
<1> QED
  BY <1>1, <1>2

\* How a cycle in which the core runs on, or begins to, changes its stages.
LEMMA RunningStep ==
  ASSUME IInv, NEW w, Protocol(w), core'.state = "RUN"
  PROVE  /\ enable
         /\ \/ /\ roundStart /\ ActivationDue
               /\ core'.current.valid /\ core'.current.round = roundId
               /\ ~core'.previous.valid
               /\ core'.commit = NoCommit
            \/ /\ ~roundStart /\ core.state = "RUN"
               /\ core'.current.valid = core.current.valid
               /\ core'.current.round = core.current.round
               /\ core'.previous.valid = core.previous.valid
               /\ core'.previous.round = core.previous.round
               /\ core'.commit = NoCommit
            \/ /\ roundStart /\ ~ActivationDue /\ core.state = "RUN"
               /\ core'.current.valid /\ core'.current.round = roundId
               /\ core'.previous.valid = core.current.valid
               /\ core'.previous.round = core.current.round
               /\ \/ ~core.previous.valid /\ core'.commit = NoCommit
                  \/ core.previous.valid /\ core'.commit.round = core.previous.round
<1>1. /\ core \in CoreRecords /\ TimeInv
      /\ NoCommit \in Commits
  BY NoCommitType DEF IInv, RecordInv
<1>2. \A c \in CoreRecords : Settle(c, w) => core' = c /\ enable
  BY <1>1, SettledStates
<1>3. CASE Activate(w) \/ Fill(w) \/ Commit(w)
  BY <1>2, <1>3, BoundaryRuns
<1>4. CASE Wait(w)
  <2> DEFINE c == [core EXCEPT !.commit = NoCommit,
                     !.state = IF @ = "IDLE" /\ pending THEN "WAIT_ACTIVATE" ELSE @]
  <2>1. Settle(c, w) /\ core.state # "RUN"
    BY <1>4 DEF Wait
  <2>2. c \in CoreRecords /\ c.state # "RUN"
    BY <1>1, <2>1 DEF CoreRecords, States
  <2> HIDE DEF c
  <2> QED
    BY <1>2, <2>1, <2>2
<1>5. ASSUME NEW p \in Acceptable \cup {NoPacket}, Collect(w, p)
      PROVE  /\ enable
             /\ ~roundStart /\ core.state = "RUN"
             /\ core'.current.valid = core.current.valid
             /\ core'.current.round = core.current.round
             /\ core'.previous.valid = core.previous.valid
             /\ core'.previous.round = core.previous.round
             /\ core'.commit = NoCommit
  BY <1>2, <1>5, CollectStep
<1>6. ASSUME NEW p \in Acceptable \cup {NoPacket}, Refuse(w, p)
      PROVE  FALSE
  BY <1>2, <1>6, RefuseStep
<1>7. ASSUME NEW p \in Acceptable \cup {NoPacket}, Halt(w, p)
      PROVE  FALSE
  BY <1>2, <1>7, HaltStep
<1> QED
  BY <1>3, <1>4, <1>5, <1>6, <1>7 DEF Protocol

\* What a halt leaves in the record, before the cycle settles.
HaltCase(c) ==
  /\ roundStart /\ core.previous.valid
  /\ c.halt = [reason |-> HaltReason, round |-> core.previous.round]

\* A running core goes to S_HALT through a failed evaluation only, unless time is lost.
LEMMA HaltingStep ==
  ASSUME IInv, NEW w, Protocol(w), core.state = "RUN"
  PROVE  \E c \in CoreRecords : Settle(c, w) /\ (c.state = "HALT" => HaltCase(c))
<1>1. ASSUME NEW p \in Acceptable \cup {NoPacket}, Halt(w, p)
      PROVE  \E c \in CoreRecords : Settle(c, w) /\ (c.state = "HALT" => HaltCase(c))
  <2>1. roundStart /\ core.previous.valid
    BY <1>1 DEF Halt, EvalHalts
  <2> QED
    BY <1>1, <2>1, HaltStep DEF HaltCase
<1>2. ASSUME NEW p \in Acceptable \cup {NoPacket}, Refuse(w, p)
      PROVE  \E c \in CoreRecords : Settle(c, w) /\ c.state # "HALT"
  BY <1>2, RefuseStep
<1>3. ASSUME NEW p \in Acceptable \cup {NoPacket}, Collect(w, p)
      PROVE  \E c \in CoreRecords : Settle(c, w) /\ c.state # "HALT"
  BY <1>3, CollectStep
<1>4. ASSUME Activate(w) \/ Fill(w) \/ Commit(w)
      PROVE  \E c \in CoreRecords : Settle(c, w) /\ c.state # "HALT"
  BY <1>4, BoundaryRuns
<1> QED
  BY <1>1, <1>2, <1>3, <1>4 DEF Protocol, Wait

-----------------------------------------------------------------------------
(* The invariant. *)

LEMMA InitTimeIInv == Init => TimeIInv
<1> SUFFICES ASSUME Init PROVE TimeIInv
  OBVIOUS
<1>1. IInv
  BY InitIInv
<1>2. 0 < SecondLength
  BY CoreTimingAssumption DEF SecondLength
<1>3. ClockInv
  BY <1>2 DEF Init, TimingInit, ClockInv
<1>4. StageInv
  BY DEF Init, ResetCore, StageInv
<1> QED
  BY <1>1, <1>3, <1>4 DEF TimeIInv

\* The stages follow the round registers.
LEMMA StageStep ==
  ASSUME TimeIInv, Cycle
  PROVE  StageInv'
<1> SUFFICES ASSUME core'.state = "RUN", ~missed' PROVE StageInv'
  BY DEF StageInv
<1>1. /\ IInv /\ ClockInv /\ StageInv
      /\ TimeInv /\ roundId \in Nat
      /\ core.current \in CurrentStages /\ core.previous \in PreviousStages
  BY TimeTypes DEF TimeIInv, IInv, RecordInv, CoreRecords
<1>2. /\ core.current.round \in Nat /\ core.previous.round \in Nat
      /\ core.current.valid \in BOOLEAN /\ core.previous.valid \in BOOLEAN
  BY <1>1, RoundIdsType DEF CurrentStages, PreviousStages
<1>3. PICK w \in Writes \cup {NoWrite} : Registers(w) /\ Protocol(w)
  BY DEF Cycle
<1>4. ~TimingLost /\ (missed => ActivateConsumed)
  BY DEF Cycle, Remember
<1>5. enable
  BY <1>1, <1>3, RunningStep
<1>6. Healthy
  BY <1>4, <1>5 DEF Healthy, TimingRunning, TimingLost
<1>7. Rounds /\ Remember
  BY DEF Cycle
<1>8. CASE roundStart /\ ActivationDue
  <2>1. /\ core'.current.valid /\ core'.current.round = roundId
        /\ ~core'.previous.valid
    BY <1>1, <1>3, <1>8, RunningStep
  <2>2. activatedAt' = roundId /\ lastCommit' = -1
    BY <1>7, <1>8 DEF Remember, ActivateConsumed
  <2>3. /\ armed' \/ roundStart'
        /\ roundId' = IF roundStart' THEN roundId + 1 ELSE roundId
    BY <1>1, <1>6, <1>7, <1>8, RoundAdvances
  <2> QED
    BY <1>1, <2>1, <2>2, <2>3 DEF StageInv, DueRound
<1>9. CASE ~(roundStart /\ ActivationDue)
  <2>1. ~ActivateConsumed /\ ~missed /\ core.state = "RUN"
    BY <1>1, <1>3, <1>4, <1>9, RunningStep DEF ActivateConsumed
  <2>2. /\ armed \/ roundStart
        /\ core.current.valid
        /\ core.current.round = IF roundStart THEN roundId - 1 ELSE roundId
        /\ core.previous.valid =>
             /\ core.previous.round = core.current.round - 1
             /\ core.previous.round = DueRound
        /\ ~core.previous.valid => lastCommit = -1 /\ core.current.round = DueRound
    BY <1>1, <2>1 DEF StageInv
  <2>3. /\ armed' \/ roundStart'
        /\ roundId' = IF roundStart' THEN roundId + 1 ELSE roundId
    BY <1>1, <1>6, <1>7, <2>2, RoundAdvances
  <2>4. /\ activatedAt' = activatedAt
        /\ lastCommit' = IF core'.commit # NoCommit THEN core'.commit.round
                                                   ELSE lastCommit
    BY <1>7, <2>1 DEF Remember
  <2>5. CASE ~roundStart
    <3>1. /\ core'.current.valid = core.current.valid
          /\ core'.current.round = core.current.round
          /\ core'.previous.valid = core.previous.valid
          /\ core'.previous.round = core.previous.round
          /\ core'.commit = NoCommit
      BY <1>1, <1>3, <2>5, RunningStep
    <3>2. DueRound' = DueRound /\ lastCommit' = lastCommit
      BY <2>4, <3>1 DEF DueRound
    <3> QED
      BY <1>1, <1>2, <2>2, <2>3, <2>5, <3>1, <3>2 DEF StageInv
  <2>6. CASE roundStart
    <3>1. /\ core'.current.valid /\ core'.current.round = roundId
          /\ core'.previous.valid = core.current.valid
          /\ core'.previous.round = core.current.round
          /\ \/ ~core.previous.valid /\ core'.commit = NoCommit
             \/ core.previous.valid /\ core'.commit.round = core.previous.round
      BY <1>1, <1>3, <1>9, <2>6, RunningStep
    <3>2. core.previous.valid => core'.commit # NoCommit
      BY <1>2, <3>1 DEF NoCommit
    <3>3. core'.previous.round = DueRound'
      BY <1>2, <2>2, <2>4, <3>1, <3>2 DEF DueRound
    <3> QED
      BY <1>1, <1>2, <2>2, <2>3, <2>6, <3>1, <3>3 DEF StageInv
  <2> QED
    BY <2>5, <2>6
<1> QED
  BY <1>8, <1>9

\* While the clock behaves, the registers name a round of the second they know and the
\* clock is in it or at its end; the stages are those of that round, and what the
\* core commits next is the round after its last commit.
THEOREM TimeInvariance == RoundLength >= 2 => (Spec => []TimeIInv)
<1> SUFFICES ASSUME RoundLength >= 2 PROVE Spec => []TimeIInv
  OBVIOUS
<1>1. Init => TimeIInv
  BY InitTimeIInv
<1>2. TimeIInv /\ [Next]_vars => TimeIInv'
  <2> SUFFICES ASSUME TimeIInv, [Next]_vars PROVE TimeIInv'
    OBVIOUS
  <2>1. CASE Cycle
    <3>1. IInv'
      BY <2>1, CycleIInv DEF TimeIInv
    <3>2. ClockInv'
      BY <2>1, RoundsStep DEF TimeIInv, IInv, Cycle
    <3>3. StageInv'
      BY <2>1, StageStep
    <3> QED
      BY <3>1, <3>2, <3>3 DEF TimeIInv
  <2>2. CASE UNCHANGED vars
    <3>1. IInv'
      BY <2>2 DEF vars, ptpVars, roundVars, csrVars, ghostVars, TimeIInv, IInv, TimeInv,
         TimingTypeOK, Aligned, SoftwareInv, RememberedInv, RecordInv, EvidenceInv, SoundEvidence, AskedInv
    <3>2. ClockInv'
      BY <2>2 DEF vars, ptpVars, roundVars, TimeIInv, ClockInv, Healthy, Follows,
         TimingRunning, TimeFault, SecondJumped, SecondChanged, TimeMovedBackward
    <3>3. StageInv'
      BY <2>2 DEF vars, ptpVars, roundVars, ghostVars, TimeIInv, StageInv, DueRound
    <3> QED
      BY <3>1, <3>2, <3>3 DEF TimeIInv
  <2> QED
    BY <2>1, <2>2 DEF Next, TimeIsUp
<1> QED
  BY <1>1, <1>2, PTL DEF Spec

-----------------------------------------------------------------------------
(* What follows from it. *)

\* A clock in a round of the second is in that round of the cluster.
LEMMA RoundOf ==
  ASSUME NEW s \in Nat, NEW n \in Nat, NEW k \in Nat,
         k * RoundLength <= n, n < k * RoundLength + RoundLength
  PROVE  RoundAt(s, n) = s * RoundsPerSecond + k
<1>1. RoundLength \in Nat \ {0} /\ k * RoundLength \in Nat
  BY CoreTimingAssumption
<1> DEFINE q == n \div RoundLength
<1>2. /\ q \in Int /\ n % RoundLength \in 0 .. RoundLength - 1
      /\ n = q * RoundLength + (n % RoundLength)
  BY <1>1, Division
<1> HIDE DEF q
<1>3. q * RoundLength + (n % RoundLength) = k * RoundLength + (n - k * RoundLength)
  BY <1>1, <1>2
<1>4. n - k * RoundLength \in 0 .. RoundLength - 1
  BY <1>1
<1>5. q = k
  <2> DEFINE same(a, r, b, t) == a * RoundLength + r = b * RoundLength + t
  <2>1. \A a, b, t \in Int : \A r \in 0 .. RoundLength - 1 :
          same(a, r, b, t) /\ t \in 0 .. RoundLength - 1 => a = b
    BY <1>1, Quotients
  <2>2. same(q, n % RoundLength, k, n - k * RoundLength)
    BY <1>3
  <2> HIDE DEF same
  <2> QED
    BY <1>2, <1>4, <2>1, <2>2
<1> QED
  BY <1>5 DEF RoundAt, q

\* An armed core knows the round of the PTP clock, whenever and however often it was
\* enabled, but for the cycle in which a boundary is being seen (core.v:419).
THEOREM AbsoluteRounds == RoundLength >= 2 => (Spec => []RoundIdIsAbsolute)
<1> SUFFICES ASSUME RoundLength >= 2 PROVE Spec => []RoundIdIsAbsolute
  OBVIOUS
<1>1. TimeIInv => RoundIdIsAbsolute
  <2> SUFFICES ASSUME TimeIInv, armed, TimingRunning, ~TimeFault
               PROVE  \/ roundId = RoundAt(sec, ns)
                      \/ roundId = RoundAt(sec, ns) - 1 /\ (BoundaryHit \/ SecondAdvanced)
    BY DEF RoundIdIsAbsolute
  <2>1. /\ sec \in Nat /\ ns \in Nat /\ prevSec \in Nat
        /\ RoundLength \in Nat \ {0} /\ RoundsPerSecond \in Nat \ {0}
        /\ SecondLength = RoundsPerSecond * RoundLength
        /\ Aligned /\ Follows
    BY CoreTimingAssumption, TimeTypes DEF TimeIInv, IInv, TimeInv, ClockInv, Healthy,
       SecondLength
  <2> HIDE DEF SecondLength
  <2>2. PICK k \in 0 .. RoundsPerSecond - 1 :
          roundBase = k * RoundLength /\ roundId = prevSec * RoundsPerSecond + k
    BY <2>1 DEF Aligned
  <2>3. k * RoundLength \in Nat /\ prevSec * RoundsPerSecond \in Nat
    BY <2>1, <2>2
  <2> DEFINE within(j, n) == j * RoundLength <= n /\ n < j * RoundLength + RoundLength
  <2>4. \A s, n, j \in Nat : within(j, n) => RoundAt(s, n) = s * RoundsPerSecond + j
    BY RoundOf
  <2>5. k \in Nat /\ k + 1 \in Nat
    BY <2>1
  <2>6. CASE sec = prevSec /\ ns < roundBase + RoundLength
    <3>1. roundBase <= ns
      BY <2>1, <2>2, <2>3, <2>6 DEF TimeFault, TimeMovedBackward, SecondChanged
    <3>2. within(k, ns)
      BY <2>2, <2>6, <3>1
    <3> HIDE DEF within
    <3> QED
      BY <2>1, <2>2, <2>6, <2>4, <2>5, <3>2
  <2>7. CASE sec = prevSec /\ ns = roundBase + RoundLength
    <3>1. (k + 1) * RoundLength = k * RoundLength + RoundLength
      BY <2>1, <2>2
    <3>2. RoundAt(sec, ns) = sec * RoundsPerSecond + (k + 1)
      <4>1. within(k + 1, ns)
        BY <2>1, <2>2, <2>3, <2>7, <3>1
      <4> HIDE DEF within
      <4> QED
        BY <2>1, <2>4, <2>5, <4>1
    <3>3. BoundaryHit
      BY <2>1, <2>2, <2>3, <2>7 DEF BoundaryHit
    <3> QED
      BY <2>2, <2>3, <2>7, <3>2, <3>3
  <2>8. CASE sec = prevSec + 1 /\ ns = 0 /\ roundBase + RoundLength = SecondLength
    <3>1. k = RoundsPerSecond - 1
      BY <2>1, <2>2, <2>8, RoundsOfSecond
    <3>2. RoundAt(sec, ns) = sec * RoundsPerSecond + 0
      <4>1. within(0, ns)
        BY <2>1, <2>8
      <4> HIDE DEF within
      <4> QED
        BY <2>1, <2>4, <4>1
    <3>3. (prevSec + 1) * RoundsPerSecond = prevSec * RoundsPerSecond + RoundsPerSecond
      BY <2>1
    <3>4. SecondAdvanced
      BY <2>8 DEF SecondAdvanced
    <3> QED
      BY <2>1, <2>2, <2>3, <2>8, <3>1, <3>2, <3>3, <3>4
  <2> QED
    BY <2>1, <2>2, <2>3, <2>6, <2>7, <2>8 DEF Follows
<1> QED
  BY <1>1, TimeInvariance, PTL

\* The stages a packet is filed under are those of the round it is compared with.
THEOREM StagesFollow == RoundLength >= 2 => (Spec => []StagesKeepStep)
<1> SUFFICES ASSUME RoundLength >= 2 PROVE Spec => []StagesKeepStep
  OBVIOUS
<1>1. TimeIInv => StagesKeepStep
  BY DEF TimeIInv, StageInv, StagesKeepStep
<1> QED
  BY <1>1, TimeInvariance, PTL

\* No round is skipped and none is committed twice (core.v:967-1005), from the
\* activation on, across the seconds and whatever the clock does in between.
THEOREM Contiguity == RoundLength >= 2 => (Spec => CommitsAreContiguous)
<1> SUFFICES ASSUME RoundLength >= 2 PROVE Spec => CommitsAreContiguous
  OBVIOUS
<1> DEFINE Contiguous == (core'.commit # NoCommit /\ core'.state = "RUN" /\ ~missed) =>
                         core'.commit.round = IF lastCommit = -1 THEN activatedAt
                                                                 ELSE lastCommit + 1
<1>1. TimeIInv /\ [Next]_vars => [Contiguous]_vars
  <2> SUFFICES ASSUME TimeIInv, Cycle,
                      core'.commit # NoCommit, core'.state = "RUN", ~missed
               PROVE  core'.commit.round = DueRound
    BY DEF Next, TimeIsUp, DueRound
  <2>1. IInv /\ StageInv
    BY DEF TimeIInv
  <2>2. PICK w \in Writes \cup {NoWrite} : Protocol(w)
    BY DEF Cycle
  <2>3. /\ core.state = "RUN" /\ core.previous.valid
        /\ core'.commit.round = core.previous.round
    BY <2>1, <2>2, RunningStep
  <2> QED
    BY <2>1, <2>3 DEF StageInv
<1>2. Spec => [][Contiguous]_vars
  BY <1>1, TimeInvariance, PTL DEF Spec
<1> QED
  BY <1>2 DEF CommitsAreContiguous

\* HALT_ROUND names the stage that failed, two rounds before the detection
\* (core.v:50, 962), or the round in which time was lost.
THEOREM HaltNaming == RoundLength >= 2 => (Spec => HaltNamesTheFailedStage)
<1> SUFFICES ASSUME RoundLength >= 2 PROVE Spec => HaltNamesTheFailedStage
  OBVIOUS
<1> DEFINE Named ==
      (core.state = "RUN" /\ core'.state = "HALT" /\ ~missed) =>
         core'.halt.round = IF core'.halt.reason = "time_fault" THEN roundId
                                                               ELSE roundId - 2
<1>1. TimeIInv /\ [Next]_vars => [Named]_vars
  <2> SUFFICES ASSUME TimeIInv, Cycle,
                      core.state = "RUN", core'.state = "HALT", ~missed
               PROVE  core'.halt.round = IF core'.halt.reason = "time_fault"
                                           THEN roundId ELSE roundId - 2
    BY DEF Next, TimeIsUp
  <2>1. IInv /\ StageInv /\ TimeInv
    BY DEF TimeIInv, IInv
  <2>2. PICK w \in Writes \cup {NoWrite} : Protocol(w)
    BY DEF Cycle
  <2>3. PICK c \in CoreRecords : Settle(c, w) /\ (c.state = "HALT" => HaltCase(c))
    BY <2>1, <2>2, HaltingStep
  <2>4. core' = AfterTimingLoss(c)
    BY <2>1, <2>3, SettledStates
  <2>5. CASE TimingLost
    <3>1. core'.halt = [reason |-> "time_fault", round |-> roundId]
      BY <2>3, <2>4, <2>5 DEF AfterTimingLoss, CoreRecords
    <3> QED
      BY <3>1
  <2>6. CASE ~TimingLost
    <3>1. core' = c
      BY <2>4, <2>6 DEF AfterTimingLoss
    <3>2. /\ roundStart /\ core.previous.valid
          /\ core'.halt = [reason |-> HaltReason, round |-> core.previous.round]
      BY <2>3, <3>1 DEF HaltCase
    <3>3. HaltReason # "time_fault"
      BY DEF HaltReason
    <3>4. core.previous.round = roundId - 2
      <4>1. core.previous.round = (roundId - 1) - 1
        BY <2>1, <3>2 DEF StageInv
      <4> QED
        BY <2>1, <4>1, TimeTypes
    <3> QED
      BY <3>2, <3>3, <3>4
  <2> QED
    BY <2>5, <2>6
<1>2. Spec => [][Named]_vars
  BY <1>1, TimeInvariance, PTL DEF Spec
<1> QED
  BY <1>2 DEF HaltNamesTheFailedStage
=============================================================================
