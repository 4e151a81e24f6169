------------------------------ MODULE CoreTiming ------------------------------
(***************************************************************************)
(* Section 2 of prototype/fpga/rtl/core.v: how a node turns PTP time into  *)
(* rounds, one clock cycle per step.                                       *)
(*                                                                         *)
(* round_id is a pure function of absolute time, which is why nodes agree  *)
(* on it without a protocol.  The registers only follow it: they arm at    *)
(* any moment, advance at the boundaries, realign at every second and let  *)
(* go of time at a fault.  A multiplication by ROUNDS_PER_SECOND sits      *)
(* behind a register, so the second used is that of the previous cycle.    *)
(*                                                                         *)
(* Abstractions: a round is RoundLength cycles long and PTP time advances  *)
(* by one unit per cycle; the transmit and receive windows, which are      *)
(* offsets into the round, and the statistics counters are left out.       *)
(* i_enable is tied to 1 (ssr_dataplane.v:676) and appears nowhere.        *)
(* next_boundary_ns_reg is round_base_ns_reg + ROUND_LENGTH_NS throughout  *)
(* and current_second_base_reg is previous_second_reg * ROUNDS_PER_SECOND. *)
(***************************************************************************)
EXTENDS Integers

CONSTANTS
  RoundLength,      \* ROUND_LENGTH_NS, in cycles
  RoundsPerSecond,  \* ROUNDS_PER_SECOND
  MaxSecond,        \* bound: time ends with this second
  Jumps,            \* bound: by how many cycles the clock may be off
  MaxFault          \* bound: how often the clock misbehaves

ASSUME CoreTimingAssumption ==
  /\ RoundLength \in Nat \ {0}
  /\ RoundsPerSecond \in Nat \ {0}
  /\ MaxSecond \in Nat
  /\ Jumps \subseteq Nat
  /\ MaxFault \in Nat

VARIABLES
  sec, ns,     \* i_ptp_tod_sec, i_ptp_tod_ns
  step,        \* i_ptp_step: the clock was stepped in this cycle
  valid,       \* i_ptp_time_valid
  enable,      \* control_enable_reg
  prevSec,     \* previous_second_reg
  armed,       \* timing_armed_reg
  roundId,     \* round_id_reg
  roundBase,   \* round_base_ns_reg
  roundStart,  \* round_start_pulse_reg
  faults       \* how often the clock has misbehaved

ptpVars == <<sec, ns, step, valid, faults>>
roundVars == <<prevSec, armed, roundId, roundBase, roundStart>>

Seconds == 0 .. MaxSecond

SecondLength == RoundsPerSecond * RoundLength

Offsets == 0 .. SecondLength - 1

RoundIds == 0 .. (MaxSecond + 2) * RoundsPerSecond

\* What round_id stands for.
RoundAt(s, n) == s * RoundsPerSecond + n \div RoundLength

TimingInit ==
  /\ sec = 0
  /\ ns = 0
  /\ step = FALSE
  /\ valid = TRUE
  /\ enable = FALSE
  /\ prevSec = sec
  /\ armed = FALSE
  /\ roundId = 0
  /\ roundBase = 0
  /\ roundStart = FALSE
  /\ faults = 0

TimingTypeOK ==
  /\ sec \in Seconds /\ ns \in Offsets
  /\ step \in BOOLEAN /\ valid \in BOOLEAN /\ enable \in BOOLEAN
  /\ prevSec \in Seconds
  /\ armed \in BOOLEAN
  /\ roundId \in RoundIds
  /\ roundBase \in Offsets
  /\ roundStart \in BOOLEAN
  /\ faults \in 0 .. MaxFault

-----------------------------------------------------------------------------
(* The wires. *)

TimingRunning == enable /\ valid

SecondChanged == sec # prevSec

SecondAdvanced == TimingRunning /\ sec = prevSec + 1

SecondJumped == TimingRunning /\ SecondChanged /\ sec # prevSec + 1

BoundaryHit == TimingRunning /\ armed /\ ns >= roundBase + RoundLength

TimeMovedBackward ==
  TimingRunning /\ armed /\ ns < roundBase /\ ~SecondChanged

TimeFault == TimingRunning /\ (step \/ SecondJumped \/ TimeMovedBackward)

\* MUTANT: only a lost lock stops the core.
LockLost == ~valid

TimingLost == TimeFault \/ ~valid

-----------------------------------------------------------------------------
(* The round registers; exactly one of these happens in a cycle. *)

Disarm ==
  /\ ~TimingRunning
  /\ armed' = FALSE
  /\ roundId' = 0
  /\ roundBase' = 0
  /\ roundStart' = FALSE

\* Give up the alignment; round_id_reg keeps its last value.
LetGo ==
  /\ TimeFault
  /\ armed' = FALSE
  /\ roundStart' = FALSE
  /\ UNCHANGED <<roundId, roundBase>>

\* MUTANT: the registered second is taken for the current one.
ArmAtOnce ==
  /\ TimingRunning /\ ~TimeFault /\ ~armed
  /\ armed' = TRUE
  /\ roundId' = RoundAt(prevSec, ns)
  /\ roundBase' = (ns \div RoundLength) * RoundLength
  /\ roundStart' = FALSE

\* MUTANT: the base of the next round is taken.
ArmAhead ==
  /\ TimingRunning /\ ~TimeFault /\ ~armed
  /\ ~SecondChanged
  /\ armed' = TRUE
  /\ roundId' = RoundAt(prevSec, ns)
  /\ roundBase' = (ns \div RoundLength + 1) * RoundLength
  /\ roundStart' = FALSE

\* Align to absolute time, in the middle of a round: no pulse is due.
Arm ==
  /\ TimingRunning /\ ~TimeFault /\ ~armed
  /\ ~SecondChanged
  /\ armed' = TRUE
  /\ roundId' = RoundAt(prevSec, ns)
  /\ roundBase' = (ns \div RoundLength) * RoundLength
  /\ roundStart' = FALSE

Rollover ==
  /\ ~TimeFault
  /\ SecondAdvanced
  /\ roundId' = (prevSec + 1) * RoundsPerSecond
  /\ roundBase' = 0
  /\ roundStart' = TRUE
  /\ UNCHANGED armed

Advance ==
  /\ ~TimeFault /\ ~SecondChanged
  /\ BoundaryHit
  /\ roundId' = roundId + 1
  /\ roundBase' = roundBase + RoundLength
  /\ roundStart' = TRUE
  /\ UNCHANGED armed

InRound ==
  /\ TimingRunning /\ ~TimeFault /\ armed /\ ~SecondChanged
  /\ ~BoundaryHit
  /\ roundStart' = FALSE
  /\ UNCHANGED <<armed, roundId, roundBase>>

Rounds ==
  /\ prevSec' = sec
  /\ Disarm \/ LetGo \/ Arm \/ Rollover \/ Advance \/ InRound

-----------------------------------------------------------------------------
(* The PTP clock, as the next cycle will see it. *)

\* Time moves on by d, which may be negative, and stays within its bounds.
MovesBy(d) ==
  LET t == sec * SecondLength + ns + d
  IN  /\ t >= 0
      /\ sec' = t \div SecondLength
      /\ ns' = t % SecondLength
      /\ sec' \in Seconds

GoodTime ==
  /\ MovesBy(1)
  /\ step' = FALSE /\ valid' = TRUE
  /\ UNCHANGED faults

\* The clock is set; Corundum flags it.
SteppedTime ==
  /\ faults < MaxFault
  /\ \E d \in Jumps : MovesBy(d) \/ MovesBy(-d)
  /\ step' = TRUE /\ valid' = TRUE
  /\ faults' = faults + 1

\* Time moves backwards, and nothing says so.
BackwardTime ==
  /\ faults < MaxFault
  /\ \E d \in Jumps : MovesBy(-d)
  /\ step' = FALSE /\ valid' = TRUE
  /\ faults' = faults + 1

LostLock ==
  /\ faults < MaxFault
  /\ MovesBy(1)
  /\ step' = FALSE /\ valid' = FALSE
  /\ faults' = faults + 1

TimeLeft == sec < MaxSecond \/ ns + 1 \in Offsets

PtpClock == TimeLeft /\ (GoodTime \/ SteppedTime \/ BackwardTime \/ LostLock)
=============================================================================
