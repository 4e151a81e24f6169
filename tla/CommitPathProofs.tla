--------------------------- MODULE CommitPathProofs ---------------------------
(***************************************************************************)
(* Proofs about CommitPath, for buffers and rings of any size and any      *)
(* number of commits, restarts and failed writes.                          *)
(*                                                                         *)
(* What keeps the driver and the engine apart is one bit per buffer: the   *)
(* engine works in an armed buffer only and disarms it when it is full,    *)
(* the driver reads full buffers only, and no command can reach a buffer   *)
(* that is being read but the driver's own, because start() cannot be      *)
(* under way while run() is.                                               *)
(*                                                                         *)
(* What keeps the records in order is that of the two buffers one is older *)
(* and read first, and that what start() clears under the engine is never  *)
(* delivered, rather than delivered twice.                                 *)
(***************************************************************************)
EXTENDS CommitPath, TLAPS

Working == {"WAIT_SLOT", "ISSUE_DMA", "WAIT_DMA", "POP_SLOT"}

RegistersOK ==
  /\ writer.state \in States
  /\ writer.active \in Buffer
  /\ writer = [state |-> writer.state, active |-> writer.active,
               stopping |-> writer.stopping, to |-> writer.to]
  /\ buffer \in [Buffer -> [armed : BOOLEAN, done : BOOLEAN, count : Nat]]

\* A buffer is full exactly when it is done, and then the engine has given it up.
FullIsDone ==
  \A b \in Buffer :
    /\ buffer[b].done => ~buffer[b].armed /\ buffer[b].count = Capacity
    /\ ~buffer[b].done => buffer[b].count < Capacity

WorksInArmed == writer.state \in Working => buffer[writer.active].armed

TaskOK == task \in [at : TaskSteps, buffer : Buffer, count : Nat]

TaskHolds ==
  /\ task.at \in {"count", "copy", "clear"} => buffer[task.buffer].done
  /\ task.at = "arm" => /\ ~buffer[task.buffer].armed
                        /\ buffer[task.buffer].count = 0

\* run() lives while the device runs, and stop() alone is called then.
TaskAlone ==
  task.at # "none" =>
    /\ device = "RUNNING"
    /\ call \in {<<>>, <<StopEngine, StopReturns>>, <<StopReturns>>}

RunningCalls ==
  device = "RUNNING" =>
    call \in {<<>>, <<StopEngine, StopReturns>>, <<StopReturns>>}

IInv ==
  /\ RegistersOK
  /\ FullIsDone
  /\ WorksInArmed
  /\ TaskOK
  /\ TaskHolds
  /\ TaskAlone
  /\ RunningCalls

-----------------------------------------------------------------------------

\* Commands are told apart by what they do.
LEMMA CommandsDiffer ==
  \A b \in Buffer :
    /\ StopEngine \notin {Clear(b), Arm(b)}
    /\ NoCommand \notin {Clear(b), Arm(b)}
    /\ Clear(b) # Arm(b)
    /\ \A o \in Buffer : o # b => Clear(o) \notin {Clear(b), Arm(b)}
    /\ \A o \in Buffer : o # b => Arm(o) \notin {Clear(b), Arm(b)}
PROOF
  <1> SUFFICES ASSUME NEW b \in Buffer
      PROVE  /\ StopEngine \notin {Clear(b), Arm(b)}
             /\ NoCommand \notin {Clear(b), Arm(b)}
             /\ Clear(b) # Arm(b)
             /\ \A o \in Buffer : o # b => Clear(o) \notin {Clear(b), Arm(b)}
             /\ \A o \in Buffer : o # b => Arm(o) \notin {Clear(b), Arm(b)}
    OBVIOUS
  <1>1. /\ Clear(b).does = "clear" /\ Arm(b).does = "arm"
        /\ StopEngine.does = "stop" /\ NoCommand.does = "nothing"
    BY DEF Clear, Arm, StopEngine, NoCommand
  <1>2. \A o \in Buffer : /\ Clear(o).does = "clear" /\ Clear(o).buffer = o
                          /\ Arm(o).does = "arm" /\ Arm(o).buffer = o
    BY DEF Clear, Arm
  <1> QED  BY <1>1, <1>2

\* What a command alone makes of the registers of the buffers.
LEMMA CommandedRegisters ==
  ASSUME RegistersOK, FullIsDone, NEW c
  PROVE  /\ Commanded(c) \in [Buffer -> [armed : BOOLEAN, done : BOOLEAN, count : Nat]]
         /\ \A b \in Buffer :
              /\ buffer[b].armed => Commanded(c)[b].armed
              /\ Commanded(c)[b].done =>
                   ~Commanded(c)[b].armed /\ Commanded(c)[b].count = Capacity
              /\ ~Commanded(c)[b].done => Commanded(c)[b].count < Capacity
              /\ c \notin {Clear(b), Arm(b)} => Commanded(c)[b] = buffer[b]
PROOF
  <1>1. Capacity \in Nat \ {0}
    BY CommitPathAssumption
  <1>2. ASSUME NEW b \in Buffer
        PROVE  /\ Commanded(c)[b] \in [armed : BOOLEAN, done : BOOLEAN, count : Nat]
               /\ buffer[b].armed => Commanded(c)[b].armed
               /\ Commanded(c)[b].done =>
                    ~Commanded(c)[b].armed /\ Commanded(c)[b].count = Capacity
               /\ ~Commanded(c)[b].done => Commanded(c)[b].count < Capacity
               /\ c \notin {Clear(b), Arm(b)} => Commanded(c)[b] = buffer[b]
    <2> DEFINE reset == [armed |-> buffer[b].armed \/ c = Arm(b), done |-> FALSE, count |-> 0]
    <2>1. buffer[b] \in [armed : BOOLEAN, done : BOOLEAN, count : Nat]
      BY <1>2 DEF RegistersOK
    <2>2. reset \in [armed : BOOLEAN, done : BOOLEAN, count : Nat]
      BY <2>1
    <2>3. CASE c \in {Clear(b), Arm(b)}
      <3>1. Commanded(c)[b] = reset
        BY <2>3, <1>2 DEF Commanded
      <3> QED  BY <3>1, <2>1, <2>2, <2>3, <1>1
    <2>4. CASE c \notin {Clear(b), Arm(b)}
      <3>1. Commanded(c)[b] = buffer[b]
        BY <2>4, <1>2 DEF Commanded
      <3> QED  BY <3>1, <2>1, <2>4, <1>2 DEF FullIsDone
    <2> QED  BY <2>3, <2>4
  <1>3. Commanded(c) = [b \in Buffer |-> Commanded(c)[b]]
    BY DEF Commanded
  <1> QED  BY <1>2, <1>3

\* A cycle keeps the engine within armed buffers, and touches no other.
LEMMA CycleKeeps ==
  ASSUME RegistersOK, FullIsDone, WorksInArmed, NEW c, Cycle(c)
  PROVE  /\ RegistersOK' /\ FullIsDone' /\ WorksInArmed'
         /\ \A b \in Buffer : ~buffer[b].armed => buffer'[b] = Commanded(c)[b]
PROOF
  <1> USE DEF RegistersOK, Working, States
  <1>c. /\ Commanded(c) \in [Buffer -> [armed : BOOLEAN, done : BOOLEAN, count : Nat]]
        /\ \A b \in Buffer :
             /\ buffer[b].armed => Commanded(c)[b].armed
             /\ Commanded(c)[b].done =>
                  ~Commanded(c)[b].armed /\ Commanded(c)[b].count = Capacity
             /\ ~Commanded(c)[b].done => Commanded(c)[b].count < Capacity
    BY CommandedRegisters
  <1>g. ASSUME NEW s \in States, writer' = [writer EXCEPT !.state = s]
        PROVE  /\ writer'.state = s /\ writer'.active = writer.active
               /\ writer' = [state |-> writer'.state, active |-> writer'.active,
                             stopping |-> writer'.stopping, to |-> writer'.to]
    BY <1>g
  <1>i. ASSUME ToIdle
        PROVE  /\ writer'.state = "IDLE" /\ writer'.active = writer.active
               /\ writer' = [state |-> writer'.state, active |-> writer'.active,
                             stopping |-> writer'.stopping, to |-> writer'.to]
    BY <1>i DEF ToIdle
  \* Every step but the pop: the commands alone change the buffers.
  <1>q. ASSUME buffer' = Commanded(c),
               writer'.state \in States, writer'.active = writer.active,
               writer' = [state |-> writer'.state, active |-> writer'.active,
                          stopping |-> writer'.stopping, to |-> writer'.to],
               writer'.state \in Working => buffer[writer.active].armed
        PROVE  /\ RegistersOK' /\ FullIsDone' /\ WorksInArmed'
               /\ \A b \in Buffer : ~buffer[b].armed => buffer'[b] = Commanded(c)[b]
    <2>1. RegistersOK'
      BY <1>q, <1>c
    <2>2. FullIsDone'
      BY <1>q, <1>c DEF FullIsDone
    <2>3. WorksInArmed'
      BY <1>q, <1>c DEF WorksInArmed
    <2> QED  BY <2>1, <2>2, <2>3, <1>q
  <1>1. CASE Idle(c)
    <2>1. \/ writer'.state = "IDLE"
          \/ writer'.state = "WAIT_BUFFER"
      BY <1>1, <1>g, <1>i DEF Idle, Goto
    <2>2. /\ writer'.active = writer.active
          /\ writer' = [state |-> writer'.state, active |-> writer'.active,
                        stopping |-> writer'.stopping, to |-> writer'.to]
      BY <1>1, <1>g, <1>i DEF Idle, Goto
    <2>3. buffer' = Commanded(c)
      BY <1>1 DEF Idle
    <2> QED  BY <2>1, <2>2, <2>3, <1>q
  <1>2. CASE WaitBuffer(c)
    <2>1. /\ buffer' = Commanded(c)
          /\ \/ ToIdle
             \/ Goto("WAIT_BUFFER")
             \/ Goto("WAIT_SLOT") /\ buffer[writer.active].armed
      BY <1>2 DEF WaitBuffer, ActiveReady
    <2>2. CASE ToIdle
      BY <2>1, <2>2, <1>i, <1>q
    <2>3. CASE Goto("WAIT_BUFFER")
      BY <2>1, <2>3, <1>g, <1>q DEF Goto
    <2>4. CASE Goto("WAIT_SLOT") /\ buffer[writer.active].armed
      BY <2>1, <2>4, <1>g, <1>q DEF Goto
    <2> QED  BY <2>1, <2>2, <2>3, <2>4
  <1>3. CASE WaitSlot(c)
    <2>0. buffer' = Commanded(c) /\ buffer[writer.active].armed
      BY <1>3 DEF WaitSlot, WorksInArmed
    <2>1. CASE ToIdle
      BY <2>0, <2>1, <1>i, <1>q
    <2>2. CASE Goto("WAIT_BUFFER")
      BY <2>0, <2>2, <1>g, <1>q DEF Goto
    <2>3. CASE UNCHANGED writer
      BY <2>0, <2>3, <1>q
    <2>4. CASE writer' = [writer EXCEPT !.state = "ISSUE_DMA",
                                        !.to = buffer[writer.active].count]
      BY <2>0, <2>4, <1>q
    <2> QED  BY <1>3, <2>1, <2>2, <2>3, <2>4 DEF WaitSlot
  <1>4. CASE IssueDma(c)
    <2>0. buffer' = Commanded(c) /\ buffer[writer.active].armed
      BY <1>4 DEF IssueDma, WorksInArmed
    <2>1. CASE ToIdle
      BY <2>0, <2>1, <1>i, <1>q
    <2>2. CASE UNCHANGED writer
      BY <2>0, <2>2, <1>q
    <2>3. CASE writer' = [writer EXCEPT !.state = "WAIT_DMA", !.stopping = Stopping(c)]
      BY <2>0, <2>3, <1>q
    <2> QED  BY <1>4, <2>1, <2>2, <2>3 DEF IssueDma
  <1>5. CASE WaitDma(c)
    <2>0. buffer' = Commanded(c) /\ buffer[writer.active].armed
      BY <1>5 DEF WaitDma, WorksInArmed
    <2>1. CASE writer' = [writer EXCEPT !.stopping = Stopping(c)]
      BY <2>0, <2>1, <1>q
    <2>2. CASE writer' = [writer EXCEPT !.state = "POP_SLOT", !.stopping = Stopping(c)]
      BY <2>0, <2>2, <1>q
    <2>3. CASE writer' = [writer EXCEPT !.state = "ERROR", !.stopping = FALSE]
      BY <2>0, <2>3, <1>q
    <2> QED  BY <1>5, <2>1, <2>2, <2>3 DEF WaitDma
  <1>6. CASE PopSlot(c)
    <2> DEFINE active == writer.active
               count  == buffer[active].count + 1
               full   == count >= Capacity
    <2>1. /\ writer.state = "POP_SLOT"
          /\ writer' = [writer EXCEPT !.stopping = Stopping(c),
                                      !.active = IF full THEN 1 - active ELSE active,
                                      !.state = IF full THEN "WAIT_BUFFER" ELSE "WAIT_SLOT"]
          /\ buffer' = [Commanded(c) EXCEPT
                          ![active] = [armed |-> @.armed /\ ~full,
                                       done |-> @.done \/ full, count |-> count]]
      BY <1>6 DEF PopSlot
    <2>2. Capacity \in Nat \ {0}
      BY CommitPathAssumption
    <2>3. active \in Buffer /\ buffer[active].armed /\ ~buffer[active].done
          /\ buffer[active] \in [armed : BOOLEAN, done : BOOLEAN, count : Nat]
      BY <2>1 DEF WorksInArmed, FullIsDone
    <2>4. count \in Nat /\ count <= Capacity /\ (full <=> count = Capacity)
      BY <2>2, <2>3 DEF FullIsDone
    <2>5. /\ Commanded(c)[active] \in [armed : BOOLEAN, done : BOOLEAN, count : Nat]
          /\ Commanded(c)[active].armed /\ ~Commanded(c)[active].done
      BY <1>c, <2>3
    <2>6. /\ buffer' \in [Buffer -> [armed : BOOLEAN, done : BOOLEAN, count : Nat]]
          /\ \A b \in Buffer : b # active => buffer'[b] = Commanded(c)[b]
          /\ buffer'[active] = [armed |-> ~full, done |-> full, count |-> count]
      <3> HIDE DEF count, full
      <3>1. buffer' = [b \in Buffer |->
                         IF b = active
                         THEN [armed |-> Commanded(c)[active].armed /\ ~full,
                               done |-> Commanded(c)[active].done \/ full,
                               count |-> count]
                         ELSE Commanded(c)[b]]
        BY <2>1, <1>c
      <3>2. [armed |-> Commanded(c)[active].armed /\ ~full,
             done |-> Commanded(c)[active].done \/ full, count |-> count]
            = [armed |-> ~full, done |-> full, count |-> count]
        <4>1. CASE full
          <5>1. (Commanded(c)[active].armed /\ ~full) = FALSE /\ (~full) = FALSE
            BY <4>1
          <5>2. (Commanded(c)[active].done \/ full) = TRUE /\ full = TRUE
            BY <4>1 DEF full
          <5> QED  BY <5>1, <5>2
        <4>2. CASE ~full
          <5>1. (Commanded(c)[active].armed /\ ~full) = TRUE /\ (~full) = TRUE
            BY <4>2, <2>5
          <5>2. (Commanded(c)[active].done \/ full) = FALSE /\ full = FALSE
            BY <4>2, <2>5 DEF full
          <5> QED  BY <5>1, <5>2
        <4> QED  BY <4>1, <4>2
      <3>3. full \in BOOLEAN
        BY DEF full
      <3>4. [armed |-> ~full, done |-> full, count |-> count]
              \in [armed : BOOLEAN, done : BOOLEAN, count : Nat]
        BY <3>3, <2>4
      <3> QED  BY <3>1, <3>2, <3>4, <1>c, <2>3
    <2>7. /\ writer'.state = (IF full THEN "WAIT_BUFFER" ELSE "WAIT_SLOT")
          /\ writer'.active = (IF full THEN 1 - active ELSE active)
          /\ writer' = [state |-> writer'.state, active |-> writer'.active,
                        stopping |-> writer'.stopping, to |-> writer'.to]
      BY <2>1
    <2>8. RegistersOK'
      BY <2>3, <2>6, <2>7 DEF Buffer
    <2>9. FullIsDone'
      <3> SUFFICES ASSUME NEW b \in Buffer
          PROVE  /\ buffer'[b].done => ~buffer'[b].armed /\ buffer'[b].count = Capacity
                 /\ ~buffer'[b].done => buffer'[b].count < Capacity
        BY DEF FullIsDone
      <3> HIDE DEF count, full
      <3>1. CASE b = active
        BY <3>1, <2>2, <2>4, <2>6
      <3>2. CASE b # active
        BY <3>2, <2>6, <1>c
      <3> QED  BY <3>1, <3>2
    <2>10. WorksInArmed'
      BY <2>6, <2>7 DEF WorksInArmed
    <2> QED  BY <2>3, <2>6, <2>8, <2>9, <2>10
  <1>7. CASE LeaveError(c)
    BY <1>7, <1>i, <1>q DEF LeaveError
  <1> QED  BY <1>1, <1>2, <1>3, <1>4, <1>5, <1>6, <1>7 DEF Cycle

-----------------------------------------------------------------------------

\* No buffer that the task holds is commanded by anybody else: it keeps holding it.
LEMMA CycleKeepsHold ==
  ASSUME IInv, NEW c, Cycle(c), task' = task,
         task.at # "none" => c \in {NoCommand, StopEngine}
  PROVE  TaskHolds'
PROOF
  <1> DEFINE tb == task.buffer
  <1>1. tb \in Buffer
    BY DEF IInv, TaskOK
  <1>2. ASSUME ~buffer[tb].armed, task.at # "none"
        PROVE  buffer'[tb] = buffer[tb]
    <2>1. buffer'[tb] = Commanded(c)[tb]
      BY <1>1, <1>2, CycleKeeps DEF IInv
    <2>2. c \notin {Clear(tb), Arm(tb)}
      BY <1>1, <1>2, CommandsDiffer
    <2>3. Commanded(c)[tb] = buffer[tb]
      BY <1>1, <2>2, CommandedRegisters DEF IInv
    <2> QED  BY <2>1, <2>3
  <1>3. CASE task.at \in {"count", "copy", "clear"}
    <2>1. buffer[tb].done /\ ~buffer[tb].armed
      BY <1>1, <1>3 DEF IInv, TaskHolds, FullIsDone
    <2>2. buffer'[tb] = buffer[tb]
      BY <1>2, <1>3, <2>1
    <2> QED  BY <1>3, <2>1, <2>2 DEF TaskHolds
  <1>4. CASE task.at = "arm"
    <2>1. ~buffer[tb].armed /\ buffer[tb].count = 0
      BY <1>4 DEF IInv, TaskHolds
    <2>2. buffer'[tb] = buffer[tb]
      BY <1>2, <1>4, <2>1
    <2> QED  BY <1>4, <2>1, <2>2 DEF TaskHolds
  <1> QED  BY <1>3, <1>4 DEF TaskHolds

\* The calls that may be under way while the device runs are none of start()'s.
LEMMA CallsDiffer ==
  /\ <<StartReturns>> \notin {<<>>, <<StopEngine, StopReturns>>, <<StopReturns>>}
  /\ Len(<<>>) = 0 /\ Len(<<StopReturns>>) = 1
  /\ Head(<<StopEngine, StopReturns>>) = StopEngine
  /\ Tail(<<StopEngine, StopReturns>>) = <<StopReturns>>
PROOF
  <1>1. StartReturns # StopReturns
    <2>1. StartReturns.does = "start returns" /\ StopReturns.does = "stop returns"
      BY DEF StartReturns, StopReturns
    <2> QED  BY <2>1
  <1> QED  BY <1>1

\* At the start both buffers are empty and nobody holds them.
LEMMA InitIInv == Init => IInv
PROOF
  <1> SUFFICES ASSUME Init PROVE IInv
    OBVIOUS
  <1>1. Capacity \in Nat \ {0}
    BY CommitPathAssumption
  <1>2. RegistersOK
    BY DEF Init, RegistersOK, States, Buffer
  <1>3. FullIsDone
    BY <1>1 DEF Init, FullIsDone
  <1>4. WorksInArmed
    BY DEF Init, WorksInArmed, Working
  <1>5. TaskOK
    BY DEF Init, TaskOK, NoTask, TaskSteps, Buffer
  <1>6. TaskHolds /\ TaskAlone /\ RunningCalls
    BY DEF Init, TaskHolds, TaskAlone, RunningCalls, NoTask
  <1> QED  BY <1>2, <1>3, <1>4, <1>5, <1>6 DEF IInv

\* Each step keeps the invariant: the three that move the engine by CycleKeeps,
\* the others because they touch neither its registers nor a call of stop().
LEMMA NextIInv == IInv /\ [Next]_vars => IInv'
PROOF
  <1> SUFFICES ASSUME IInv, [Next]_vars PROVE IInv'
    OBVIOUS
  <1> DEFINE Quiet == UNCHANGED hardware
             Runs == {<<>>, <<StopEngine, StopReturns>>, <<StopReturns>>}
  <1>r. ASSUME Quiet
        PROVE  RegistersOK' /\ FullIsDone' /\ WorksInArmed'
    BY <1>r DEF hardware, IInv, RegistersOK, FullIsDone, WorksInArmed
  <1>h. ASSUME Quiet, UNCHANGED <<task, device, call>>
        PROVE  IInv'
    <2>1. TaskOK' /\ TaskHolds' /\ TaskAlone' /\ RunningCalls'
      BY <1>h DEF hardware, IInv, TaskOK, TaskHolds, TaskAlone, RunningCalls
    <2> QED  BY <1>h, <1>r, <2>1 DEF IInv
  <1>n. ASSUME Quiet, task' = task, device # "RUNNING", device' # "RUNNING"
        PROVE  IInv'
    <2>1. task.at = "none"
      BY <1>n DEF IInv, TaskAlone
    <2>2. TaskOK' /\ TaskHolds' /\ TaskAlone' /\ RunningCalls'
      BY <1>n, <2>1 DEF IInv, TaskOK, TaskHolds, TaskAlone, RunningCalls
    <2> QED  BY <1>n, <1>r, <2>2 DEF IInv
  <1>1. CASE Arrive
    <2>1. UNCHANGED <<writer, buffer, task, device, call>>
      BY <1>1 DEF Arrive
    <2>2. RegistersOK' /\ FullIsDone' /\ WorksInArmed'
      BY <2>1 DEF IInv, RegistersOK, FullIsDone, WorksInArmed
    <2>3. TaskOK' /\ TaskHolds' /\ TaskAlone' /\ RunningCalls'
      BY <2>1 DEF IInv, TaskOK, TaskHolds, TaskAlone, RunningCalls
    <2> QED  BY <2>2, <2>3 DEF IInv
  <1>2. CASE Engine
    <2>1. Cycle(NoCommand) /\ UNCHANGED <<task, device, call>>
      BY <1>2 DEF Engine
    <2>2. RegistersOK' /\ FullIsDone' /\ WorksInArmed'
      BY <2>1, CycleKeeps DEF IInv
    <2>3. TaskHolds'
      BY <2>1, CycleKeepsHold
    <2>4. TaskOK' /\ TaskAlone' /\ RunningCalls'
      BY <2>1 DEF IInv, TaskOK, TaskAlone, RunningCalls
    <2> QED  BY <2>2, <2>3, <2>4 DEF IInv
  <1>3. CASE Open
    <2>1. /\ UNCHANGED <<writer, buffer, task, call>>
          /\ device = "PROBED" /\ device' = "OPENED"
      BY <1>3 DEF Open
    <2>2. RegistersOK' /\ FullIsDone' /\ WorksInArmed'
      BY <2>1 DEF IInv, RegistersOK, FullIsDone, WorksInArmed
    <2>3. task.at = "none"
      BY <2>1 DEF IInv, TaskAlone
    <2>4. TaskOK' /\ TaskHolds' /\ TaskAlone' /\ RunningCalls'
      BY <2>1, <2>3 DEF IInv, TaskOK, TaskHolds, TaskAlone, RunningCalls
    <2> QED  BY <2>2, <2>4 DEF IInv
  <1>4. CASE Close
    BY <1>4, <1>n DEF Close
  <1>5. CASE Start
    BY <1>5, <1>n DEF Start
  <1>6. CASE Stop
    <2>1. /\ Quiet /\ UNCHANGED <<task, device>>
          /\ device = "RUNNING" /\ call' = <<StopEngine, StopReturns>>
      BY <1>6 DEF Stop
    <2>2. TaskOK' /\ TaskHolds' /\ TaskAlone' /\ RunningCalls'
      BY <2>1 DEF hardware, IInv, TaskOK, TaskHolds, TaskAlone, RunningCalls
    <2> QED  BY <1>r, <2>1, <2>2 DEF IInv
  <1>7. CASE CallWrites
    <2>1. /\ Len(call) > 1 /\ Cycle(Head(call)) /\ call' = Tail(call)
          /\ UNCHANGED <<task, device>>
      BY <1>7 DEF CallWrites
    <2>2. device = "RUNNING" => call = <<StopEngine, StopReturns>>
      <3> SUFFICES ASSUME device = "RUNNING" PROVE call = <<StopEngine, StopReturns>>
        OBVIOUS
      <3>1. call \in Runs
        BY DEF IInv, RunningCalls
      <3>2. call # <<>> /\ call # <<StopReturns>>
        BY <2>1
      <3> QED  BY <3>1, <3>2
    <2>3. RegistersOK' /\ FullIsDone' /\ WorksInArmed'
      BY <2>1, CycleKeeps DEF IInv
    <2>4. task.at # "none" => Head(call) = StopEngine
      BY <2>2, CallsDiffer DEF IInv, TaskAlone
    <2>5. TaskHolds'
      BY <2>1, <2>4, CycleKeepsHold
    <2>6. TaskOK' /\ TaskAlone' /\ RunningCalls'
      BY <2>1, <2>2, CallsDiffer DEF IInv, TaskOK, TaskAlone, RunningCalls
    <2> QED  BY <2>3, <2>5, <2>6 DEF IInv
  <1>8. CASE StartEnds
    <2>1. /\ Quiet /\ task' = PollTask(0)
          /\ device' = "RUNNING" /\ call' = <<>>
      BY <1>8 DEF StartEnds
    <2>2. TaskOK' /\ TaskHolds' /\ TaskAlone' /\ RunningCalls'
      BY <2>1 DEF TaskOK, TaskHolds, TaskAlone, RunningCalls, PollTask, TaskSteps, Buffer
    <2> QED  BY <1>r, <2>1, <2>2 DEF IInv
  <1>9. CASE StopEnds
    <2>1. /\ Quiet /\ task' = NoTask /\ device' = "OPENED"
      BY <1>9 DEF StopEnds
    <2>2. TaskOK' /\ TaskHolds' /\ TaskAlone' /\ RunningCalls'
      BY <2>1 DEF TaskOK, TaskHolds, TaskAlone, RunningCalls, NoTask, TaskSteps, Buffer
    <2> QED  BY <1>r, <2>1, <2>2 DEF IInv
  <1>10. CASE Poll
    <2>1. /\ Quiet /\ UNCHANGED <<device, call>> /\ task.at = "poll"
          /\ task' = IF buffer[task.buffer].done THEN [task EXCEPT !.at = "count"]
                     ELSE PollTask(1 - task.buffer)
      BY <1>10 DEF Poll, RawStatus
    <2>2. TaskOK'
      BY <2>1 DEF IInv, TaskOK, PollTask, TaskSteps, Buffer
    <2>3. TaskHolds'
      BY <2>1 DEF hardware, IInv, TaskOK, TaskHolds, PollTask
    <2>4. TaskAlone' /\ RunningCalls'
      BY <2>1 DEF IInv, TaskAlone, RunningCalls
    <2> QED  BY <1>r, <2>1, <2>2, <2>3, <2>4 DEF IInv
  <1>11. CASE ReadCount
    <2>1. /\ Quiet /\ UNCHANGED <<device, call>> /\ task.at = "count"
          /\ task' = [task EXCEPT !.at = "copy", !.count = buffer[task.buffer].count]
      BY <1>11 DEF ReadCount, CompletedCount
    <2>2. TaskOK'
      BY <2>1 DEF IInv, TaskOK, RegistersOK, TaskSteps
    <2>3. TaskHolds'
      BY <2>1 DEF hardware, IInv, TaskOK, TaskHolds
    <2>4. TaskAlone' /\ RunningCalls'
      BY <2>1 DEF IInv, TaskAlone, RunningCalls
    <2> QED  BY <1>r, <2>1, <2>2, <2>3, <2>4 DEF IInv
  <1>12. CASE CopySlots
    <2>1. /\ Quiet /\ UNCHANGED <<device, call>> /\ task.at = "copy"
          /\ task' = [task EXCEPT !.at = "clear", !.count = 0]
      BY <1>12 DEF CopySlots
    <2>2. TaskOK'
      BY <2>1 DEF IInv, TaskOK, TaskSteps
    <2>3. TaskHolds'
      BY <2>1 DEF hardware, IInv, TaskOK, TaskHolds
    <2>4. TaskAlone' /\ RunningCalls'
      BY <2>1 DEF IInv, TaskAlone, RunningCalls
    <2> QED  BY <1>r, <2>1, <2>2, <2>3, <2>4 DEF IInv
  <1>13. CASE Release
    <2>0. UNCHANGED <<device, call>> /\ task.buffer \in Buffer
      BY <1>13 DEF Release, IInv, TaskOK
    <2>1. CASE /\ task.at = "clear" /\ Cycle(Clear(task.buffer))
               /\ task' = [task EXCEPT !.at = "arm"]
      <3> DEFINE tb == task.buffer
      <3>1. RegistersOK' /\ FullIsDone' /\ WorksInArmed'
        BY <2>1, CycleKeeps DEF IInv
      <3>2. ~buffer[tb].armed
        BY <2>0, <2>1 DEF IInv, TaskHolds, FullIsDone
      <3>3. buffer'[tb] = Commanded(Clear(tb))[tb]
        BY <2>0, <2>1, <3>2, CycleKeeps DEF IInv
      <3>4. Commanded(Clear(tb))[tb] = [armed |-> FALSE, done |-> FALSE, count |-> 0]
        <4>1. Clear(tb) # Arm(tb)
          BY <2>0, CommandsDiffer
        <4>2. Commanded(Clear(tb))[tb] =
                [armed |-> buffer[tb].armed \/ Clear(tb) = Arm(tb),
                 done |-> FALSE, count |-> 0]
          BY <2>0 DEF Commanded
        <4>3. (buffer[tb].armed \/ Clear(tb) = Arm(tb)) = FALSE
          BY <4>1, <3>2
        <4> QED  BY <4>2, <4>3
      <3>5. task'.at = "arm" /\ task'.buffer = tb
        BY <2>1 DEF IInv, TaskOK
      <3>6. TaskHolds'
        BY <3>3, <3>4, <3>5 DEF TaskHolds
      <3>7. TaskOK' /\ TaskAlone' /\ RunningCalls'
        BY <2>0, <2>1, <3>5 DEF IInv, TaskOK, TaskAlone, RunningCalls, TaskSteps
      <3> QED  BY <3>1, <3>6, <3>7 DEF IInv
    <2>2. CASE /\ task.at = "arm" /\ Cycle(Arm(task.buffer))
               /\ task' = PollTask(1 - task.buffer)
      <3>1. RegistersOK' /\ FullIsDone' /\ WorksInArmed'
        BY <2>2, CycleKeeps DEF IInv
      <3>2. TaskOK' /\ TaskHolds'
        BY <2>0, <2>2 DEF TaskOK, TaskHolds, PollTask, TaskSteps, Buffer
      <3>3. TaskAlone' /\ RunningCalls'
        BY <2>0, <2>2 DEF IInv, TaskAlone, RunningCalls
      <3> QED  BY <3>1, <3>2, <3>3 DEF IInv
    <2> QED  BY <1>13, <2>1, <2>2 DEF Release
  <1>14. CASE Receive
    BY <1>14, <1>h DEF Receive
  <1>15. CASE UNCHANGED vars
    BY <1>15, <1>h DEF vars
  <1> QED  BY <1>1, <1>2, <1>3, <1>4, <1>5, <1>6, <1>7, <1>8, <1>9, <1>10, <1>11,
              <1>12, <1>13, <1>14, <1>15 DEF Next, Call, Task

\* A buffer that is being read or given back is not armed.
LEMMA IInvOwns == IInv => ReadersOwnTheirBuffer
PROOF
  <1> SUFFICES ASSUME IInv, task.at \in {"count", "copy", "clear", "arm"}
      PROVE  /\ buffer[task.buffer].count = (IF task.at = "arm" THEN 0 ELSE Capacity)
             /\ writer.active = task.buffer =>
                  writer.state \in {"IDLE", "WAIT_BUFFER", "ERROR"}
    BY DEF ReadersOwnTheirBuffer
  <1>1. task.buffer \in Buffer
    BY DEF IInv, TaskOK
  <1>2. /\ ~buffer[task.buffer].armed
        /\ buffer[task.buffer].count = (IF task.at = "arm" THEN 0 ELSE Capacity)
    BY <1>1 DEF IInv, TaskHolds, FullIsDone
  <1>3. writer.active = task.buffer => writer.state \notin Working
    BY <1>2 DEF IInv, WorksInArmed
  <1>4. writer.state \in States
    BY DEF IInv, RegistersOK
  <1> QED  BY <1>2, <1>3, <1>4 DEF Working, States

\* The inductive invariant, of which the ownership of the buffers is a part.
THEOREM CommitPathInvariant == Spec => []IInv
PROOF
  <1> QED  BY InitIInv, NextIInv, PTL DEF Spec

\* The driver never reads a buffer that the engine is at work in, and always the
\* whole of one, for buffers of every size and any history of starts and stops
\* (CommitQueue.run, CommitBuffer.read_slot, commit_dma_writer.v:436-440).
THEOREM ReadersOwnTheirBufferHolds == Spec => []ReadersOwnTheirBuffer
PROOF
  <1> QED  BY CommitPathInvariant, IInvOwns, PTL

-----------------------------------------------------------------------------
(* The queue. *)

\* What was put on the queue is a sequence, and nobody took more than it holds.
QueueOK == (\E S : queued \in Seq(S)) /\ taken \in 0 .. Len(queued)

\* An entry more on the queue, as stop() puts it there.
LEMMA Appended ==
  ASSUME QueueOK, NEW e, queued' = Append(queued, e), taken' = taken
  PROVE  QueueOK' /\ taken < Len(queued')
PROOF
  <1>1. PICK S : queued \in Seq(S)
    BY DEF QueueOK
  <1>2. queued \in Seq(S \cup {e})
    BY <1>1
  <1>3. queued' \in Seq(S \cup {e}) /\ Len(queued') = Len(queued) + 1
    BY <1>2
  <1>4. Len(queued) \in Nat
    BY <1>1
  <1> QED  BY <1>3, <1>4 DEF QueueOK

\* A function on 1 .. n is a sequence of n.
LEMMA Tuple ==
  ASSUME NEW T, NEW n \in Nat, NEW s \in [1 .. n -> T]
  PROVE  s \in Seq(T) /\ Len(s) = n
OBVIOUS

\* Two sequences, one behind the other.
LEMMA Concatenated ==
  ASSUME NEW T, NEW s \in Seq(T), NEW t \in Seq(T)
  PROVE  s \o t \in Seq(T) /\ Len(s \o t) = Len(s) + Len(t)
OBVIOUS

\* The records of a buffer behind what is queued.
LEMMA Copied ==
  ASSUME IInv, QueueOK, CopySlots
  PROVE  QueueOK' /\ Len(queued') >= Len(queued)
PROOF
  <1> DEFINE copy == Records(task.buffer, task.count)
             E == {copy[i] : i \in 1 .. task.count}
  <1>1. PICK S : queued \in Seq(S)
    BY DEF QueueOK
  <1>2. task.count \in Nat
    BY DEF IInv, TaskOK
  <1>3. copy = [i \in 1 .. task.count |-> [commit |-> memory[task.buffer][i - 1], start |-> starts]]
    BY Zenon DEF Records
  <1>4. copy \in [1 .. task.count -> E]
    BY <1>3, Zenon
  <1>5. copy \in Seq(E) /\ Len(copy) = task.count
    <2> HIDE DEF copy, E
    <2> QED  BY <1>2, <1>4, Tuple
  <1>6. queued' = queued \o copy /\ taken' = taken
    BY DEF CopySlots
  <1> HIDE DEF copy, E
  <1>7. queued \in Seq(S \cup E) /\ copy \in Seq(S \cup E)
    BY <1>1, <1>5
  <1>8. /\ queued' \in Seq(S \cup E)
        /\ Len(queued') = Len(queued) + Len(copy)
    BY <1>6, <1>7, Concatenated
  <1>9. Len(queued) \in Nat
    BY <1>1
  <1> QED  BY <1>2, <1>5, <1>6, <1>8, <1>9 DEF QueueOK

\* Nobody is stranded by any one step: what takes an entry off the queue wakes its taker,
\* and stop(), the last one to put an entry there, wakes whoever is left.
LEMMA QueueStep == IInv /\ QueueOK /\ NoReceiverIsStranded /\ [Next]_vars
                     => QueueOK' /\ NoReceiverIsStranded'
PROOF
  <1> SUFFICES ASSUME IInv, QueueOK, NoReceiverIsStranded, [Next]_vars
               PROVE  QueueOK' /\ NoReceiverIsStranded'
    OBVIOUS
  <1>1. Len(queued) \in Nat /\ taken \in Nat /\ taken <= Len(queued)
    BY DEF QueueOK
  <1>2. CASE UNCHANGED <<queue, running>>
    BY <1>2 DEF queue, QueueOK, NoReceiverIsStranded
  <1>3. CASE StartEnds
    BY <1>3 DEF StartEnds, queue, QueueOK, NoReceiverIsStranded
  <1>4. CASE StopEnds
    BY <1>4, Appended DEF StopEnds, NoReceiverIsStranded
  <1>5. CASE CopySlots
    <2>1. UNCHANGED <<waiting, running, taken>>
      BY <1>5 DEF CopySlots
    <2>2. QueueOK' /\ Len(queued') >= Len(queued) /\ Len(queued') \in Nat
      BY <1>5, Copied DEF QueueOK
    <2> QED  BY <1>1, <2>1, <2>2 DEF NoReceiverIsStranded
  <1>6. CASE Receive
    BY <1>1, <1>6 DEF Receive, QueueOK, NoReceiverIsStranded
  <1>7. CASE Arrive \/ Engine \/ Open \/ Close \/ Start \/ Stop \/ CallWrites
    BY <1>2, <1>7 DEF Arrive, Engine, Open, Close, Start, Stop, CallWrites
  <1>8. CASE Poll \/ ReadCount \/ Release
    BY <1>2, <1>8 DEF Poll, ReadCount, Release
  <1> QED  BY <1>2, <1>3, <1>4, <1>5, <1>6, <1>7, <1>8 DEF Next, Call, Task, vars

\* stop() leaves nobody waiting, however many records were queued before and in whatever
\* order recv(), run() and the calls of start() and stop() came (CommitQueue.stop).
THEOREM NobodyIsStranded == Spec => []NoReceiverIsStranded
PROOF
  <1>1. Init => QueueOK /\ NoReceiverIsStranded
    <2> SUFFICES ASSUME Init PROVE QueueOK /\ NoReceiverIsStranded
      OBVIOUS
    <2>1. queued = <<>> /\ taken = 0 /\ waiting = FALSE
      BY DEF Init
    <2>2. queued \in Seq({}) /\ Len(queued) = 0
      BY <2>1
    <2> QED  BY <2>1, <2>2 DEF QueueOK, NoReceiverIsStranded
  <1> QED  BY <1>1, CommitPathInvariant, QueueStep, PTL DEF Spec

-----------------------------------------------------------------------------
(* The order of the records. *)

Record == [commit : Nat, start : Nat]

\* How many commits have left the ring.
Popped == arrived - Len(ring)

InTransfer == writer.state \in {"ISSUE_DMA", "WAIT_DMA", "POP_SLOT"}

Active == writer.active

Other == 1 - writer.active

\* How many records of the present filling a buffer holds: a start() that does not wait
\* clears the count under a transfer, which goes on at the place it is for.
Held(b) == IF b = Active /\ InTransfer THEN writer.to ELSE buffer[b].count

\* The buffer that was filled first: the active one only if it still waits for the driver.
Older == IF buffer[Active].done THEN Active ELSE Other

Newer == 1 - Older

\* What the ring holds are the commits that arrived and have not left it.
RingInv ==
  /\ ring \in Seq(Nat) /\ arrived \in Nat /\ Len(ring) <= arrived
  /\ \A i \in 1 .. Len(ring) : ring[i] = Popped + i

TransferInv ==
  InTransfer =>
    /\ ring # <<>>
    /\ writer.to \in Index /\ buffer[Active].count <= writer.to
    /\ writer.state = "POP_SLOT" => memory[Active][writer.to] = Popped + 1

\* What a buffer holds has left the ring, in order, and all of one buffer before the other.
ContentInv ==
  /\ memory \in [Buffer -> [Index -> Nat]]
  /\ buffer[Other].count \in {0, Capacity}
  /\ \A b \in Buffer : \A i \in 0 .. Held(b) - 1 : memory[b][i] \in 1 .. Popped
  /\ \A b \in Buffer : \A i, j \in 0 .. Held(b) - 1 : i < j => memory[b][i] < memory[b][j]
  /\ \A i \in 0 .. Held(Older) - 1, j \in 0 .. Held(Newer) - 1 :
       memory[Older][i] < memory[Newer][j]

StoreInv == RingInv /\ TransferInv /\ ContentInv

\* What a register write makes of a buffer.
LEMMA CommandedIs ==
  ASSUME RegistersOK, NEW c, NEW b \in Buffer
  PROVE  /\ c \in {Clear(b), Arm(b)} => Commanded(c)[b].count = 0 /\ ~Commanded(c)[b].done
         /\ c \notin {Clear(b), Arm(b)} => Commanded(c)[b] = buffer[b]
         /\ Commanded(c)[b].count \in {0, buffer[b].count}
         /\ Commanded(c)[b].done => buffer[b].done
  BY DEF Commanded

\* The numbers of the buffers.
LEMMA Buffers ==
  ASSUME RegistersOK
  PROVE  /\ Active \in Buffer /\ Other \in Buffer /\ Other # Active /\ 1 - Other = Active
         /\ \A b \in Buffer : b = Active \/ b = Other
         /\ Older \in Buffer /\ Newer \in Buffer /\ Older # Newer
         /\ \A b \in Buffer : b = Older \/ b = Newer
  BY DEF RegistersOK, Buffer, Active, Other, Older, Newer

\* The cycle in which the ring gives up its head.
LEMMA PopIs ==
  ASSUME RegistersOK, FullIsDone, WorksInArmed, NEW c, PopSlot(c)
  PROVE  LET count == buffer[Active].count + 1 IN
         /\ ring' = Tail(ring) /\ memory' = memory
         /\ InTransfer /\ ~InTransfer' /\ count \in 1 .. Capacity
         /\ buffer[Active].armed /\ ~buffer[Active].done
         /\ Active' = IF count = Capacity THEN Other ELSE Active
         /\ buffer'[Active].count = count /\ (buffer'[Active].done <=> count = Capacity)
         /\ buffer'[Other] = Commanded(c)[Other]
<1>1. writer.state = "POP_SLOT" /\ ring' = Tail(ring) /\ memory' = memory
  BY DEF PopSlot
<1>2. /\ Active \in Buffer /\ Other \in Buffer /\ Other # Active
      /\ Capacity \in Nat \ {0}
  BY Buffers, CommitPathAssumption
<1>3. /\ buffer[Active].armed /\ ~buffer[Active].done
      /\ buffer[Active].count \in Nat /\ buffer[Active].count < Capacity
  BY <1>1, <1>2 DEF WorksInArmed, Working, FullIsDone, RegistersOK, Active
<1> DEFINE count == buffer[Active].count + 1
<1>4. count \in 1 .. Capacity /\ (count >= Capacity <=> count = Capacity)
  BY <1>2, <1>3
<1>5. /\ writer'.active = IF count >= Capacity THEN Other ELSE Active
      /\ writer'.state = IF count >= Capacity THEN "WAIT_BUFFER" ELSE "WAIT_SLOT"
  BY DEF PopSlot, Active, Other, RegistersOK
<1>6. /\ Commanded(c) \in [Buffer -> [armed : BOOLEAN, done : BOOLEAN, count : Nat]]
      /\ ~Commanded(c)[Active].done
  BY <1>2, <1>3, CommandedRegisters, CommandedIs
<1>7. buffer' = [Commanded(c) EXCEPT
                   ![Active] = [armed |-> @.armed /\ ~(count >= Capacity),
                                done |-> @.done \/ count >= Capacity, count |-> count]]
  BY DEF PopSlot, Active
<1> HIDE DEF count
<1>8. /\ buffer'[Active].count = count /\ (buffer'[Active].done <=> count >= Capacity)
      /\ buffer'[Other] = Commanded(c)[Other]
  BY <1>2, <1>6, <1>7
<1>9. InTransfer /\ ~InTransfer' /\ Active' = IF count = Capacity THEN Other ELSE Active
  BY <1>1, <1>4, <1>5 DEF InTransfer, Active
<1> QED
  BY <1>1, <1>3, <1>4, <1>8, <1>9 DEF count

\* Any other cycle: the buffers change by the command alone, and what is written goes to
\* the place the transfer is for.
LEMMA QuietIs ==
  ASSUME RegistersOK, FullIsDone, WorksInArmed, StoreInv, NEW c, Cycle(c), ~PopSlot(c)
  PROVE  /\ ring' = ring /\ Active' = Active /\ buffer' = Commanded(c)
         /\ InTransfer' =>
              /\ ring # <<>> /\ buffer[Active].armed
              /\ writer'.to \in Index
              /\ writer'.to = IF InTransfer THEN writer.to ELSE buffer[Active].count
              /\ writer'.state = "POP_SLOT" => memory'[Active][writer'.to] = Head(ring)
         /\ memory' \in [Buffer -> [Index -> Nat]]
         /\ \A b \in Buffer, i \in Index :
              memory'[b][i] = memory[b][i] \/ (InTransfer /\ b = Active /\ i = writer.to)
<1>1. /\ Active \in Buffer /\ writer.active = Active
      /\ writer = [state |-> writer.state, active |-> writer.active,
                   stopping |-> writer.stopping, to |-> writer.to]
      /\ Capacity \in Nat \ {0}
  BY Buffers, CommitPathAssumption DEF RegistersOK, Active
<1>2. /\ memory \in [Buffer -> [Index -> Nat]]
      /\ InTransfer => ring # <<>> /\ writer.to \in Index
      /\ writer.state = "POP_SLOT" => memory[Active][writer.to] = Popped + 1
      /\ InTransfer => buffer[Active].armed
      /\ ring # <<>> => Head(ring) = Popped + 1 /\ Head(ring) \in Nat
  BY DEF StoreInv, RingInv, TransferInv, ContentInv, InTransfer, WorksInArmed, Working, Active
<1>3. ASSUME ToIdle
      PROVE  Active' = Active /\ ~InTransfer'
  BY <1>1, <1>3 DEF ToIdle, InTransfer, Active
<1>4. ASSUME NEW s, Goto(s)
      PROVE  Active' = Active /\ writer'.state = s /\ writer'.to = writer.to
  BY <1>1, <1>4 DEF Goto, Active
<1>5. /\ ring' = ring /\ buffer' = Commanded(c)
  BY DEF Cycle, Idle, WaitBuffer, WaitSlot, IssueDma, WaitDma, LeaveError
<1>6. CASE Idle(c) \/ WaitBuffer(c) \/ LeaveError(c)
  <2>1. memory' = memory /\ (ToIdle \/ Goto("WAIT_BUFFER") \/ Goto("WAIT_SLOT"))
    BY <1>6 DEF Idle, WaitBuffer, LeaveError
  <2>2. Active' = Active /\ ~InTransfer'
    BY <2>1, <1>3, <1>4 DEF InTransfer
  <2> QED
    BY <1>2, <1>5, <2>1, <2>2
<1>7. CASE WaitSlot(c)
  <2>1. ~InTransfer /\ memory' = memory
    BY <1>7 DEF WaitSlot, InTransfer
  <2>2. CASE ToIdle \/ Goto("WAIT_BUFFER") \/ UNCHANGED writer
    <3>1. Active' = Active /\ ~InTransfer'
      BY <1>3, <1>4, <2>1, <2>2 DEF InTransfer, Active
    <3> QED
      BY <1>2, <1>5, <2>1, <3>1
  <2>3. CASE /\ ActiveReady /\ ring # <<>>
             /\ writer' = [writer EXCEPT !.state = "ISSUE_DMA",
                                         !.to = buffer[writer.active].count]
    <3>1. Active' = Active /\ writer'.to = buffer[Active].count /\ writer'.state = "ISSUE_DMA"
      BY <1>1, <2>3 DEF Active
    <3>2. buffer[Active].armed
      BY <2>3 DEF ActiveReady, Active
    <3>3. buffer[Active].count \in Index
      BY <1>1, <3>2 DEF FullIsDone, RegistersOK, Index
    <3> QED
      BY <1>2, <1>5, <2>1, <2>3, <3>1, <3>2, <3>3
  <2> QED
    BY <1>7, <2>2, <2>3 DEF WaitSlot
<1>8. CASE IssueDma(c)
  <2>1. InTransfer /\ memory' = memory /\ writer.state = "ISSUE_DMA"
    BY <1>8 DEF IssueDma, InTransfer
  <2>2. CASE ToIdle
    BY <1>2, <1>3, <1>5, <2>1, <2>2
  <2>3. CASE \/ writer' = [writer EXCEPT !.state = "WAIT_DMA", !.stopping = Stopping(c)]
             \/ UNCHANGED writer
    <3>1. Active' = Active /\ writer'.to = writer.to /\ writer'.state # "POP_SLOT"
      BY <1>1, <2>1, <2>3 DEF Active
    <3> QED
      BY <1>2, <1>5, <2>1, <3>1
  <2> QED
    BY <1>8, <2>2, <2>3 DEF IssueDma
<1>9. CASE WaitDma(c)
  <2>1. InTransfer /\ memory' \in {memory, Written} /\ writer.state = "WAIT_DMA"
    BY <1>9 DEF WaitDma, InTransfer
  <2>2. ring # <<>> /\ writer.to \in Index /\ buffer[Active].armed /\ Head(ring) \in Nat
    BY <1>2, <2>1
  <2>3. /\ Written \in [Buffer -> [Index -> Nat]]
        /\ Written[Active][writer.to] = Head(ring)
        /\ \A b \in Buffer, i \in Index :
             Written[b][i] = memory[b][i] \/ (b = Active /\ i = writer.to)
    BY <1>1, <1>2, <2>2 DEF Written
  <2>4. CASE \/ writer' = [writer EXCEPT !.stopping = Stopping(c)]
             \/ writer' = [writer EXCEPT !.state = "ERROR", !.stopping = FALSE]
    <3>1. Active' = Active /\ writer'.to = writer.to /\ writer'.state # "POP_SLOT"
      BY <1>1, <2>1, <2>4 DEF Active
    <3> HIDE DEF Written
    <3> QED
      BY <1>2, <1>5, <2>1, <2>2, <2>3, <3>1
  <2>5. CASE /\ writer' = [writer EXCEPT !.state = "POP_SLOT", !.stopping = Stopping(c)]
             /\ memory' = Written
    <3>1. Active' = Active /\ writer'.to = writer.to
      BY <1>1, <2>5 DEF Active
    <3> QED
      BY <1>2, <1>5, <2>1, <2>2, <2>3, <2>5, <3>1
  <2> QED
    BY <1>9, <2>4, <2>5 DEF WaitDma
<1> QED
  BY <1>6, <1>7, <1>8, <1>9 DEF Cycle

\* How much a buffer holds.
LEMMA HeldIs ==
  ASSUME RegistersOK, FullIsDone, WorksInArmed, StoreInv, NEW b \in Buffer
  PROVE  /\ Held(b) \in 0 .. Capacity /\ buffer[b].count \in 0 .. Held(b)
         /\ buffer[b].done => Held(b) = Capacity /\ buffer[b].count = Capacity
                              /\ ~(b = Active /\ InTransfer)
<1>1. /\ Capacity \in Nat /\ buffer[b].count \in Nat /\ Active \in Buffer
      /\ buffer[b].done => ~buffer[b].armed /\ buffer[b].count = Capacity
      /\ buffer[b].count <= Capacity
  BY CommitPathAssumption DEF RegistersOK, FullIsDone, Active
<1>2. CASE b = Active /\ InTransfer
  <2>1. writer.to \in Index /\ buffer[b].count <= writer.to /\ buffer[b].armed
    BY <1>2 DEF StoreInv, TransferInv, WorksInArmed, Working, InTransfer, Active
  <2> QED
    BY <1>1, <1>2, <2>1 DEF Held, Index
<1>3. CASE ~(b = Active /\ InTransfer)
  BY <1>1, <1>3 DEF Held
<1> QED
  BY <1>2, <1>3

\* The ring gives up its head.
LEMMA RingStep ==
  ASSUME RingInv, ring # <<>>, ring' = Tail(ring), arrived' = arrived
  PROVE  RingInv' /\ Popped' = Popped + 1 /\ Popped \in Nat
<1>1. /\ ring \in Seq(Nat) /\ Len(ring) \in Nat /\ Len(ring) # 0 /\ arrived \in Nat
      /\ Len(ring) <= arrived
      /\ \A i \in 1 .. Len(ring) : ring[i] = Popped + i
  BY DEF RingInv
<1>2. /\ ring' \in Seq(Nat) /\ Len(ring') = Len(ring) - 1
      /\ \A i \in 1 .. Len(ring) - 1 : ring'[i] = ring[i + 1]
  BY <1>1
<1>3. Popped' = Popped + 1 /\ Popped \in Nat
  BY <1>1, <1>2 DEF Popped
<1>4. \A i \in 1 .. Len(ring') : ring'[i] = Popped' + i
  <2> SUFFICES ASSUME NEW i \in 1 .. Len(ring') PROVE ring'[i] = Popped' + i
    OBVIOUS
  <2>1. i + 1 \in 1 .. Len(ring) /\ ring'[i] = ring[i + 1]
    BY <1>1, <1>2
  <2>2. ring[i + 1] = Popped + (i + 1)
    BY <1>1, <2>1
  <2> QED
    BY <1>3, <2>1, <2>2
<1> QED
  BY <1>1, <1>2, <1>3, <1>4 DEF RingInv

\* What a buffer holds after a cycle it has held before, but for the one record that has
\* just left the ring.
KeepsOrAppends(b) ==
  /\ Held(b)' \in 0 .. Capacity
  /\ \A k \in 0 .. Held(b)' - 1 :
       \/ k < Held(b) /\ memory'[b][k] = memory[b][k]
       \/ /\ k = Held(b)' - 1 /\ memory'[b][k] = Popped'
          /\ b = Active /\ ~buffer[b].done /\ Popped' = Popped + 1

\* A cycle, as seen by who looks at what the buffers hold.
LEMMA HeldStep ==
  ASSUME RegistersOK, FullIsDone, WorksInArmed, StoreInv, NEW c, Cycle(c),
         arrived' = arrived
  PROVE  /\ Popped \in Nat /\ Popped' \in {Popped, Popped + 1}
         /\ RingInv' /\ TransferInv'
         /\ memory' \in [Buffer -> [Index -> Nat]]
         /\ buffer'[Other'].count \in {0, Capacity}
         /\ \A b \in Buffer : KeepsOrAppends(b)
         /\ Older' = Older \/ \E b \in Buffer : Held(b)' = 0
<1>1. RegistersOK' /\ FullIsDone' /\ WorksInArmed'
  BY CycleKeeps
<1>2. /\ Active \in Buffer /\ Other \in Buffer /\ Other # Active /\ 1 - Other = Active
      /\ \A b \in Buffer : b = Active \/ b = Other
      /\ Capacity \in Nat \ {0}
  BY Buffers, CommitPathAssumption
<1>3. /\ RingInv /\ TransferInv /\ memory \in [Buffer -> [Index -> Nat]]
      /\ buffer[Other].count \in {0, Capacity}
      /\ Popped \in Nat
      /\ \A b \in Buffer : buffer[b].count \in Nat
  BY DEF StoreInv, ContentInv, RingInv, Popped, RegistersOK
<1>4. \A b \in Buffer : /\ Held(b) \in 0 .. Capacity /\ buffer[b].count \in 0 .. Held(b)
                        /\ Commanded(c)[b].count \in {0, buffer[b].count}
                        /\ Commanded(c)[b].done => buffer[b].done
                        /\ buffer[b].done => buffer[b].count = Capacity
  BY HeldIs, CommandedIs
<1>5. CASE PopSlot(c)
  <2> DEFINE count == buffer[Active].count + 1
  <2>1. /\ ring' = Tail(ring) /\ memory' = memory
        /\ InTransfer /\ ~InTransfer' /\ count \in 1 .. Capacity
        /\ buffer[Active].armed /\ ~buffer[Active].done
        /\ Active' = IF count = Capacity THEN Other ELSE Active
        /\ buffer'[Active].count = count /\ (buffer'[Active].done <=> count = Capacity)
        /\ buffer'[Other] = Commanded(c)[Other]
    BY <1>5, PopIs
  <2>2. ring # <<>> /\ writer.to \in Index /\ buffer[Active].count <= writer.to
        /\ memory[Active][writer.to] = Popped + 1
    BY <1>3, <1>5, <2>1 DEF TransferInv, PopSlot
  <2>3. RingInv' /\ Popped' = Popped + 1
    BY <1>3, <2>1, <2>2, RingStep
  <2>4. TransferInv'
    BY <2>1 DEF TransferInv
  <2>5. \A b \in Buffer : Held(b)' = buffer'[b].count
    BY <2>1 DEF Held
  <2>6. Held(Active) = writer.to /\ Held(Other) = buffer[Other].count
    BY <1>2, <2>1 DEF Held
  <2> HIDE DEF count
  <2>7. ASSUME NEW b \in Buffer PROVE KeepsOrAppends(b)
    <3>1. CASE b = Active
      <4>0. Held(b)' = buffer'[b].count /\ buffer[b].count \in Nat
        BY <1>3, <2>5
      <4>1. Held(b)' = count /\ Held(b) = writer.to /\ count - 1 <= writer.to
            /\ count \in 1 .. Capacity /\ writer.to \in Nat
        BY <1>2, <4>0, <2>1, <2>2, <2>6, <3>1 DEF count, Index
      <4> SUFFICES ASSUME NEW k \in 0 .. count - 1
                   PROVE  \/ k < writer.to
                          \/ k = count - 1 /\ memory'[b][k] = Popped'
        BY <1>2, <2>1, <2>3, <3>1, <4>1 DEF KeepsOrAppends
      <4> QED
        BY <2>1, <2>2, <2>3, <3>1, <4>1
    <3>2. CASE b = Other
      <4>1. Held(b)' \in {0, Held(b)} /\ Held(b) \in 0 .. Capacity
        BY <1>2, <1>4, <2>1, <2>5, <2>6, <3>2
      <4> QED
        BY <1>2, <2>1, <4>1 DEF KeepsOrAppends
    <3> QED
      BY <1>2, <3>1, <3>2
  <2>9. Other' = IF count = Capacity THEN Active ELSE Other
    BY <1>2, <2>1 DEF Other, Active
  <2>10. buffer'[Other'].count \in {0, Capacity}
    BY <1>3, <1>4, <1>2, <2>1, <2>9
  <2>11. Older' = Older \/ \E b \in Buffer : Held(b)' = 0
    <3>1. Older = Other
      BY <2>1 DEF Older
    <3>2. CASE count # Capacity
      BY <2>1, <2>9, <3>1, <3>2 DEF Older
    <3>3. CASE count = Capacity
      <4>1. Active' = Other /\ (buffer'[Other].done => Older' = Other)
        BY <2>1, <3>3 DEF Older
      <4>2. ~buffer'[Other].done => buffer'[Other].count # Capacity
        BY <1>1, <1>2 DEF FullIsDone
      <4>3. buffer'[Other].count \in {0, Capacity}
        BY <1>2, <1>3, <1>4, <2>1
      <4> QED
        BY <1>2, <2>5, <3>1, <4>1, <4>2, <4>3
    <3> QED
      BY <3>2, <3>3
  <2> QED
    BY <1>2, <1>3, <2>1, <2>3, <2>4, <2>7, <2>10, <2>11
<1>6. CASE ~PopSlot(c)
  <2>1. /\ ring' = ring /\ Active' = Active /\ buffer' = Commanded(c)
        /\ InTransfer' =>
             /\ ring # <<>> /\ buffer[Active].armed
             /\ writer'.to \in Index
             /\ writer'.to = IF InTransfer THEN writer.to ELSE buffer[Active].count
             /\ writer'.state = "POP_SLOT" => memory'[Active][writer'.to] = Head(ring)
        /\ memory' \in [Buffer -> [Index -> Nat]]
        /\ \A b \in Buffer, i \in Index :
             memory'[b][i] = memory[b][i] \/ (InTransfer /\ b = Active /\ i = writer.to)
    BY <1>6, QuietIs
  <2>2. Popped' = Popped /\ RingInv'
    BY <1>3, <2>1 DEF Popped, RingInv
  <2>3. TransferInv'
    <3> SUFFICES ASSUME InTransfer'
                 PROVE  /\ ring' # <<>>
                        /\ writer'.to \in Index /\ buffer'[Active'].count <= writer'.to
                        /\ writer'.state = "POP_SLOT" =>
                             memory'[Active'][writer'.to] = Popped' + 1
      BY DEF TransferInv
    <3>1. Head(ring) = Popped + 1
      BY <1>3, <2>1 DEF RingInv
    <3>2. Commanded(c)[Active].count <= buffer[Active].count
      BY <1>2, <1>3, <1>4
    <3>3. buffer[Active].count <= writer'.to
      BY <1>2, <1>3, <2>1 DEF TransferInv, Index
    <3>4. Commanded(c)[Active].count \in Nat /\ writer'.to \in Nat
      <4>1. Commanded(c)[Active].count \in Nat
        BY <1>2, <1>3, <1>4
      <4> QED
        BY <1>2, <2>1, <4>1 DEF Index
    <3> QED
      BY <1>2, <1>3, <2>1, <2>2, <3>1, <3>2, <3>3, <3>4
  <2>4. \A b \in Buffer : Held(b)' \in 0 .. Held(b)
    <3> SUFFICES ASSUME NEW b \in Buffer PROVE Held(b)' \in 0 .. Held(b)
      OBVIOUS
    <3>1. CASE b = Active /\ InTransfer'
      BY <1>2, <1>4, <2>1, <3>1 DEF Held, Index
    <3>2. CASE ~(b = Active /\ InTransfer')
      BY <1>2, <1>4, <2>1, <3>2 DEF Held
    <3> QED
      BY <3>1, <3>2
  <2>5. ASSUME NEW b \in Buffer PROVE KeepsOrAppends(b)
    <3> SUFFICES ASSUME NEW k \in 0 .. Held(b)' - 1
                 PROVE  k < Held(b) /\ memory'[b][k] = memory[b][k]
      BY <1>2, <1>4, <2>4 DEF KeepsOrAppends
    <3>1. k \in Index /\ k < Held(b)
      BY <1>2, <1>4, <2>4 DEF Index
    <3>2. ~(InTransfer /\ b = Active /\ k = writer.to)
      BY <1>2, <3>1 DEF Held
    <3> QED
      BY <2>1, <3>1, <3>2
  <2>6. Other' = Other /\ buffer'[Other'].count \in {0, Capacity}
    BY <1>2, <1>3, <1>4, <2>1 DEF Other, Active
  <2>7. Older' = Older \/ Held(Active)' = 0
    <3>1. CASE buffer[Active].done /\ ~Commanded(c)[Active].done
      <4>1. c \in {Clear(Active), Arm(Active)}
        BY <1>2, <3>1, CommandedIs
      <4>2. Commanded(c)[Active].count = 0
        BY <1>2, <4>1, CommandedIs
      <4>3. ~InTransfer'
        BY <1>2, <2>1, <3>1 DEF FullIsDone
      <4> QED
        BY <2>1, <4>2, <4>3 DEF Held
    <3>2. CASE ~(buffer[Active].done /\ ~Commanded(c)[Active].done)
      BY <1>2, <1>4, <2>1, <2>6, <3>2 DEF Older
    <3> QED
      BY <3>1, <3>2
  <2> QED
    BY <1>2, <1>3, <2>1, <2>2, <2>3, <2>5, <2>6, <2>7
<1> QED
  BY <1>5, <1>6

\* A cycle keeps the store in order.
LEMMA StoreStep ==
  ASSUME RegistersOK, FullIsDone, WorksInArmed, StoreInv, NEW c, Cycle(c),
         arrived' = arrived
  PROVE  StoreInv'
<1>1. /\ Popped \in Nat /\ Popped' \in {Popped, Popped + 1}
      /\ RingInv' /\ TransferInv'
      /\ memory' \in [Buffer -> [Index -> Nat]]
      /\ buffer'[Other'].count \in {0, Capacity}
      /\ \A b \in Buffer : KeepsOrAppends(b)
      /\ Older' = Older \/ \E b \in Buffer : Held(b)' = 0
  BY HeldStep
<1>2. /\ \A b \in Buffer : \A i \in 0 .. Held(b) - 1 : memory[b][i] \in 1 .. Popped
      /\ \A b \in Buffer : \A i, j \in 0 .. Held(b) - 1 : i < j => memory[b][i] < memory[b][j]
      /\ \A i \in 0 .. Held(Older) - 1, j \in 0 .. Held(Newer) - 1 :
           memory[Older][i] < memory[Newer][j]
      /\ \A b \in Buffer : Held(b) \in Nat
  BY CommitPathAssumption, HeldIs DEF StoreInv, ContentInv
<1>3. RegistersOK'
  BY CycleKeeps
<1>4. ASSUME NEW b \in Buffer, NEW k \in 0 .. Held(b)' - 1
      PROVE  \/ k \in 0 .. Held(b) - 1 /\ memory'[b][k] = memory[b][k]
             \/ /\ k = Held(b)' - 1 /\ memory'[b][k] = Popped'
                /\ b = Active /\ ~buffer[b].done /\ Popped' = Popped + 1
  BY <1>1, <1>2 DEF KeepsOrAppends
<1>5. \A b \in Buffer : \A i \in 0 .. Held(b)' - 1 : memory'[b][i] \in 1 .. Popped'
  BY <1>1, <1>2, <1>4
<1>6. ASSUME NEW b \in Buffer, NEW i \in 0 .. Held(b)' - 1, NEW j \in 0 .. Held(b)' - 1, i < j
      PROVE  memory'[b][i] < memory'[b][j]
  <2>1. Held(b)' \in Nat
    BY <1>1, CommitPathAssumption DEF KeepsOrAppends
  <2>2. i \in 0 .. Held(b) - 1 /\ memory'[b][i] = memory[b][i]
    BY <1>4, <1>6, <2>1
  <2>3. memory[b][i] \in 1 .. Popped
    BY <1>2, <2>2
  <2>4. CASE j \in 0 .. Held(b) - 1 /\ memory'[b][j] = memory[b][j]
    BY <1>2, <1>6, <2>2, <2>4
  <2>5. CASE memory'[b][j] = Popped' /\ Popped' = Popped + 1
    BY <1>1, <2>2, <2>3, <2>5
  <2> QED
    BY <1>4, <2>4, <2>5
<1>7. ASSUME NEW i \in 0 .. Held(Older)' - 1, NEW j \in 0 .. Held(Newer)' - 1
      PROVE  memory'[Older'][i] < memory'[Newer'][j]
  <2>1. PICK o \in Buffer, n \in Buffer : o = Older' /\ n = Newer' /\ o # n
    BY <1>3 DEF RegistersOK, Buffer, Active, Other, Older, Newer
  <2>2. i \in 0 .. Held(o)' - 1 /\ j \in 0 .. Held(n)' - 1
    BY <1>7, <2>1
  <2>3. Held(o)' # 0 /\ Held(n)' # 0
    BY <2>2
  <2>4. \A b \in Buffer : b = o \/ b = n
    BY <2>1 DEF Buffer
  <2>5. o = Older /\ n = Newer
    BY <1>1, <2>1, <2>3, <2>4 DEF Newer
  <2>6. ~(o = Active /\ ~buffer[o].done)
    BY <2>5, Buffers DEF Older
  <2>7. i \in 0 .. Held(o) - 1 /\ memory'[o][i] = memory[o][i]
    BY <1>4, <2>2, <2>6
  <2>8. memory[o][i] \in 1 .. Popped
    BY <1>2, <2>7
  <2>9. CASE j \in 0 .. Held(n) - 1 /\ memory'[n][j] = memory[n][j]
    BY <1>2, <2>1, <2>5, <2>7, <2>9
  <2>10. CASE memory'[n][j] = Popped' /\ Popped' = Popped + 1
    BY <1>1, <2>1, <2>7, <2>8, <2>10
  <2> QED
    BY <1>4, <2>1, <2>2, <2>9, <2>10
<1>8. ContentInv'
  BY <1>1, <1>5, <1>6, <1>7 DEF ContentInv
<1> QED
  BY <1>1, <1>8 DEF StoreInv

-----------------------------------------------------------------------------
(* What has been delivered. *)

StartCalls ==
  {Append(StartWrites, StartReturns),
   <<Arm(0), Clear(1), Arm(1), StartEngine, StartReturns>>,
   <<Clear(1), Arm(1), StartEngine, StartReturns>>,
   <<Arm(1), StartEngine, StartReturns>>,
   <<StartEngine, StartReturns>>,
   <<StartReturns>>}

StopCalls == {<<StopEngine, StopReturns>>, <<StopReturns>>}

\* A start() under way has cleared buffer b.
Cleared(b) == call \in StartCalls /\ Len(call) <= (IF b = 0 THEN 5 ELSE 3)

\* Records of buffer b have been delivered, or will never be: stop() came before the
\* driver gave it back, and the next start() clears it.
Leftover(b) == device # "RUNNING" /\ buffer[b].done /\ ~Cleared(b)

Delivering(b) == task.at = "clear" /\ task.buffer = b

Undelivered(b) == IF Delivering(b) \/ Leftover(b) THEN 0 ELSE Held(b)

CallInv ==
  /\ call \in StartCalls \cup StopCalls \cup {<<>>}
  /\ call \in StartCalls =>
       /\ device = "OPENED"
       /\ \A i \in Delivered : queued[i].start < starts
       /\ (~hasty /\ Len(call) \in 2 .. 5) => writer.state = "IDLE" /\ buffer[0].count = 0
       /\ (~hasty /\ Len(call) \in 2 .. 3) => buffer[1].count = 0

\* Before the device is opened nothing happens: the buffers are allocated once.
OpenInv ==
  ~opened => /\ device = "PROBED" /\ call = <<>>
             /\ writer.state = "IDLE" /\ \A b \in Buffer : buffer[b].count = 0

QueuedInv ==
  /\ queued \in Seq(Record) /\ starts \in Nat
  /\ \A i \in Delivered : queued[i].commit \in 1 .. Popped /\ queued[i].start <= starts
  /\ task.at = "copy" => task.count = Capacity

\* The driver empties the older buffer first, and what it has delivered is older still.
TurnInv ==
  ~overtaken =>
    /\ \A i \in Delivered : \A b \in Buffer : \A k \in 0 .. Undelivered(b) - 1 :
         queued[i].commit < memory[b][k]
    /\ task.at \in {"count", "copy", "clear"} => task.buffer = Older

InRun == device = "RUNNING" \/ call = <<StartReturns>>

\* Within a run nothing is lost: what has left the ring is delivered or held.
ExactInv ==
  (InRun /\ ~hasty /\ ~overtaken) =>
    /\ InTransfer => writer.to = buffer[Active].count
    /\ \A i \in 0 .. Held(Newer) - 1 :
         memory[Newer][i] = Popped - Held(Newer) + 1 + i
    /\ \A i \in 0 .. Held(Older) - 1 :
         memory[Older][i] = Popped - Held(Newer) - Held(Older) + 1 + i
    /\ \A i \in Delivered : queued[i].start = starts =>
         queued[i].commit = Popped - Undelivered(0) - Undelivered(1) - (Len(queued) - i)

OrderInv ==
  /\ StoreInv /\ CallInv /\ OpenInv /\ QueuedInv /\ TurnInv /\ ExactInv /\ RecordsInOrder

\* The engine leaves a buffer alone that is not armed.
LEMMA UnarmedStep ==
  ASSUME RegistersOK, FullIsDone, WorksInArmed, StoreInv, NEW c, Cycle(c),
         NEW b \in Buffer, ~buffer[b].armed
  PROVE  /\ buffer'[b] = Commanded(c)[b]
         /\ Held(b) = buffer[b].count /\ Held(b)' = buffer'[b].count
<1>1. buffer'[b] = Commanded(c)[b]
  BY CycleKeeps
<1>2. ~(b = Active /\ InTransfer)
  BY DEF WorksInArmed, Working, InTransfer, Active
<1>3. ~(b = Active' /\ InTransfer')
  <2>1. CASE PopSlot(c)
    BY <2>1, PopIs
  <2>2. CASE ~PopSlot(c)
    BY <2>2, QuietIs
  <2> QED
    BY <2>1, <2>2
<1> QED
  BY <1>1, <1>2, <1>3 DEF Held

\* The older buffer, once full, stays so until it is commanded.
LEMMA OlderStep ==
  ASSUME RegistersOK, FullIsDone, WorksInArmed, StoreInv, NEW c, Cycle(c),
         buffer[Older].done, \A b \in Buffer : c \notin {Clear(b), Arm(b)}
  PROVE  Older' = Older
<1>1. /\ Active \in Buffer /\ Other \in Buffer /\ Other # Active /\ 1 - Other = Active
  BY Buffers
<1>2. \A b \in Buffer : Commanded(c)[b] = buffer[b]
  BY CommandedIs
<1>3. CASE PopSlot(c)
  <2> DEFINE full == buffer[Active].count + 1 = Capacity
  <2>1. /\ ~buffer[Active].done
        /\ Active' = IF full THEN Other ELSE Active
        /\ (buffer'[Active].done <=> full)
        /\ buffer'[Other] = buffer[Other]
    BY <1>1, <1>2, <1>3, PopIs
  <2> HIDE DEF full
  <2>2. Older = Other /\ buffer'[Other].done
    BY <2>1 DEF Older
  <2>3. Other' = IF full THEN Active ELSE Other
    BY <1>1, <2>1 DEF Other, Active
  <2> QED
    BY <1>1, <2>1, <2>2, <2>3 DEF Older
<1>4. CASE ~PopSlot(c)
  <2>1. Active' = Active /\ Other' = Other /\ buffer' = Commanded(c)
    BY <1>4, QuietIs DEF Active, Other
  <2> QED
    BY <1>1, <1>2, <2>1 DEF Older
<1> QED
  BY <1>3, <1>4

\* A cycle does not disturb what has been delivered, as long as what is not counted any
\* more is either still not counted or cleared.
LEMMA TurnStep ==
  ASSUME IInv, StoreInv, QueuedInv, TurnInv, NEW c, Cycle(c),
         UNCHANGED <<arrived, queued, starts, overtaken>>,
         \A b \in Buffer : Delivering(b) \/ Leftover(b) =>
           Delivering(b)' \/ Leftover(b)' \/ c \in {Clear(b), Arm(b)},
         task'.at \in {"count", "copy", "clear"} =>
           task' = task /\ \A b \in Buffer : c \notin {Clear(b), Arm(b)}
  PROVE  QueuedInv' /\ TurnInv'
<1>1. RegistersOK /\ FullIsDone /\ WorksInArmed /\ TaskOK /\ TaskHolds
  BY DEF IInv
<1>2. /\ Popped \in Nat /\ Popped' \in {Popped, Popped + 1}
      /\ \A b \in Buffer : KeepsOrAppends(b)
      /\ \A b \in Buffer : Held(b) \in Nat
  BY <1>1, HeldStep, HeldIs, CommitPathAssumption
<1>3. Delivered' = Delivered
  BY DEF Delivered
<1>4. QueuedInv'
  <2>1. \A i \in Delivered : queued'[i].commit \in 1 .. Popped' /\ queued'[i].start <= starts'
    BY <1>2 DEF QueuedInv
  <2> QED
    BY <1>3, <2>1 DEF QueuedInv
<1>5. ASSUME NEW b \in Buffer, Delivering(b) \/ Leftover(b)
      PROVE  Undelivered(b)' = 0
  <2>1. buffer[b].done /\ ~buffer[b].armed
    BY <1>1, <1>5 DEF Delivering, Leftover, TaskHolds, FullIsDone
  <2>2. CASE Delivering(b)' \/ Leftover(b)'
    BY <2>2 DEF Undelivered
  <2>3. CASE c \in {Clear(b), Arm(b)}
    <3>1. Commanded(c)[b].count = 0
      BY <1>1, <2>3, CommandedIs
    <3>2. Held(b)' = 0
      BY <1>1, <2>1, <3>1, UnarmedStep
    <3> QED
      BY <3>2 DEF Undelivered
  <2> QED
    BY <1>5, <2>2, <2>3
<1>6. ASSUME ~overtaken, NEW i \in Delivered, NEW b \in Buffer,
             NEW k \in 0 .. Undelivered(b)' - 1
      PROVE  queued[i].commit < memory'[b][k]
  <2>1. ~(Delivering(b) \/ Leftover(b)) /\ k \in 0 .. Held(b)' - 1
    BY <1>5, <1>6 DEF Undelivered
  <2>2. Undelivered(b) = Held(b)
    BY <2>1 DEF Undelivered
  <2>3. CASE k < Held(b) /\ memory'[b][k] = memory[b][k]
    <3>1. k \in 0 .. Undelivered(b) - 1
      BY <1>2, <2>1, <2>2, <2>3
    <3> QED
      BY <1>6, <2>3, <3>1 DEF TurnInv
  <2>4. CASE memory'[b][k] = Popped' /\ Popped' = Popped + 1
    BY <1>2, <1>6, <2>4 DEF QueuedInv
  <2> QED
    BY <1>2, <2>1, <2>3, <2>4 DEF KeepsOrAppends
<1>7. ASSUME ~overtaken, task'.at \in {"count", "copy", "clear"}
      PROVE  task'.buffer = Older'
  <2>1. task' = task /\ task.buffer = Older
    BY <1>7 DEF TurnInv
  <2>2. buffer[Older].done
    BY <1>1, <1>7, <2>1 DEF TaskHolds
  <2> QED
    BY <1>1, <1>7, <2>1, <2>2, OlderStep
<1>8. TurnInv'
  BY <1>3, <1>6, <1>7 DEF TurnInv
<1> QED
  BY <1>4, <1>8

\* Within a run a cycle adds to the newer buffer what leaves the ring, and takes nothing
\* from the older one but by a command.
LEMMA CountStep ==
  ASSUME RegistersOK, FullIsDone, WorksInArmed, StoreInv, NEW c, Cycle(c),
         UNCHANGED arrived,
         InTransfer => writer.to = buffer[Active].count,
         \A b \in Buffer : c \in {Clear(b), Arm(b)} =>
           ~buffer[b].armed /\ (buffer[b].count = 0 \/ b = Older)
  PROVE  /\ InTransfer' => writer'.to = buffer'[Active'].count
         /\ \A n \in Buffer : n = Newer => Popped' - Held(n)' = Popped - Held(n)
         /\ \A o \in Buffer : o = Older =>
              /\ c \in {Clear(o), Arm(o)} => Held(o)' = 0
              /\ c \notin {Clear(o), Arm(o)} => Held(o)' = Held(o)
<1>1. /\ Active \in Buffer /\ Other \in Buffer /\ Other # Active /\ 1 - Other = Active
      /\ \A b \in Buffer : b = Active \/ b = Other
      /\ \A b \in Buffer : b = Older \/ b = Newer
      /\ Older # Newer
  BY Buffers
<1>2. \A b \in Buffer : Held(b) = buffer[b].count /\ buffer[b].count \in Nat
  BY DEF Held, RegistersOK
<1>3. \A b \in Buffer : /\ c \in {Clear(b), Arm(b)} => Commanded(c)[b].count = 0
                        /\ c \notin {Clear(b), Arm(b)} => Commanded(c)[b] = buffer[b]
  BY CommandedIs
<1>4. Popped \in Nat
  BY DEF StoreInv, RingInv, Popped
<1>5. CASE PopSlot(c)
  <2> DEFINE count == buffer[Active].count + 1
  <2>1. /\ ring' = Tail(ring) /\ InTransfer /\ ~InTransfer'
        /\ buffer[Active].armed /\ ~buffer[Active].done
        /\ buffer'[Active].count = count
        /\ buffer'[Other] = Commanded(c)[Other]
    BY <1>5, PopIs
  <2>2. Popped' = Popped + 1
    <3>1. RingInv /\ ring # <<>>
      BY <2>1 DEF StoreInv, TransferInv
    <3> QED
      BY <2>1, <3>1, RingStep
  <2>3. \A b \in Buffer : Held(b)' = buffer'[b].count
    BY <2>1 DEF Held
  <2>4. Older = Other /\ Newer = Active
    BY <1>1, <2>1 DEF Older, Newer
  <2> QED
    BY <1>1, <1>2, <1>3, <1>4, <2>1, <2>2, <2>3, <2>4
<1>6. CASE ~PopSlot(c)
  <2>1. /\ ring' = ring /\ Active' = Active /\ buffer' = Commanded(c)
        /\ InTransfer' =>
             /\ buffer[Active].armed
             /\ writer'.to = IF InTransfer THEN writer.to ELSE buffer[Active].count
    BY <1>6, QuietIs
  <2>2. InTransfer' => writer'.to = buffer'[Active'].count
    BY <1>1, <1>3, <2>1
  <2>3. \A b \in Buffer : Held(b)' = Commanded(c)[b].count
    BY <2>1, <2>2 DEF Held
  <2>4. Popped' = Popped
    BY <2>1 DEF Popped
  <2> QED
    BY <1>1, <1>2, <1>3, <1>4, <2>2, <2>3, <2>4
<1> QED
  BY <1>5, <1>6

\* Within a run a cycle loses nothing.
LEMMA ExactStep ==
  ASSUME IInv, StoreInv, TurnInv, ExactInv, InRun, ~hasty, ~overtaken, NEW c, Cycle(c),
         UNCHANGED <<arrived, queued, starts>>,
         \A b \in Buffer : ~Leftover(b) /\ ~Leftover(b)',
         \A b \in Buffer : c \in {Clear(b), Arm(b)} =>
           ~buffer[b].armed /\ (buffer[b].count = 0 \/ (b = Older /\ Delivering(b))),
         \A b \in Buffer : Delivering(b)' => Delivering(b),
         \A b \in Buffer : Delivering(b) => Delivering(b)' \/ c = Clear(b)
  PROVE  ExactInv'
<1>1. RegistersOK /\ FullIsDone /\ WorksInArmed /\ TaskOK
  BY DEF IInv
<1>2. PICK o \in Buffer, n \in Buffer : o = Older /\ n = Newer /\ o # n
  BY <1>1, Buffers
<1>3. /\ o \in {0, 1} /\ n \in {0, 1} /\ \A b \in Buffer : b = o \/ b = n
      /\ ~(o = Active /\ ~buffer[o].done)
  BY <1>1, <1>2, Buffers DEF Buffer, Older
<1>4. /\ InTransfer => writer.to = buffer[Active].count
      /\ \A i \in 0 .. Held(n) - 1 : memory[n][i] = Popped - Held(n) + 1 + i
      /\ \A i \in 0 .. Held(o) - 1 : memory[o][i] = Popped - Held(n) - Held(o) + 1 + i
      /\ \A i \in Delivered : queued[i].start = starts =>
           queued[i].commit = Popped - Undelivered(0) - Undelivered(1) - (Len(queued) - i)
  BY <1>2 DEF ExactInv
<1>5. /\ InTransfer' => writer'.to = buffer'[Active'].count
      /\ Popped' - Held(n)' = Popped - Held(n)
      /\ c \in {Clear(o), Arm(o)} => Held(o)' = 0
      /\ c \notin {Clear(o), Arm(o)} => Held(o)' = Held(o)
  BY <1>1, <1>2, <1>4, CountStep
<1>6. /\ KeepsOrAppends(o) /\ KeepsOrAppends(n)
      /\ Popped \in Nat /\ Popped' \in Nat
      /\ Older' = Older \/ \E b \in Buffer : Held(b)' = 0
  BY <1>1, HeldStep
<1>7. /\ Held(o) \in Nat /\ Held(n) \in Nat /\ Held(o)' \in Nat /\ Held(n)' \in Nat
  <2>1. Capacity \in Nat
    BY CommitPathAssumption
  <2> QED
    BY <1>1, <1>6, <2>1, HeldIs DEF KeepsOrAppends
<1>8. \A i \in 0 .. Held(n)' - 1 : memory'[n][i] = Popped' - Held(n)' + 1 + i
  <2> SUFFICES ASSUME NEW i \in 0 .. Held(n)' - 1
               PROVE  memory'[n][i] = Popped' - Held(n)' + 1 + i
    OBVIOUS
  <2>1. CASE i < Held(n) /\ memory'[n][i] = memory[n][i]
    BY <1>4, <1>5, <1>6, <1>7, <2>1
  <2>2. CASE i = Held(n)' - 1 /\ memory'[n][i] = Popped'
    BY <1>6, <1>7, <2>2
  <2> QED
    BY <1>6, <2>1, <2>2 DEF KeepsOrAppends
<1>9. \A i \in 0 .. Held(o)' - 1 : memory'[o][i] = Popped' - Held(n)' - Held(o)' + 1 + i
  <2> SUFFICES ASSUME NEW i \in 0 .. Held(o)' - 1
               PROVE  memory'[o][i] = Popped' - Held(n)' - Held(o)' + 1 + i
    OBVIOUS
  <2>1. Held(o)' = Held(o)
    BY <1>5, <1>7
  <2>2. i < Held(o) /\ memory'[o][i] = memory[o][i]
    BY <1>3, <1>6 DEF KeepsOrAppends
  <2> QED
    BY <1>4, <1>5, <1>6, <1>7, <2>1, <2>2
<1>10. /\ \A i \in 0 .. Held(Newer)' - 1 :
            memory'[Newer'][i] = Popped' - Held(Newer)' + 1 + i
       /\ \A i \in 0 .. Held(Older)' - 1 :
            memory'[Older'][i] = Popped' - Held(Newer)' - Held(Older)' + 1 + i
  <2>1. PICK x \in Buffer, y \in Buffer : x = Older' /\ y = Newer' /\ x # y
    <3>1. RegistersOK'
      BY <1>1, CycleKeeps
    <3> QED
      BY <3>1 DEF RegistersOK, Buffer, Active, Other, Older, Newer
  <2>2. CASE x = o
    <3>1. y = n
      BY <1>3, <2>1, <2>2
    <3> QED
      BY <1>8, <1>9, <2>1, <2>2, <3>1
  <2>3. CASE x = n
    <3>1. y = o /\ (Held(o)' = 0 \/ Held(n)' = 0)
      BY <1>2, <1>3, <1>6, <2>1, <2>3
    <3>2. /\ \A i \in 0 .. Held(o)' - 1 : memory'[o][i] = Popped' - Held(o)' + 1 + i
          /\ \A i \in 0 .. Held(n)' - 1 :
               memory'[n][i] = Popped' - Held(o)' - Held(n)' + 1 + i
      <4>1. CASE Held(o)' = 0
        BY <1>6, <1>7, <1>8, <4>1
      <4>2. CASE Held(n)' = 0
        BY <1>6, <1>7, <1>9, <4>2
      <4> QED
        BY <3>1, <4>1, <4>2
    <3> QED
      BY <2>1, <2>3, <3>1, <3>2
  <2> QED
    BY <1>3, <2>1, <2>2, <2>3
<1>11. /\ Undelivered(n) = Held(n) /\ Undelivered(n)' = Held(n)'
  <2>1. ~Delivering(n) /\ ~Delivering(n)'
    BY <1>2 DEF TurnInv, Delivering
  <2> QED
    BY <2>1 DEF Undelivered
<1>12. Undelivered(o)' = Undelivered(o) /\ Undelivered(o) \in Nat
  <2>1. CASE Delivering(o)
    <3>1. Delivering(o)' \/ Held(o)' = 0
      BY <1>5, <2>1
    <3> QED
      BY <2>1, <3>1 DEF Undelivered
  <2>2. CASE ~Delivering(o)
    <3>1. Undelivered(o) = Held(o) /\ Undelivered(o)' = Held(o)'
      BY <2>2 DEF Undelivered
    <3>2. CASE c \in {Clear(o), Arm(o)}
      <4>1. ~buffer[o].armed /\ buffer[o].count = 0
        BY <2>2, <3>2
      <4>2. Held(o) = 0
        BY <1>1, <4>1, UnarmedStep
      <4> QED
        BY <1>5, <3>1, <3>2, <4>2
    <3>3. CASE c \notin {Clear(o), Arm(o)}
      BY <1>5, <1>7, <3>1, <3>3
    <3> QED
      BY <3>2, <3>3
  <2> QED
    BY <2>1, <2>2
<1>13. ASSUME NEW i \in Delivered', queued'[i].start = starts'
       PROVE  queued'[i].commit
                = Popped' - Undelivered(0)' - Undelivered(1)' - (Len(queued') - i)
  <2>1. i \in Delivered /\ queued'[i] = queued[i] /\ Len(queued') = Len(queued)
    BY <1>13 DEF Delivered
  <2>2. queued[i].commit = Popped - Undelivered(0) - Undelivered(1) - (Len(queued) - i)
    BY <1>4, <1>13, <2>1
  <2>3. Popped' - Undelivered(0)' - Undelivered(1)' = Popped - Undelivered(0) - Undelivered(1)
    <3>1. /\ Popped' - Undelivered(n)' = Popped - Undelivered(n)
          /\ Undelivered(n) \in Nat /\ Undelivered(n)' \in Nat
      BY <1>5, <1>7, <1>11
    <3> HIDE DEF Undelivered, Popped
    <3>2. CASE o = 0 /\ n = 1
      BY <1>6, <1>12, <3>1, <3>2
    <3>3. CASE o = 1 /\ n = 0
      BY <1>6, <1>12, <3>1, <3>3
    <3> QED
      BY <1>2, <1>3, <3>2, <3>3
  <2> QED
    BY <2>1, <2>2, <2>3
<1> QED
  BY <1>5, <1>10, <1>13 DEF ExactInv

\* The engine at rest stays so until it is started.
LEMMA IdleStep ==
  ASSUME RegistersOK, NEW c, Cycle(c), writer.state = "IDLE"
  PROVE  /\ buffer' = Commanded(c) /\ memory' = memory
         /\ writer'.state = IF c = StartEngine THEN "WAIT_BUFFER" ELSE "IDLE"
  BY DEF RegistersOK, Cycle, Idle, WaitBuffer, WaitSlot, IssueDma, WaitDma, PopSlot, LeaveError,
         Goto, ToIdle

\* A sequence with one element more.
LEMMA AppendIs ==
  ASSUME NEW S, NEW s \in Seq(S), NEW t \in Seq(S), NEW e \in S,
         Len(t) = Len(s) + 1, \A i \in 1 .. Len(s) : t[i] = s[i], t[Len(t)] = e
  PROVE  Append(s, e) = t
OBVIOUS

\* The writes of start() with its end behind them.
LEMMA AppendWrites ==
  ASSUME NEW a, NEW b, NEW c, NEW d, NEW e, NEW f
  PROVE  Append(<<a, b, c, d, e>>, f) = <<a, b, c, d, e, f>>
<1>1. PICK s : s = <<a, b, c, d, e>>
  OBVIOUS
<1>2. PICK t : t = <<a, b, c, d, e, f>>
  OBVIOUS
<1>3. PICK S : S = {a, b, c, d, e, f}
  OBVIOUS
<1>4. s \in Seq(S) /\ t \in Seq(S) /\ f \in S
  BY <1>1, <1>2, <1>3
<1>5. Len(s) = 5 /\ Len(t) = 6
  BY <1>1, <1>2
<1>6. /\ Len(t) = Len(s) + 1
      /\ \A i \in 1 .. Len(s) : t[i] = s[i]
      /\ t[Len(t)] = f
  BY <1>1, <1>2, <1>5
<1>7. Append(s, f) = t
  BY <1>4, <1>6, AppendIs
<1> QED
  BY <1>1, <1>2, <1>7

\* What is left of a tuple of writes once the first one is made.
LEMMA Writes ==
  ASSUME NEW a, NEW b, NEW c, NEW d, NEW e, NEW f
  PROVE  /\ Len(<<a, b, c, d, e, f>>) = 6 /\ Len(<<b, c, d, e, f>>) = 5
         /\ Len(<<c, d, e, f>>) = 4 /\ Len(<<d, e, f>>) = 3
         /\ Len(<<e, f>>) = 2 /\ Len(<<f>>) = 1 /\ Len(<<>>) = 0
         /\ Head(<<a, b, c, d, e, f>>) = a /\ Head(<<b, c, d, e, f>>) = b
         /\ Head(<<c, d, e, f>>) = c /\ Head(<<d, e, f>>) = d
         /\ Head(<<e, f>>) = e /\ Head(<<f>>) = f
         /\ Tail(<<a, b, c, d, e, f>>) = <<b, c, d, e, f>>
         /\ Tail(<<b, c, d, e, f>>) = <<c, d, e, f>>
         /\ Tail(<<c, d, e, f>>) = <<d, e, f>>
         /\ Tail(<<d, e, f>>) = <<e, f>>
         /\ Tail(<<e, f>>) = <<f>>
<1>1. /\ Len(<<a, b, c, d, e, f>>) = 6 /\ Len(<<b, c, d, e, f>>) = 5
      /\ Len(<<c, d, e, f>>) = 4 /\ Len(<<d, e, f>>) = 3
      /\ Len(<<e, f>>) = 2 /\ Len(<<f>>) = 1 /\ Len(<<>>) = 0
  OBVIOUS
<1>2. /\ Head(<<a, b, c, d, e, f>>) = a /\ Head(<<b, c, d, e, f>>) = b
      /\ Head(<<c, d, e, f>>) = c /\ Head(<<d, e, f>>) = d
      /\ Head(<<e, f>>) = e /\ Head(<<f>>) = f
  OBVIOUS
<1>3. Tail(<<a, b, c, d, e, f>>) = <<b, c, d, e, f>>
  OBVIOUS
<1>4. Tail(<<b, c, d, e, f>>) = <<c, d, e, f>>
  OBVIOUS
<1>5. Tail(<<c, d, e, f>>) = <<d, e, f>>
  OBVIOUS
<1>6. Tail(<<d, e, f>>) = <<e, f>> /\ Tail(<<e, f>>) = <<f>>
  OBVIOUS
<1> QED
  BY <1>1, <1>2, <1>3, <1>4, <1>5, <1>6

\* The calls under way, by what is left of them.
LEMMA CallShapes ==
  /\ \A s \in StartCalls :
       /\ s # <<>> /\ s \notin StopCalls /\ Len(s) \in 1 .. 6
       /\ Len(s) = 6 => Head(s) = Clear(0)
       /\ Len(s) = 5 => Head(s) = Arm(0)
       /\ Len(s) = 4 => Head(s) = Clear(1)
       /\ Len(s) = 3 => Head(s) = Arm(1)
       /\ Len(s) = 2 => Head(s) = StartEngine
       /\ Len(s) = 1 <=> s = <<StartReturns>>
       /\ Len(s) > 1 => Tail(s) \in StartCalls /\ Len(Tail(s)) = Len(s) - 1
  /\ \A s \in StopCalls :
       /\ s # <<>> /\ s # <<StartReturns>>
       /\ Len(s) > 1 => Head(s) = StopEngine /\ Tail(s) = <<StopReturns>>
  /\ Append(StartWrites, StartReturns) \in StartCalls
  /\ Len(Append(StartWrites, StartReturns)) = 6
<1>1. StartReturns # StopReturns
  <2>1. StartReturns.does = "start returns" /\ StopReturns.does = "stop returns"
    BY DEF StartReturns, StopReturns
  <2> QED
    BY <2>1
<1> DEFINE a == Clear(0)
           b == Arm(0)
           c == Clear(1)
           d == Arm(1)
           e == StartEngine
           f == StartReturns
<1>2. /\ StartCalls = {<<a, b, c, d, e, f>>, <<b, c, d, e, f>>, <<c, d, e, f>>, <<d, e, f>>,
                       <<e, f>>, <<f>>}
      /\ Append(StartWrites, StartReturns) = <<a, b, c, d, e, f>>
  <2>1. StartWrites = <<a, b, c, d, e>>
    BY DEF StartWrites
  <2>2. Append(StartWrites, StartReturns) = <<a, b, c, d, e, f>>
    BY <2>1, AppendWrites, Zenon
  <2> QED
    BY <2>2, Zenon DEF StartCalls
<1>3. StopCalls = {<<StopEngine, StopReturns>>, <<StopReturns>>}
  BY DEF StopCalls
<1>4. /\ Len(<<StopEngine, StopReturns>>) = 2 /\ Len(<<StopReturns>>) = 1
      /\ Head(<<StopEngine, StopReturns>>) = StopEngine
      /\ Tail(<<StopEngine, StopReturns>>) = <<StopReturns>>
      /\ Head(<<StopReturns>>) = StopReturns
  BY Writes
<1>5. /\ Len(<<a, b, c, d, e, f>>) = 6 /\ Len(<<b, c, d, e, f>>) = 5
      /\ Len(<<c, d, e, f>>) = 4 /\ Len(<<d, e, f>>) = 3
      /\ Len(<<e, f>>) = 2 /\ Len(<<f>>) = 1 /\ Len(<<>>) = 0
      /\ Head(<<a, b, c, d, e, f>>) = a /\ Head(<<b, c, d, e, f>>) = b
      /\ Head(<<c, d, e, f>>) = c /\ Head(<<d, e, f>>) = d
      /\ Head(<<e, f>>) = e /\ Head(<<f>>) = f
      /\ Tail(<<a, b, c, d, e, f>>) = <<b, c, d, e, f>>
      /\ Tail(<<b, c, d, e, f>>) = <<c, d, e, f>>
      /\ Tail(<<c, d, e, f>>) = <<d, e, f>>
      /\ Tail(<<d, e, f>>) = <<e, f>>
      /\ Tail(<<e, f>>) = <<f>>
  BY Writes
<1>6. <<e, f>> # <<StopEngine, StopReturns>>
  BY <1>1
<1>7. <<f>> # <<StopReturns>> /\ <<f>> = <<StartReturns>>
  BY <1>1
<1> HIDE DEF a, b, c, d, e, f
<1>8. PICK s6, s5, s4, s3, s2, s1, s0 :
         /\ s6 = <<a, b, c, d, e, f>> /\ s5 = <<b, c, d, e, f>> /\ s4 = <<c, d, e, f>>
         /\ s3 = <<d, e, f>> /\ s2 = <<e, f>> /\ s1 = <<f>> /\ s0 = <<>>
  OBVIOUS
<1>9. /\ Len(s6) = 6 /\ Len(s5) = 5 /\ Len(s4) = 4 /\ Len(s3) = 3 /\ Len(s2) = 2
       /\ Len(s1) = 1 /\ Len(s0) = 0
  BY <1>5, <1>8, Zenon
<1>10. /\ Head(s6) = a /\ Head(s5) = b /\ Head(s4) = c /\ Head(s3) = d /\ Head(s2) = e
       /\ Tail(s6) = s5 /\ Tail(s5) = s4 /\ Tail(s4) = s3 /\ Tail(s3) = s2 /\ Tail(s2) = s1
  BY <1>5, <1>8, Zenon
<1>11. StartCalls = {s6, s5, s4, s3, s2, s1} /\ s0 = <<>>
  BY <1>2, <1>8, Zenon
<1>12. ASSUME NEW s \in StartCalls
      PROVE  /\ s # <<>> /\ s \notin StopCalls /\ Len(s) \in 1 .. 6
             /\ Len(s) = 6 => Head(s) = a
             /\ Len(s) = 5 => Head(s) = b
             /\ Len(s) = 4 => Head(s) = c
             /\ Len(s) = 3 => Head(s) = d
             /\ Len(s) = 2 => Head(s) = e
             /\ Len(s) = 1 <=> s = <<f>>
             /\ Len(s) > 1 => Tail(s) \in StartCalls /\ Len(Tail(s)) = Len(s) - 1
  <2>1. s = s6 \/ s = s5 \/ s = s4 \/ s = s3 \/ s = s2 \/ s = s1
    BY <1>11
  <2>2. PICK n : n = Len(s)
    OBVIOUS
  <2>3. \/ (s = s6 /\ n = 6) \/ (s = s5 /\ n = 5) \/ (s = s4 /\ n = 4) \/ (s = s3 /\ n = 3)
        \/ (s = s2 /\ n = 2) \/ (s = s1 /\ n = 1)
    BY <1>9, <2>1, <2>2, Zenon
  <2>4. /\ n \in 1 .. 6
        /\ n = 6 => s = s6
        /\ n = 5 => s = s5
        /\ n = 4 => s = s4
        /\ n = 3 => s = s3
        /\ n = 2 => s = s2
        /\ n = 1 => s = s1
    BY <2>3
  <2>5. (s = s1 => n = 1) /\ (s = s0 => n = 0)
    BY <1>9, <2>2, Zenon
  <2>6. s # s0 /\ (n > 1 => s # s1)
    BY <2>4, <2>5
  <2>7. /\ s # s0 /\ Len(s) \in 1 .. 6
        /\ Len(s) = 6 => s = s6
        /\ Len(s) = 5 => s = s5
        /\ Len(s) = 4 => s = s4
        /\ Len(s) = 3 => s = s3
        /\ Len(s) = 2 => s = s2
        /\ Len(s) = 1 <=> s = s1
    BY <2>2, <2>4, <2>5, <2>6, Zenon
  <2>8. s \notin StopCalls
    <3>1. PICK p2, p1 : p2 = <<StopEngine, StopReturns>> /\ p1 = <<StopReturns>>
      OBVIOUS
    <3>2. Len(p2) = 2 /\ Len(p1) = 1
      BY <1>4, <3>1, Zenon
    <3>3. StopCalls = {p2, p1} /\ s2 # p2 /\ s1 # p1
      BY <1>3, <1>6, <1>7, <1>8, <3>1, Zenon
    <3>4. s # p2 /\ s # p1
      BY <2>7, <3>2, <3>3
    <3> QED
      BY <3>3, <3>4, Zenon
  <2>9. ASSUME Len(s) > 1
        PROVE  Tail(s) \in StartCalls /\ Len(Tail(s)) = Len(s) - 1
    <3>1. s # s1
      BY <2>9, <2>2, <2>6, Zenon
    <3>2. PICK r \in StartCalls : /\ Tail(s) = r
                                  /\ \/ (s = s6 /\ r = s5) \/ (s = s5 /\ r = s4)
                                     \/ (s = s4 /\ r = s3) \/ (s = s3 /\ r = s2)
                                     \/ (s = s2 /\ r = s1)
      BY <1>10, <1>11, <2>1, <3>1, Zenon
    <3>3. Len(r) = Len(s) - 1
      BY <1>9, <3>2
    <3> QED
      BY <3>2, <3>3, Zenon
  <2> QED
    BY <1>8, <1>10, <1>11, <2>7, <2>8, <2>9, Zenon
<1>13. ASSUME NEW s \in StopCalls
      PROVE  /\ s # <<>> /\ s # <<StartReturns>>
             /\ Len(s) > 1 => Head(s) = StopEngine /\ Tail(s) = <<StopReturns>>
  <2>1. PICK p2, p1, q, z :
          /\ p2 = <<StopEngine, StopReturns>> /\ p1 = <<StopReturns>> /\ q = <<StartReturns>>
          /\ z = <<>>
    OBVIOUS
  <2>2. Len(p2) = 2 /\ Len(p1) = 1 /\ Len(q) = 1 /\ Len(z) = 0
    BY <1>4, <1>5, <1>7, <2>1, Zenon
  <2>3. Head(p2) = StopEngine /\ Tail(p2) = p1 /\ q # p1
    BY <1>4, <1>7, <2>1, Zenon
  <2>4. s = p2 \/ s = p1
    BY <1>3, <2>1, Zenon
  <2>5. PICK n : n = Len(s)
    OBVIOUS
  <2>6. (s = p2 => n = 2) /\ (s = p1 => n = 1) /\ (s = z => n = 0)
    BY <2>2, <2>5, Zenon
  <2>7. n # 0 /\ (n > 1 => s # p1)
    BY <2>4, <2>6
  <2>8. s # z /\ (Len(s) > 1 => s = p2)
    BY <2>4, <2>5, <2>6, <2>7, Zenon
  <2>9. p2 # q
    <3>1. Len(p2) # Len(q)
      BY <2>2
    <3> QED
      BY <3>1, Zenon
  <2> QED
    BY <2>1, <2>3, <2>4, <2>8, <2>9, Zenon
<1> QED
  BY <1>2, <1>5, <1>7, <1>12, <1>13 DEF a, b, c, d, e, f

\* What a sequence holds.
LEMMA Element ==
  ASSUME NEW S, NEW s \in Seq(S)
  PROVE  Len(s) \in Nat /\ DOMAIN s = 1 .. Len(s) /\ \A i \in DOMAIN s : s[i] \in S
OBVIOUS

\* A step that leaves the buffers alone and delivers nothing disturbs nothing of what has
\* been delivered.
LEMMA StillStep ==
  ASSUME OrderInv, UNCHANGED <<writer, buffer, memory>>, Popped' = Popped,
         RingInv', TransferInv',
         queued' \in Seq(Record), Delivered' = Delivered,
         \A i \in Delivered : queued'[i] = queued[i],
         starts' \in {starts, starts + 1}, overtaken => overtaken', hasty => hasty',
         \A b \in Buffer : Delivering(b) \/ Leftover(b) => Delivering(b)' \/ Leftover(b)',
         InRun' => /\ InRun /\ Len(queued') = Len(queued) /\ starts' = starts
                   /\ \A b \in Buffer : Delivering(b)' \/ Leftover(b)' =>
                        Delivering(b) \/ Leftover(b),
         task'.at = "copy" => task'.count = Capacity,
         ~overtaken' /\ task'.at \in {"count", "copy", "clear"} => task'.buffer = Older
  PROVE  StoreInv' /\ QueuedInv' /\ TurnInv' /\ ExactInv' /\ RecordsInOrder'
<1>1. StoreInv /\ QueuedInv /\ TurnInv /\ ExactInv /\ RecordsInOrder
  BY DEF OrderInv
<1>2. /\ InTransfer' = InTransfer /\ Active' = Active /\ Older' = Older /\ Newer' = Newer
      /\ Other' = Other
  BY DEF InTransfer, Active, Older, Newer, Other
<1>3. \A b \in Buffer : Held(b)' = Held(b)
  BY <1>2 DEF Held
<1>4. Held(Older)' = Held(Older) /\ Held(Newer)' = Held(Newer)
  BY <1>2 DEF Held
<1>5. StoreInv'
  <2>1. ContentInv
    BY <1>1 DEF StoreInv
  <2>2. ContentInv'
    BY <1>2, <1>3, <1>4, <2>1 DEF ContentInv
  <2> QED
    BY <2>2 DEF StoreInv
<1>6. QueuedInv'
  <2>1. \A i \in Delivered : queued[i].commit \in 1 .. Popped /\ queued[i].start <= starts
    BY <1>1 DEF QueuedInv
  <2>2. ASSUME NEW i \in Delivered
        PROVE  queued[i].start <= starts'
    <3>1. starts \in Nat /\ queued \in Seq(Record) /\ i \in DOMAIN queued
      BY <1>1, <2>2 DEF QueuedInv, Delivered
    <3>2. queued[i] \in Record
      BY <3>1, Element
    <3>3. queued[i].start \in Nat
      BY <3>2 DEF Record
    <3> QED
      BY <2>1, <3>1, <3>3
  <2>3. starts' \in Nat
    BY <1>1 DEF QueuedInv
  <2> QED
    BY <2>1, <2>2, <2>3 DEF QueuedInv
<1>7. TurnInv'
  <2>1. ASSUME ~overtaken', NEW i \in Delivered, NEW b \in Buffer,
               NEW k \in 0 .. Undelivered(b)' - 1
        PROVE  queued[i].commit < memory[b][k]
    <3>1. k \in 0 .. Undelivered(b) - 1
      BY <1>3, <2>1 DEF Undelivered
    <3> QED
      BY <1>1, <2>1, <3>1 DEF TurnInv
  <2> QED
    BY <1>2, <2>1 DEF TurnInv
<1>8. ExactInv'
  <2> SUFFICES ASSUME InRun', ~hasty', ~overtaken'
               PROVE  ExactInv'
    BY DEF ExactInv
  <2>1. \A b \in Buffer : Undelivered(b)' = Undelivered(b)
    BY <1>3 DEF Undelivered
  <2>2. Undelivered(0)' = Undelivered(0) /\ Undelivered(1)' = Undelivered(1)
    BY <2>1 DEF Buffer
  <2> QED
    BY <1>1, <1>2, <1>4, <2>2 DEF ExactInv
<1>9. RecordsInOrder'
  BY <1>1 DEF RecordsInOrder
<1> QED
  BY <1>5, <1>6, <1>7, <1>8, <1>9

\* Which element is where in two sequences, one behind the other.
LEMMA Joined ==
  ASSUME NEW S, NEW s \in Seq(S), NEW t \in Seq(S)
  PROVE  /\ s \o t \in Seq(S) /\ Len(s \o t) = Len(s) + Len(t)
         /\ \A i \in 1 .. Len(s) : (s \o t)[i] = s[i]
OBVIOUS

\* What run() puts on the queue: the whole of a full buffer, behind what is there.
LEMMA CopyIs ==
  ASSUME IInv, OrderInv, CopySlots
  PROVE  LET old == Len(queued)  b == task.buffer IN
         /\ old \in Nat /\ Len(queued') = old + Capacity /\ queued' \in Seq(Record)
         /\ \A i \in 1 .. old : queued'[i] = queued[i]
         /\ \A k \in Index : queued'[old + 1 + k] = [commit |-> memory[b][k], start |-> starts]
         /\ \A i \in DOMAIN queued' :
              i \in 1 .. old \/ \E k \in Index : i = old + 1 + k
<1> DEFINE old == Len(queued)
           b == task.buffer
           copy == Records(b, Capacity)
<1>1. /\ queued \in Seq(Record) /\ starts \in Nat /\ task.count = Capacity /\ Capacity \in Nat
      /\ b \in Buffer /\ memory \in [Buffer -> [Index -> Nat]]
  BY CommitPathAssumption
     DEF IInv, TaskOK, OrderInv, QueuedInv, StoreInv, ContentInv, CopySlots
<1>2. copy = [i \in 1 .. Capacity |-> [commit |-> memory[b][i - 1], start |-> starts]]
  BY DEF Records
<1>3. copy \in [1 .. Capacity -> Record]
  <2>1. ASSUME NEW i \in 1 .. Capacity
        PROVE  [commit |-> memory[b][i - 1], start |-> starts] \in Record
    <3>1. i - 1 \in Index
      BY <1>1 DEF Index
    <3>2. memory[b][i - 1] \in Nat
      BY <1>1, <3>1
    <3> QED
      BY <1>1, <3>2 DEF Record
  <2> QED
    BY <1>2, <2>1
<1> HIDE DEF copy, b
<1>4. copy \in Seq(Record) /\ Len(copy) = Capacity
  BY <1>1, <1>3, Tuple
<1>5. queued' = queued \o copy
  BY <1>1 DEF CopySlots, copy, b
<1>6. /\ queued' \in Seq(Record) /\ Len(queued') = old + Capacity
      /\ \A i \in 1 .. old : queued'[i] = queued[i]
      /\ \A i \in 1 .. Capacity : queued'[old + i] = copy[i]
  <2>1. /\ queued \o copy \in Seq(Record) /\ Len(queued \o copy) = Len(queued) + Len(copy)
        /\ \A i \in 1 .. Len(queued) : (queued \o copy)[i] = queued[i]
        /\ \A i \in 1 .. Len(copy) : (queued \o copy)[Len(queued) + i] = copy[i]
    <3>1. queued \in Seq(Record) /\ copy \in Seq(Record)
      BY <1>1, <1>4
    <3>2. queued \o copy \in Seq(Record) /\ Len(queued \o copy) = Len(queued) + Len(copy)
      BY <3>1, Joined, Zenon
    <3>3. \A i \in 1 .. Len(queued) : (queued \o copy)[i] = queued[i]
      BY <3>1, Joined, Zenon
    <3>4. \A i \in 1 .. Len(copy) : (queued \o copy)[Len(queued) + i] = copy[i]
      BY <3>1, SMT
    <3> QED
      BY <3>2, <3>3, <3>4
  <2> QED
    BY <1>4, <1>5, <2>1, Zenon
<1>7. old \in Nat
  BY <1>1, Element
<1> HIDE DEF old
<1>8. ASSUME NEW k \in Index
      PROVE  queued'[old + 1 + k] = [commit |-> memory[b][k], start |-> starts]
  <2>1. PICK i \in 1 .. Capacity : i = 1 + k /\ i - 1 = k /\ old + i = old + 1 + k
    BY <1>1, <1>7 DEF Index
  <2>2. copy[i] = [commit |-> memory[b][i - 1], start |-> starts]
    BY <1>2
  <2> QED
    BY <1>6, <2>1, <2>2
<1>9. ASSUME NEW i \in DOMAIN queued'
      PROVE  i \in 1 .. old \/ \E k \in Index : i = old + 1 + k
  <2>1. i \in 1 .. old + Capacity
    BY <1>6, Element
  <2>2. CASE i > old
    <3>1. i - old - 1 \in Index /\ i = old + 1 + (i - old - 1)
      BY <1>1, <1>7, <2>1, <2>2 DEF Index
    <3> QED
      BY <3>1
  <2> QED
    BY <1>7, <2>1, <2>2
<1> QED
  BY <1>6, <1>7, <1>8, <1>9 DEF old, b

\* The records of the older buffer go behind those that were delivered, which are older.
LEMMA CopyStep ==
  ASSUME IInv, OrderInv, CopySlots
  PROVE  StoreInv' /\ QueuedInv' /\ TurnInv' /\ ExactInv' /\ RecordsInOrder'
<1>1. PICK old, b : old = Len(queued) /\ b = task.buffer
  OBVIOUS
<1>2. /\ old \in Nat /\ Len(queued') = old + Capacity /\ queued' \in Seq(Record)
      /\ \A i \in 1 .. old : queued'[i] = queued[i]
      /\ \A k \in Index : queued'[old + 1 + k] = [commit |-> memory[b][k], start |-> starts]
      /\ \A i \in DOMAIN queued' : i \in 1 .. old \/ \E k \in Index : i = old + 1 + k
  BY <1>1, CopyIs, Zenon
<1>3. /\ RegistersOK /\ FullIsDone /\ WorksInArmed /\ TaskOK
      /\ StoreInv /\ QueuedInv /\ TurnInv /\ ExactInv /\ RecordsInOrder
  BY DEF IInv, OrderInv
<1>4. /\ task.at = "copy" /\ b \in Buffer /\ buffer[b].done /\ device = "RUNNING"
      /\ task'.at = "clear" /\ task'.buffer = b
      /\ UNCHANGED <<ring, writer, buffer, memory, device, call, arrived, starts, hasty, overtaken>>
  BY <1>1 DEF CopySlots, IInv, TaskOK, TaskHolds, TaskAlone, hardware
<1>5. /\ Held(b) = Capacity /\ Capacity \in Nat
      /\ \A x \in Buffer : Held(x) \in Nat
  <2>1. Capacity \in Nat
    BY CommitPathAssumption
  <2> QED
    BY <1>3, <1>4, <2>1, HeldIs
<1>6. /\ Popped' = Popped /\ InTransfer' = InTransfer /\ Active' = Active
      /\ Older' = Older /\ Newer' = Newer /\ Other' = Other
      /\ \A x \in Buffer : Held(x)' = Held(x)
      /\ Held(Older)' = Held(Older) /\ Held(Newer)' = Held(Newer)
  BY <1>4 DEF Popped, InTransfer, Active, Older, Newer, Other, Held
<1>7. StoreInv'
  <2>1. RingInv /\ TransferInv /\ ContentInv
    BY <1>3 DEF StoreInv
  <2>2. RingInv' /\ TransferInv'
    BY <1>4, <1>6, <2>1 DEF RingInv, TransferInv
  <2>3. ContentInv'
    BY <1>4, <1>6, <2>1 DEF ContentInv
  <2> QED
    BY <2>2, <2>3 DEF StoreInv
<1>8. /\ \A x \in Buffer : ~Leftover(x) /\ ~Leftover(x)' /\ ~Delivering(x)
      /\ \A x \in Buffer : Delivering(x)' <=> x = b
  BY <1>4 DEF Leftover, Delivering
<1>9. /\ \A x \in Buffer : Undelivered(x) = Held(x)
      /\ \A x \in Buffer : Undelivered(x)' = IF x = b THEN 0 ELSE Held(x)
  BY <1>6, <1>8 DEF Undelivered
<1>10. \A k \in Index : memory[b][k] \in 1 .. Popped /\ Popped \in Nat
  <2>1. \A k \in Index : k \in 0 .. Held(b) - 1
    BY <1>5 DEF Index
  <2>2. Popped \in Nat
    BY <1>3 DEF StoreInv, RingInv, Popped
  <2> QED
    BY <1>3, <1>4, <2>1, <2>2 DEF StoreInv, ContentInv
\* Where a delivered record comes from.
<1>11. ASSUME NEW i \in Delivered'
       PROVE  \/ i \in 1 .. old /\ i \in Delivered /\ queued'[i] = queued[i]
              \/ \E k \in Index : /\ i = old + 1 + k
                                  /\ queued'[i].commit = memory[b][k] /\ queued'[i].start = starts
  <2>1. i \in DOMAIN queued' /\ queued'[i] # Stopped
    BY <1>11 DEF Delivered
  <2>2. CASE i \in 1 .. old
    <3>1. i \in DOMAIN queued
      BY <1>1, <1>3, <2>2, Element DEF QueuedInv
    <3> QED
      BY <1>2, <2>1, <2>2, <3>1 DEF Delivered
  <2>3. CASE i \notin 1 .. old
    <3>1. PICK k \in Index : i = old + 1 + k
      BY <1>2, <2>1, <2>3
    <3>2. queued'[i] = [commit |-> memory[b][k], start |-> starts]
      BY <1>2, <3>1
    <3> QED
      BY <3>1, <3>2
  <2> QED
    BY <2>2, <2>3
<1>12. QueuedInv'
  <2>1. starts' \in Nat /\ starts' = starts
    BY <1>3, <1>4 DEF QueuedInv
  <2>2. \A i \in Delivered : queued[i].commit \in 1 .. Popped /\ queued[i].start <= starts
    BY <1>3 DEF QueuedInv
  <2>3. ASSUME NEW i \in Delivered'
        PROVE  queued'[i].commit \in 1 .. Popped' /\ queued'[i].start <= starts'
    <3>1. CASE i \in Delivered /\ queued'[i] = queued[i]
      BY <1>6, <2>1, <2>2, <3>1
    <3>2. CASE \E k \in Index : queued'[i].commit = memory[b][k] /\ queued'[i].start = starts
      BY <1>6, <1>10, <2>1, <3>2
    <3> QED
      BY <1>11, <3>1, <3>2
  <2> QED
    BY <1>2, <1>4, <2>1, <2>3 DEF QueuedInv
<1>13. ASSUME ~overtaken
       PROVE  /\ b = Older /\ b = Older' /\ b # Newer /\ Newer \in Buffer
              /\ \A x \in Buffer : x = b \/ x = Newer
              /\ \A i \in Delivered : \A x \in Buffer : \A k \in 0 .. Held(x) - 1 :
                   queued[i].commit < memory[x][k]
              /\ \A k \in Index : \A j \in 0 .. Held(Newer) - 1 : memory[b][k] < memory[Newer][j]
  <2>1. b = Older
    BY <1>1, <1>3, <1>4, <1>13 DEF TurnInv
  <2>2. b # Newer /\ Newer \in Buffer /\ \A x \in Buffer : x = b \/ x = Newer
    BY <1>3, <2>1, Buffers
  <2>3. \A k \in Index : k \in 0 .. Held(b) - 1
    BY <1>5 DEF Index
  <2>4. \A k \in Index : \A j \in 0 .. Held(Newer) - 1 : memory[b][k] < memory[Newer][j]
    <3>1. \A i \in 0 .. Held(Older) - 1, j \in 0 .. Held(Newer) - 1 :
            memory[Older][i] < memory[Newer][j]
      BY <1>3 DEF StoreInv, ContentInv
    <3> QED
      BY <2>1, <2>3, <3>1
  <2> QED
    BY <1>3, <1>6, <1>9, <1>13, <2>1, <2>2, <2>4 DEF TurnInv
<1>14. TurnInv'
  <2> SUFFICES ASSUME ~overtaken PROVE TurnInv'
    BY <1>4 DEF TurnInv
  <2>1. ASSUME NEW i \in Delivered', NEW x \in Buffer, NEW k \in 0 .. Undelivered(x)' - 1
        PROVE  queued'[i].commit < memory'[x][k]
    <3>1. x # b
      BY <1>9, <2>1
    <3>2. x = Newer /\ k \in 0 .. Held(Newer) - 1
      BY <1>9, <1>13, <2>1, <3>1
    <3> QED
      BY <1>4, <1>11, <1>13, <3>2
  <2> QED
    BY <1>4, <1>13, <2>1 DEF TurnInv
\* How old a record is says how far back it is.
<1>15. ASSUME ~hasty, ~overtaken
       PROVE  /\ InTransfer => writer.to = buffer[Active].count
              /\ \A i \in 0 .. Held(Newer) - 1 :
                   memory[Newer][i] = Popped - Held(Newer) + 1 + i
              /\ \A i \in 0 .. Held(Older) - 1 :
                   memory[Older][i] = Popped - Held(Newer) - Held(Older) + 1 + i
              /\ \A i \in Delivered' : queued'[i].start = starts =>
                   queued'[i].commit = Popped - Held(Newer) - (old + Capacity - i)
  <2>1. /\ InTransfer => writer.to = buffer[Active].count
        /\ \A i \in 0 .. Held(Newer) - 1 :
             memory[Newer][i] = Popped - Held(Newer) + 1 + i
        /\ \A i \in 0 .. Held(Older) - 1 :
             memory[Older][i] = Popped - Held(Newer) - Held(Older) + 1 + i
        /\ \A i \in Delivered : queued[i].start = starts =>
             queued[i].commit = Popped - Undelivered(0) - Undelivered(1) - (old - i)
    BY <1>1, <1>3, <1>4, <1>15 DEF ExactInv, InRun
  <2>2. PICK n \in Buffer : n = Newer /\ n # b /\ Held(n) \in Nat
    BY <1>5, <1>13, <1>15
  <2>3. Undelivered(0) + Undelivered(1) = Capacity + Held(n)
    <3>1. Undelivered(b) = Capacity /\ Undelivered(n) = Held(n)
      BY <1>4, <1>5, <1>9
    <3>2. (b = 0 /\ n = 1) \/ (b = 1 /\ n = 0)
      BY <1>4, <2>2 DEF Buffer
    <3> HIDE DEF Undelivered, Held
    <3> QED
      BY <1>5, <2>2, <3>1, <3>2
  <2>4. Undelivered(0) \in Nat /\ Undelivered(1) \in Nat /\ Popped \in Nat
    <3>1. Undelivered(0) = Held(0) /\ Undelivered(1) = Held(1)
      BY <1>9 DEF Buffer
    <3>2. Popped \in Nat
      BY <1>3 DEF StoreInv, RingInv, Popped
    <3> QED
      BY <1>5, <3>1, <3>2 DEF Buffer
  <2>5. ASSUME NEW i \in Delivered', queued'[i].start = starts
        PROVE  queued'[i].commit = Popped - Held(n) - (old + Capacity - i)
    <3> HIDE DEF Undelivered, Held, Popped
    <3>1. CASE i \in 1 .. old /\ i \in Delivered /\ queued'[i] = queued[i]
      <4>1. queued[i].commit = Popped - Undelivered(0) - Undelivered(1) - (old - i)
        BY <2>1, <2>5, <3>1
      <4>2. i \in Int
        BY <3>1
      <4>3. PICK u \in Nat, v \in Nat : u = Undelivered(0) /\ v = Undelivered(1)
        BY <2>4
      <4>4. PICK h \in Nat : h = Held(n) /\ u + v = Capacity + h
        BY <2>2, <2>3, <4>3
      <4>5. queued[i].commit = Popped - u - v - (old - i)
        BY <4>1, <4>3
      <4>6. old \in Nat /\ Capacity \in Nat /\ Popped \in Nat
        BY <1>2, <1>5, <2>4
      <4>7. Popped - u - v - (old - i) = Popped - h - (old + Capacity - i)
        BY <4>2, <4>4, <4>6
      <4> QED
        BY <3>1, <4>4, <4>5, <4>7
    <3>2. CASE \E k \in Index : i = old + 1 + k /\ queued'[i].commit = memory[b][k]
      <4>1. PICK k \in Index : i = old + 1 + k /\ queued'[i].commit = memory[b][k]
        BY <3>2
      <4>2. k \in 0 .. Held(b) - 1 /\ k \in Nat
        BY <1>5, <4>1 DEF Index
      <4>3. memory[b][k] = Popped - Held(n) - Held(b) + 1 + k
        BY <1>13, <1>15, <2>1, <2>2, <4>2
      <4>4. PICK h \in Nat : h = Held(n)
        BY <2>2
      <4>5. Held(b) = Capacity /\ Capacity \in Nat /\ old \in Nat /\ Popped \in Nat
        BY <1>2, <1>5, <2>4
      <4>6. queued'[i].commit = Popped - h - Capacity + 1 + k
        BY <4>1, <4>3, <4>4, <4>5
      <4>7. Popped - h - Capacity + 1 + k = Popped - h - (old + Capacity - (old + 1 + k))
        BY <4>2, <4>5
      <4> QED
        BY <4>1, <4>4, <4>6, <4>7
    <3> QED
      BY <1>11, <2>5, <3>1, <3>2
  <2> QED
    BY <2>1, <2>2, <2>5
<1>16. ExactInv'
  <2> SUFFICES ASSUME ~hasty, ~overtaken PROVE ExactInv'
    BY <1>4 DEF ExactInv
  <2>1. PICK n \in Buffer : n = Newer /\ n # b /\ Held(n) \in Nat
    BY <1>5, <1>13
  <2>2. Undelivered(0)' + Undelivered(1)' = Held(n)
        /\ Undelivered(0)' \in Nat /\ Undelivered(1)' \in Nat
    <3>1. Undelivered(b)' = 0 /\ Undelivered(n)' = Held(n)
      BY <1>4, <1>9, <2>1
    <3>2. (b = 0 /\ n = 1) \/ (b = 1 /\ n = 0)
      BY <1>4, <2>1 DEF Buffer
    <3> HIDE DEF Undelivered, Held
    <3> QED
      BY <2>1, <3>1, <3>2
  <2>3. ASSUME NEW i \in Delivered', queued'[i].start = starts
        PROVE  queued'[i].commit
                 = Popped - Undelivered(0)' - Undelivered(1)' - (Len(queued') - i)
    <3>1. queued'[i].commit = Popped - Held(n) - (old + Capacity - i)
      BY <1>15, <2>1, <2>3
    <3>2. Popped \in Nat
      BY <1>3 DEF StoreInv, RingInv, Popped
    <3>3. Popped - Undelivered(0)' - Undelivered(1)' = Popped - Held(n)
      <4> HIDE DEF Undelivered, Held, Popped
      <4> QED
        BY <2>1, <2>2, <3>2
    <3>4. PICK l, w : /\ l = Len(queued') /\ l = old + Capacity
                      /\ w = Popped - Undelivered(0)' - Undelivered(1)' /\ w = Popped - Held(n)
      BY <1>2, <3>3
    <3>5. i \in Int
      BY <1>2, <1>5, <1>11 DEF Index
    <3>6. PICK p \in Nat, h \in Nat : p = Popped /\ h = Held(n)
      BY <2>1, <3>2
    <3>7. queued'[i].commit = p - h - (old + Capacity - i) /\ w = p - h
      BY <3>1, <3>4, <3>6
    <3>8. old \in Nat /\ Capacity \in Nat /\ l = old + Capacity
      BY <1>2, <1>5, <3>4
    <3>9. queued'[i].commit = w - (l - i)
      BY <3>5, <3>6, <3>7, <3>8
    <3> QED
      BY <3>4, <3>9
  <2> QED
    BY <1>4, <1>6, <1>15, <2>3 DEF ExactInv
<1>17. RecordsInOrder'
  <2>1. \A i \in Delivered' : queued'[i].commit # 0
    BY <1>6, <1>10, <1>12 DEF QueuedInv
  <2>2. ASSUME NEW i \in Delivered', NEW j \in Delivered', i < j, ~overtaken
        PROVE  queued'[j].commit > queued'[i].commit
    <3>1. queued'[i].commit \in Nat /\ queued'[j].commit \in Nat
      BY <1>6, <1>10, <1>12 DEF QueuedInv
    <3>2. CASE j \in 1 .. old /\ j \in Delivered /\ queued'[j] = queued[j]
      <4>1. i \in Delivered /\ queued'[i] = queued[i]
        BY <1>2, <1>5, <1>11, <2>2, <3>2 DEF Index
      <4> QED
        BY <1>3, <2>2, <3>2, <4>1 DEF RecordsInOrder
    <3>3. ASSUME NEW k \in Index, j = old + 1 + k, queued'[j].commit = memory[b][k]
          PROVE  queued'[j].commit > queued'[i].commit
      <4>1. CASE i \in Delivered /\ queued'[i] = queued[i]
        <5>1. k \in 0 .. Held(b) - 1
          BY <1>5 DEF Index
        <5>2. queued[i].commit < memory[b][k]
          BY <1>4, <1>13, <2>2, <4>1, <5>1
        <5> QED
          BY <3>1, <3>3, <4>1, <5>2
      <4>2. ASSUME NEW l \in Index, i = old + 1 + l, queued'[i].commit = memory[b][l]
            PROVE  queued'[j].commit > queued'[i].commit
        <5>1. l < k /\ l \in 0 .. Held(b) - 1 /\ k \in 0 .. Held(b) - 1
          BY <1>2, <1>5, <2>2, <3>3, <4>2 DEF Index
        <5>2. memory[b][l] < memory[b][k]
          BY <1>3, <1>4, <5>1 DEF StoreInv, ContentInv
        <5> QED
          BY <3>1, <3>3, <4>2, <5>2
      <4> QED
        BY <1>11, <4>1, <4>2
    <3> QED
      BY <1>11, <3>2, <3>3
  <2>3. ASSUME NEW i \in Delivered', NEW j \in Delivered', i < j, ~overtaken, ~hasty,
               queued'[i].start = queued'[j].start
        PROVE  queued'[j].commit = queued'[i].commit + (j - i)
    <3>1. CASE j \in 1 .. old /\ j \in Delivered /\ queued'[j] = queued[j]
      <4>1. i \in Delivered /\ queued'[i] = queued[i]
        BY <1>2, <1>5, <1>11, <2>3, <3>1 DEF Index
      <4> QED
        BY <1>3, <2>3, <3>1, <4>1 DEF RecordsInOrder
    <3>2. CASE queued'[j].start = starts
      <4>1. PICK n \in Nat : n = Held(Newer)
        BY <1>5, <1>13, <2>3
      <4>2. /\ queued'[i].commit = Popped - n - (old + Capacity - i)
            /\ queued'[j].commit = Popped - n - (old + Capacity - j)
        BY <1>15, <2>3, <3>2, <4>1
      <4>3. Popped \in Nat /\ i \in Int /\ j \in Int
        <5>1. Popped \in Nat
          BY <1>3 DEF StoreInv, RingInv, Popped
        <5> QED
          BY <1>2, <1>5, <1>11, <5>1 DEF Index
      <4> HIDE DEF Popped
      <4> QED
        BY <1>2, <1>5, <4>2, <4>3
    <3> QED
      BY <1>11, <3>1, <3>2
  <2> QED
    BY <1>4, <2>1, <2>2, <2>3 DEF RecordsInOrder
<1> QED
  BY <1>7, <1>12, <1>14, <1>16, <1>17

\* Once a run has begun nothing of the runs before it is left in the buffers.
LEMMA NoLeftover ==
  /\ InRun => \A b \in Buffer : ~Leftover(b)
  /\ InRun' => \A b \in Buffer : ~Leftover(b)'
<1>1. <<StartReturns>> \in StartCalls /\ Len(<<StartReturns>>) = 1
  BY CallShapes DEF StartCalls
<1>2. ASSUME InRun, NEW b \in Buffer PROVE ~Leftover(b)
  <2>1. CASE call = <<StartReturns>>
    <3>1. call \in StartCalls /\ Len(call) = 1
      BY <1>1, <2>1, Zenon
    <3>2. Len(call) <= IF b = 0 THEN 5 ELSE 3
      BY <3>1
    <3> QED
      BY <3>1, <3>2 DEF Leftover, Cleared
  <2>2. CASE device = "RUNNING"
    BY <2>2 DEF Leftover
  <2> QED
    BY <1>2, <2>1, <2>2 DEF InRun
<1>3. ASSUME InRun', NEW b \in Buffer PROVE ~Leftover(b)'
  <2>1. CASE call' = <<StartReturns>>
    <3>1. call' \in StartCalls /\ Len(call') = 1
      BY <1>1, <2>1, Zenon
    <3>2. Len(call') <= IF b = 0 THEN 5 ELSE 3
      BY <3>1
    <3> QED
      BY <3>1, <3>2 DEF Leftover, Cleared
  <2>2. CASE device' = "RUNNING"
    BY <2>2 DEF Leftover
  <2> QED
    BY <1>3, <2>1, <2>2 DEF InRun
<1> QED
  BY <1>2, <1>3

\* What is left of an earlier run stays until start() clears it.
LEMMA LeftoverStep ==
  ASSUME IInv, StoreInv, NEW c, Cycle(c), NEW b \in Buffer, Leftover(b),
         device' # "RUNNING", Cleared(b)' => Cleared(b), c \notin {Clear(b), Arm(b)}
  PROVE  Leftover(b)'
<1>1. buffer[b].done /\ ~buffer[b].armed
  BY DEF Leftover, IInv, FullIsDone
<1>2. buffer'[b] = buffer[b]
  BY <1>1, UnarmedStep, CommandedIs DEF IInv
<1> QED
  BY <1>1, <1>2 DEF Leftover

\* A cycle of the engine, with or without a command, as the invariant sees it.
LEMMA CycleStep ==
  ASSUME IInv, OrderInv, NEW c, Cycle(c),
         UNCHANGED <<arrived, queued, starts, overtaken>>, hasty => hasty',
         \A b \in Buffer : Delivering(b) \/ Leftover(b) =>
           Delivering(b)' \/ Leftover(b)' \/ c \in {Clear(b), Arm(b)},
         task'.at \in {"count", "copy", "clear"} =>
           task' = task /\ \A b \in Buffer : c \notin {Clear(b), Arm(b)},
         (InRun' /\ ~hasty' /\ ~overtaken) =>
           /\ InRun
           /\ \A b \in Buffer : c \in {Clear(b), Arm(b)} =>
                ~buffer[b].armed /\ (buffer[b].count = 0 \/ (b = Older /\ Delivering(b)))
           /\ \A b \in Buffer : Delivering(b)' => Delivering(b)
           /\ \A b \in Buffer : Delivering(b) => Delivering(b)' \/ c = Clear(b)
  PROVE  StoreInv' /\ QueuedInv' /\ TurnInv' /\ ExactInv' /\ RecordsInOrder'
<1>1. StoreInv /\ QueuedInv /\ TurnInv /\ ExactInv /\ RecordsInOrder
  BY DEF OrderInv
<1>2. StoreInv'
  BY <1>1, StoreStep DEF IInv
<1>3. QueuedInv' /\ TurnInv'
  BY <1>1, TurnStep
<1>4. ASSUME InRun', ~hasty', ~overtaken
      PROVE  ExactInv'
  <2>1. InRun /\ ~hasty
    BY <1>4
  <2>2. \A b \in Buffer : ~Leftover(b) /\ ~Leftover(b)'
    BY <1>4, <2>1, NoLeftover
  <2> QED
    BY <1>1, <1>4, <2>1, <2>2, ExactStep
<1>5. ExactInv'
  <2>1. CASE InRun' /\ ~hasty' /\ ~overtaken
    BY <1>4, <2>1
  <2>2. CASE ~(InRun' /\ ~hasty' /\ ~overtaken)
    BY <2>2 DEF ExactInv
  <2> QED
    BY <2>1, <2>2
<1>6. RecordsInOrder'
  BY <1>1 DEF RecordsInOrder, Delivered
<1> QED
  BY <1>2, <1>3, <1>5, <1>6

\* The calls of start() see an engine at rest, unless they were hasty.
LEMMA CallStill ==
  ASSUME CallInv, OpenInv, UNCHANGED <<call, queued, starts, hasty, opened>>,
         device' = device,
         (call \in StartCalls \/ ~opened) /\ writer.state = "IDLE" =>
           writer'.state = "IDLE" /\ \A b \in Buffer : buffer'[b].count \in {0, buffer[b].count}
  PROVE  CallInv' /\ OpenInv'
<1>1. 0 \in Buffer /\ 1 \in Buffer
  BY DEF Buffer
<1>2. Delivered' = Delivered
  BY DEF Delivered
<1>3. CallInv'
  <2> SUFFICES ASSUME call \in StartCalls PROVE CallInv'
    BY DEF CallInv
  <2>1. device = "OPENED" /\ \A i \in Delivered : queued[i].start < starts
    BY DEF CallInv
  <2>2. ASSUME ~hasty, Len(call) \in 2 .. 5
        PROVE  /\ writer'.state = "IDLE" /\ buffer'[0].count = 0
               /\ Len(call) \in 2 .. 3 => buffer'[1].count = 0
    BY <1>1, <2>2 DEF CallInv
  <2>3. Len(call) \in 2 .. 3 => Len(call) \in 2 .. 5
    OBVIOUS
  <2> QED
    BY <1>2, <2>1, <2>2, <2>3 DEF CallInv
<1>4. OpenInv'
  BY DEF OpenInv
<1> QED
  BY <1>3, <1>4

\* A register write of start() clears and arms a buffer, and then starts the engine.
LEMMA StartWriteStep ==
  ASSUME IInv, OrderInv, CallWrites, call \in StartCalls
  PROVE  OrderInv'
<1> DEFINE c == Head(call)
           n == Len(call)
<1>1. /\ n > 1 /\ Cycle(c) /\ call' = Tail(call)
      /\ hasty' = (hasty \/ (c # StopEngine /\ writer.state # "IDLE"))
      /\ UNCHANGED <<device, opened, task, queued, arrived, starts, overtaken>>
  BY DEF CallWrites, queue
<1>2. /\ n \in 2 .. 6 /\ call' \in StartCalls /\ Len(call') = n - 1
      /\ call' = <<StartReturns>> <=> n = 2
      /\ n = 6 => c = Clear(0)
      /\ n = 5 => c = Arm(0)
      /\ n = 4 => c = Clear(1)
      /\ n = 3 => c = Arm(1)
      /\ n = 2 => c = StartEngine
  <2>1. /\ n \in 1 .. 6 /\ call' \in StartCalls /\ Len(call') = n - 1
        /\ n = 6 => c = Clear(0)
        /\ n = 5 => c = Arm(0)
        /\ n = 4 => c = Clear(1)
        /\ n = 3 => c = Arm(1)
        /\ n = 2 => c = StartEngine
    BY <1>1, CallShapes, Zenon
  <2>2. call' = <<StartReturns>> <=> Len(call') = 1
    BY <2>1, CallShapes, Zenon
  <2> HIDE DEF n, c
  <2>3. n \in 2 .. 6 /\ (n - 1 = 1 <=> n = 2)
    BY <1>1, <2>1
  <2> QED
    BY <2>1, <2>2, <2>3, Zenon
<1>3. /\ device = "OPENED" /\ \A i \in Delivered : queued[i].start < starts
      /\ ~hasty /\ n \in 2 .. 5 => buffer[0].count = 0
      /\ ~hasty /\ n \in 2 .. 3 => buffer[1].count = 0
  BY <1>2 DEF OrderInv, CallInv
<1>4. task.at = "none"
  BY <1>3 DEF IInv, TaskAlone
<1> HIDE DEF c, n
<1>5. /\ 0 \in Buffer /\ 1 \in Buffer /\ \A b \in Buffer : b = 0 \/ b = 1
      /\ c # StopEngine
      /\ n # 2 => c # StartEngine
  <2>1. /\ Clear(0).does = "clear" /\ Arm(0).does = "arm" /\ StartEngine.does = "start"
        /\ Clear(1).does = "clear" /\ Arm(1).does = "arm" /\ StopEngine.does = "stop"
    BY DEF Clear, Arm, StartEngine, StopEngine
  <2>2. n = 2 \/ n = 3 \/ n = 4 \/ n = 5 \/ n = 6
    BY <1>2
  <2> QED
    BY <1>2, <2>1, <2>2 DEF Buffer
<1>6. \A b \in Buffer : Cleared(b)' => Cleared(b) \/ c = Clear(b)
  <2>1. Cleared(0)' => Cleared(0) \/ c = Clear(0)
    BY <1>2 DEF Cleared, n
  <2>2. Cleared(1)' => Cleared(1) \/ c = Clear(1)
    BY <1>2 DEF Cleared, n
  <2> QED
    BY <1>5, <2>1, <2>2
\* What the writes leave behind, unless the engine was still at work.
<1>7. ASSUME ~hasty'
      PROVE  /\ ~hasty /\ writer.state = "IDLE" /\ buffer' = Commanded(c)
             /\ writer'.state = IF n = 2 THEN "WAIT_BUFFER" ELSE "IDLE"
             /\ n \in 2 .. 6 => buffer'[0].count = 0
             /\ n \in 2 .. 4 => buffer'[1].count = 0
  <2>1. ~hasty /\ writer.state = "IDLE"
    BY <1>1, <1>5, <1>7
  <2>2. /\ buffer' = Commanded(c)
        /\ writer'.state = IF n = 2 THEN "WAIT_BUFFER" ELSE "IDLE"
    BY <1>1, <1>2, <1>5, <2>1, IdleStep DEF IInv
  <2>3. \A b \in Buffer : /\ buffer[b].count = 0 => buffer'[b].count = 0
                          /\ c \in {Clear(b), Arm(b)} => buffer'[b].count = 0
    BY <2>2, CommandedIs DEF IInv
  <2>4. n = 2 \/ n = 3 \/ n = 4 \/ n = 5 \/ n = 6
    BY <1>2
  <2>5. buffer'[0].count = 0
    BY <1>2, <1>3, <1>5, <2>1, <2>3, <2>4
  <2>6. n \in 2 .. 4 => buffer'[1].count = 0
    BY <1>2, <1>3, <1>5, <2>1, <2>3, <2>4
  <2> QED
    BY <2>1, <2>2, <2>5, <2>6
<1>8. Delivered' = Delivered
  BY <1>1 DEF Delivered
<1>9. CallInv'
  <2>1. (~hasty' /\ Len(call') \in 2 .. 5) => writer'.state = "IDLE" /\ buffer'[0].count = 0
    BY <1>2, <1>7
  <2>2. (~hasty' /\ Len(call') \in 2 .. 3) => buffer'[1].count = 0
    BY <1>2, <1>7
  <2> QED
    BY <1>1, <1>2, <1>3, <1>8, <2>1, <2>2 DEF CallInv
<1>10. OpenInv'
  BY <1>1, <1>3 DEF OrderInv, OpenInv
<1>11. StoreInv' /\ QueuedInv' /\ TurnInv' /\ RecordsInOrder'
  <2>1. StoreInv /\ QueuedInv /\ TurnInv /\ RecordsInOrder
    BY DEF OrderInv
  <2>2. \A b \in Buffer : Delivering(b) \/ Leftover(b) =>
          Delivering(b)' \/ Leftover(b)' \/ c \in {Clear(b), Arm(b)}
    <3> SUFFICES ASSUME NEW b \in Buffer, Delivering(b) \/ Leftover(b), c \notin {Clear(b), Arm(b)}
                 PROVE  Leftover(b)'
      OBVIOUS
    <3>1. Leftover(b)
      BY <1>4 DEF Delivering
    <3>2. Cleared(b)' => Cleared(b)
      BY <1>6
    <3> QED
      BY <1>1, <1>3, <2>1, <3>1, <3>2, LeftoverStep
  <2>3. StoreInv'
    BY <1>1, <2>1, StoreStep DEF IInv
  <2>4. QueuedInv' /\ TurnInv'
    BY <1>1, <1>4, <2>1, <2>2, TurnStep
  <2>5. RecordsInOrder'
    BY <1>1, <1>8, <2>1 DEF RecordsInOrder
  <2> QED
    BY <2>3, <2>4, <2>5
<1>12. ExactInv'
  <2> SUFFICES ASSUME InRun', ~hasty' PROVE ExactInv'
    BY DEF ExactInv
  <2>1. n = 2
    BY <1>1, <1>2, <1>3 DEF InRun
  <2>2. /\ writer'.state = "WAIT_BUFFER"
        /\ buffer'[0].count = 0 /\ buffer'[1].count = 0
    BY <1>7, <2>1
  <2>3. ~InTransfer' /\ \A b \in Buffer : Held(b)' = 0
    BY <1>5, <2>2 DEF InTransfer, Held
  <2>4. Older' \in Buffer /\ Newer' \in Buffer
    <3>1. RegistersOK'
      BY <1>1, CycleKeeps DEF IInv
    <3> QED
      BY <3>1 DEF RegistersOK, Buffer, Active, Other, Older, Newer
  <2>5. Held(Older)' = 0 /\ Held(Newer)' = 0
    BY <2>3, <2>4
  <2>6. \A i \in Delivered' : queued'[i].start # starts'
    <3>1. \A i \in Delivered' : queued'[i].start < starts' /\ starts' \in Nat
      BY <1>1, <1>3, <1>8 DEF OrderInv, QueuedInv
    <3> QED
      BY <1>11, <3>1
  <2> QED
    BY <2>3, <2>5, <2>6 DEF ExactInv
<1> QED
  BY <1>9, <1>10, <1>11, <1>12 DEF OrderInv

\* A commit enters the ring behind those it holds.
LEMMA ArriveStep ==
  ASSUME StoreInv, Arrive
  PROVE  RingInv' /\ TransferInv' /\ Popped' = Popped
<1>1. /\ ring \in Seq(Nat) /\ arrived \in Nat /\ Len(ring) \in Nat /\ Len(ring) <= arrived
      /\ \A i \in 1 .. Len(ring) : ring[i] = Popped + i
  BY DEF StoreInv, RingInv
<1>2. /\ ring' = Append(ring, arrived + 1) /\ arrived' = arrived + 1
      /\ UNCHANGED <<writer, buffer, memory>>
  BY DEF Arrive
<1>3. /\ ring' \in Seq(Nat) /\ Len(ring') = Len(ring) + 1
      /\ \A i \in 1 .. Len(ring) : ring'[i] = ring[i]
      /\ ring'[Len(ring) + 1] = arrived + 1
  BY <1>1, <1>2
<1>4. Popped' = Popped /\ arrived = Popped + Len(ring)
  BY <1>1, <1>2, <1>3 DEF Popped
<1>5. \A i \in 1 .. Len(ring') : ring'[i] = Popped' + i
  <2> SUFFICES ASSUME NEW i \in 1 .. Len(ring') PROVE ring'[i] = Popped + i
    BY <1>4
  <2>1. CASE i \in 1 .. Len(ring)
    BY <1>1, <1>3, <2>1
  <2>2. CASE i = Len(ring) + 1
    <3>1. arrived + 1 = Popped + (Len(ring) + 1) /\ Popped \in Int
      BY <1>1, <1>4 DEF Popped
    <3> QED
      BY <1>3, <2>2, <3>1
  <2> QED
    BY <1>1, <1>3, <2>1, <2>2
<1>6. RingInv'
  BY <1>1, <1>2, <1>3, <1>5 DEF RingInv
<1>7. ring' # <<>>
  BY <1>1, <1>3
<1>8. TransferInv'
  BY <1>2, <1>4, <1>7 DEF StoreInv, TransferInv, InTransfer, Active
<1> QED
  BY <1>4, <1>6, <1>8

\* The buffers are allocated while nothing has happened yet.
LEMMA OpenStep ==
  ASSUME IInv, OrderInv, Open
  PROVE  OrderInv'
<1>1. /\ device = "PROBED" /\ ~opened /\ opened' /\ memory' = FreshRegions /\ device' = "OPENED"
      /\ UNCHANGED <<ring, writer, buffer, call, task, queued, arrived, starts, hasty, overtaken>>
  BY DEF Open, QueueOpens, queue
<1>2. /\ call = <<>> /\ writer.state = "IDLE" /\ \A b \in Buffer : buffer[b].count = 0
      /\ StoreInv /\ QueuedInv /\ RecordsInOrder
  BY <1>1 DEF OrderInv, OpenInv
<1>3. task.at = "none"
  BY <1>1 DEF IInv, TaskAlone
<1>4. ~InTransfer' /\ ~InTransfer /\ \A b \in Buffer : Held(b)' = 0
  BY <1>1, <1>2 DEF InTransfer, Held
<1>5. Older' \in Buffer /\ Newer' \in Buffer /\ Other' = Other /\ Popped' = Popped
  <2>1. RegistersOK
    BY DEF IInv
  <2> QED
    BY <1>1, <2>1 DEF RegistersOK, Buffer, Active, Other, Older, Newer, Popped
<1>6. StoreInv'
  <2>1. memory' \in [Buffer -> [Index -> Nat]]
    BY <1>1 DEF FreshRegions
  <2>2. buffer'[Other'].count \in {0, Capacity}
    BY <1>1, <1>2, <1>5 DEF StoreInv, ContentInv
  <2>3. ContentInv'
    BY <1>4, <1>5, <2>1, <2>2 DEF ContentInv
  <2>4. RingInv' /\ TransferInv'
    BY <1>1, <1>2, <1>4, <1>5 DEF StoreInv, RingInv, TransferInv
  <2> QED
    BY <2>3, <2>4 DEF StoreInv
<1>7. QueuedInv' /\ RecordsInOrder'
  BY <1>1, <1>2, <1>5 DEF QueuedInv, RecordsInOrder, Delivered
<1>8. TurnInv'
  <2>1. \A b \in Buffer : Undelivered(b)' = 0
    BY <1>4 DEF Undelivered
  <2> QED
    BY <1>1, <1>3, <2>1 DEF TurnInv
<1>9. call \notin StartCalls /\ call # <<StartReturns>>
  <2>1. <<StartReturns>> \in StartCalls
    BY DEF StartCalls
  <2> QED
    BY <1>2, <2>1, CallShapes
<1>10. ExactInv'
  BY <1>1, <1>9 DEF ExactInv, InRun
<1>11. CallInv' /\ OpenInv'
  BY <1>1, <1>2, <1>9 DEF CallInv, OpenInv
<1> QED
  BY <1>6, <1>7, <1>8, <1>10, <1>11 DEF OrderInv

\* A step that leaves hardware and queue alone.
LEMMA QuietStep ==
  ASSUME OrderInv, UNCHANGED <<hardware, arrived, queued, hasty>>,
         starts' \in {starts, starts + 1}, overtaken => overtaken',
         \A b \in Buffer : Delivering(b) \/ Leftover(b) => Delivering(b)' \/ Leftover(b)',
         InRun' => /\ InRun /\ starts' = starts
                   /\ \A b \in Buffer : Delivering(b)' \/ Leftover(b)' =>
                        Delivering(b) \/ Leftover(b),
         task'.at = "copy" => task'.count = Capacity,
         ~overtaken' /\ task'.at \in {"count", "copy", "clear"} => task'.buffer = Older
  PROVE  StoreInv' /\ QueuedInv' /\ TurnInv' /\ ExactInv' /\ RecordsInOrder'
<1>1. /\ UNCHANGED <<writer, buffer, memory>> /\ Popped' = Popped
      /\ RingInv' /\ TransferInv'
  BY DEF hardware, OrderInv, StoreInv, RingInv, TransferInv, Popped, InTransfer, Active
<1>2. queued' \in Seq(Record) /\ Delivered' = Delivered
  BY DEF OrderInv, QueuedInv, Delivered
<1> QED
  BY <1>1, <1>2, StillStep

\* run() takes up the older buffer, unless it finds the younger one full before it.
LEMMA PollStep ==
  ASSUME IInv, Poll, ~overtaken', task'.at = "count"
  PROVE  task'.buffer = Older
<1>1. PICK b \in Buffer : b = task.buffer
  BY DEF IInv, TaskOK
<1>2. buffer[b].done /\ task'.buffer = b
  BY <1>1 DEF Poll, RawStatus, PollTask, IInv, TaskOK
<1>3. (\A o \in Buffer : buffer[o].done) => Active = b
  BY <1>1 DEF Poll, Active
<1>4. Active \in Buffer /\ (\A x \in Buffer : x = Active \/ x = Other)
  BY Buffers DEF IInv
<1>5. CASE b = Active
  BY <1>2, <1>5 DEF Older
<1>6. CASE b # Active
  <2>1. b = Other /\ ~buffer[Active].done
    BY <1>2, <1>3, <1>4, <1>6
  <2> QED
    BY <1>2, <2>1 DEF Older
<1> QED
  BY <1>5, <1>6

\* The steps of the caller that write no register.
LEMMA CallerStep ==
  ASSUME IInv, OrderInv, Close \/ Start \/ Stop \/ StartEnds
  PROVE  OrderInv'
<1>1. UNCHANGED <<hardware, arrived, queued, hasty, overtaken, opened>>
  BY DEF Close, Start, Stop, StartEnds, queue
<1>2. /\ CallInv /\ OpenInv /\ TurnInv /\ QueuedInv
      /\ Delivered' = Delivered /\ writer' = writer /\ buffer' = buffer
  BY <1>1 DEF OrderInv, Delivered, hardware
<1>3. /\ <<StartReturns>> \in StartCalls /\ <<>> \notin StartCalls
      /\ \A s \in StopCalls : s \notin StartCalls
  BY CallShapes DEF StartCalls
<1>4. CASE Close
  <2>1. device = "OPENED" /\ device' = "PROBED" /\ UNCHANGED <<call, task, starts>> /\ call = <<>>
    BY <1>4 DEF Close
  <2>2. \A b \in Buffer : (Delivering(b)' <=> Delivering(b)) /\ (Leftover(b)' <=> Leftover(b))
    BY <1>2, <2>1 DEF Delivering, Leftover, Cleared
  <2>3. ~InRun' /\ task.at = "none"
    BY <1>3, <2>1 DEF InRun, IInv, TaskAlone
  <2>4. StoreInv' /\ QueuedInv' /\ TurnInv' /\ ExactInv' /\ RecordsInOrder'
    BY <1>1, <2>1, <2>2, <2>3, QuietStep
  <2>5. CallInv' /\ OpenInv'
    BY <1>1, <1>2, <1>3, <2>1 DEF CallInv, OpenInv
  <2> QED
    BY <2>4, <2>5 DEF OrderInv
<1>5. CASE Start
  <2>1. /\ device = "OPENED" /\ UNCHANGED <<device, task>> /\ call = <<>> /\ starts' = starts + 1
        /\ call' = Append(StartWrites, StartReturns)
    BY <1>5 DEF Start
  <2>2. call' \in StartCalls /\ Len(call') = 6 /\ call' # <<StartReturns>>
    <3>1. call' \in StartCalls /\ Len(call') = 6
      BY <2>1, CallShapes, Zenon
    <3>2. call' = <<StartReturns>> => Len(call') = 1
      BY <3>1, CallShapes, Zenon
    <3>3. Len(call') # 1
      BY <3>1
    <3> QED
      BY <3>1, <3>2, <3>3
  <2>3. \A b \in Buffer : (Delivering(b)' <=> Delivering(b)) /\ (Leftover(b)' <=> Leftover(b))
    <3>1. \A b \in Buffer : ~Cleared(b) /\ ~Cleared(b)'
      BY <1>3, <2>1, <2>2 DEF Cleared
    <3> QED
      BY <1>2, <2>1, <3>1 DEF Delivering, Leftover
  <2>4. ~InRun' /\ task.at = "none"
    BY <2>1, <2>2 DEF InRun, IInv, TaskAlone
  <2>5. StoreInv' /\ QueuedInv' /\ TurnInv' /\ ExactInv' /\ RecordsInOrder'
    BY <1>1, <2>1, <2>3, <2>4, QuietStep
  <2>6. \A i \in Delivered : queued[i].start < starts'
    <3> SUFFICES ASSUME NEW i \in Delivered PROVE queued[i].start < starts'
      OBVIOUS
    <3>1. /\ queued \in Seq(Record) /\ starts \in Nat
          /\ i \in DOMAIN queued /\ queued[i].start <= starts
      BY <1>2 DEF QueuedInv, Delivered
    <3>2. queued[i] \in Record
      BY <3>1, Element
    <3>3. queued[i].start \in Nat
      BY <3>2 DEF Record
    <3> QED
      BY <2>1, <3>1, <3>3
  <2>7. CallInv' /\ OpenInv'
    BY <1>1, <1>2, <2>1, <2>2, <2>6 DEF CallInv, OpenInv
  <2> QED
    BY <2>5, <2>7 DEF OrderInv
<1>6. CASE Stop
  <2>1. /\ device = "RUNNING" /\ UNCHANGED <<device, task, starts>>
        /\ call' = <<StopEngine, StopReturns>>
    BY <1>6 DEF Stop
  <2>2. call' \in StopCalls
    BY <2>1 DEF StopCalls
  <2>3. \A b \in Buffer : (Delivering(b)' <=> Delivering(b)) /\ ~Leftover(b)' /\ ~Leftover(b)
    BY <2>1 DEF Delivering, Leftover
  <2>4. InRun
    BY <2>1 DEF InRun
  <2>5. /\ task'.at = "copy" => task'.count = Capacity
        /\ ~overtaken' /\ task'.at \in {"count", "copy", "clear"} => task'.buffer = Older
    BY <1>1, <1>2, <2>1 DEF QueuedInv, TurnInv
  <2>6. StoreInv' /\ QueuedInv' /\ TurnInv' /\ ExactInv' /\ RecordsInOrder'
    BY <1>1, <2>1, <2>3, <2>4, <2>5, QuietStep
  <2>7. CallInv' /\ OpenInv'
    BY <1>1, <1>2, <1>3, <2>1, <2>2 DEF CallInv, OpenInv
  <2> QED
    BY <2>6, <2>7 DEF OrderInv
<1>7. CASE StartEnds
  <2>1. /\ call = <<StartReturns>> /\ call' = <<>> /\ task' = PollTask(0) /\ device' = "RUNNING"
        /\ starts' = starts
    BY <1>7 DEF StartEnds
  <2>2. device = "OPENED" /\ InRun
    BY <1>2, <1>3, <2>1 DEF CallInv, InRun
  <2>3. task.at = "none" /\ task'.at = "poll"
    BY <2>1, <2>2 DEF IInv, TaskAlone, PollTask
  <2>4. \A b \in Buffer : ~Delivering(b)' /\ ~Delivering(b) /\ ~Leftover(b)' /\ ~Leftover(b)
    BY <2>1, <2>2, <2>3, NoLeftover DEF Delivering, Leftover
  <2>5. StoreInv' /\ QueuedInv' /\ TurnInv' /\ ExactInv' /\ RecordsInOrder'
    BY <1>1, <2>1, <2>2, <2>3, <2>4, QuietStep
  <2>6. CallInv' /\ OpenInv'
    BY <1>1, <1>2, <1>3, <2>1, <2>2 DEF CallInv, OpenInv
  <2> QED
    BY <2>5, <2>6 DEF OrderInv
<1> QED
  BY <1>4, <1>5, <1>6, <1>7

\* The steps of run().
LEMMA TaskStep ==
  ASSUME IInv, OrderInv, Task
  PROVE  OrderInv'
<1>1. /\ CallInv /\ OpenInv /\ TurnInv /\ QueuedInv /\ StoreInv
      /\ TaskOK /\ TaskHolds /\ FullIsDone /\ RegistersOK
  BY DEF OrderInv, IInv
<1>2. task.at # "none" /\ UNCHANGED <<device, opened, call, arrived, starts, hasty>>
  BY DEF Task, Poll, ReadCount, CopySlots, Release
<1>3. device = "RUNNING" /\ InRun /\ opened
  BY <1>1, <1>2 DEF IInv, TaskAlone, InRun, OpenInv
<1>4. CallInv' /\ OpenInv'
  BY <1>1, <1>2, <1>3 DEF CallInv, OpenInv
<1>5. \A b \in Buffer : ~Leftover(b) /\ ~Leftover(b)'
  BY <1>2, <1>3 DEF Leftover
<1>6. CASE Poll
  <2>1. /\ UNCHANGED <<hardware, queued>> /\ (overtaken => overtaken')
        /\ task.at = "poll" /\ task'.at \in {"poll", "count"}
    BY <1>1, <1>6 DEF Poll, PollTask, TaskOK, queue
  <2>2. \A b \in Buffer : ~Delivering(b) /\ ~Delivering(b)'
    BY <2>1 DEF Delivering
  <2>3. ~overtaken' /\ task'.at \in {"count", "copy", "clear"} => task'.buffer = Older
    BY <1>6, <2>1, PollStep
  <2>4. StoreInv' /\ QueuedInv' /\ TurnInv' /\ ExactInv' /\ RecordsInOrder'
    BY <1>2, <1>3, <1>5, <2>1, <2>2, <2>3, QuietStep
  <2> QED
    BY <1>4, <2>4 DEF OrderInv
<1>7. CASE ReadCount
  <2>1. /\ UNCHANGED <<hardware, queued, overtaken>>
        /\ task.at = "count" /\ task'.at = "copy" /\ task'.buffer = task.buffer
        /\ task'.count = buffer[task.buffer].count
    BY <1>1, <1>7 DEF ReadCount, CompletedCount, TaskOK, queue
  <2>2. \A b \in Buffer : ~Delivering(b) /\ ~Delivering(b)'
    BY <2>1 DEF Delivering
  <2>3. task'.count = Capacity
    BY <1>1, <2>1 DEF TaskOK, TaskHolds, FullIsDone
  <2>4. ~overtaken => task.buffer = Older
    BY <1>1, <2>1 DEF TurnInv
  <2>5. StoreInv' /\ QueuedInv' /\ TurnInv' /\ ExactInv' /\ RecordsInOrder'
    BY <1>2, <1>3, <1>5, <2>1, <2>2, <2>3, <2>4, QuietStep
  <2> QED
    BY <1>4, <2>5 DEF OrderInv
<1>8. CASE CopySlots
  BY <1>4, <1>8, CopyStep DEF OrderInv
<1>9. CASE Release
  <2>1. PICK b \in Buffer : b = task.buffer
    BY <1>1 DEF TaskOK
  <2>2. UNCHANGED <<queued, overtaken>>
    BY <1>9 DEF Release, queue
  <2>3. CASE task.at = "clear" /\ Cycle(Clear(b)) /\ task' = [task EXCEPT !.at = "arm"]
    <3>1. task'.at = "arm" /\ buffer[b].done /\ ~buffer[b].armed
      BY <1>1, <2>1, <2>3 DEF TaskOK, TaskHolds, FullIsDone
    <3>2. \A x \in Buffer : Clear(b) \in {Clear(x), Arm(x)} => x = b
      BY CommandsDiffer
    <3>3. \A x \in Buffer : (Delivering(x) <=> x = b) /\ ~Delivering(x)'
      BY <2>1, <2>3, <3>1 DEF Delivering
    <3>4. ~overtaken => b = Older
      BY <1>1, <2>1, <2>3 DEF TurnInv
    <3>5. \A x \in Buffer : Delivering(x) \/ Leftover(x) => Clear(b) \in {Clear(x), Arm(x)}
      BY <1>5, <3>3
    <3>6. ~overtaken => \A x \in Buffer : Clear(b) \in {Clear(x), Arm(x)} =>
            ~buffer[x].armed /\ (buffer[x].count = 0 \/ (x = Older /\ Delivering(x)))
      BY <3>1, <3>2, <3>3, <3>4
    <3>7. \A x \in Buffer : Delivering(x) => Clear(b) = Clear(x)
      BY <3>3
    <3>8. StoreInv' /\ QueuedInv' /\ TurnInv' /\ ExactInv' /\ RecordsInOrder'
      BY <1>2, <1>3, <2>2, <2>3, <3>1, <3>3, <3>5, <3>6, <3>7, CycleStep
    <3> QED
      BY <1>4, <3>8 DEF OrderInv
  <2>4. CASE task.at = "arm" /\ Cycle(Arm(b)) /\ task' = PollTask(1 - b)
    <3>1. task'.at = "poll" /\ ~buffer[b].armed /\ buffer[b].count = 0
      BY <1>1, <2>1, <2>4 DEF TaskHolds, PollTask
    <3>2. \A x \in Buffer : Arm(b) \in {Clear(x), Arm(x)} => x = b
      BY CommandsDiffer
    <3>3. \A x \in Buffer : ~Delivering(x) /\ ~Delivering(x)'
      BY <2>4, <3>1 DEF Delivering
    <3>4. \A x \in Buffer : Arm(b) \in {Clear(x), Arm(x)} =>
            ~buffer[x].armed /\ (buffer[x].count = 0 \/ (x = Older /\ Delivering(x)))
      BY <3>1, <3>2
    <3>5. StoreInv' /\ QueuedInv' /\ TurnInv' /\ ExactInv' /\ RecordsInOrder'
      BY <1>2, <1>3, <1>5, <2>2, <2>4, <3>1, <3>3, <3>4, CycleStep
    <3> QED
      BY <1>4, <3>5 DEF OrderInv
  <2> QED
    BY <1>9, <2>1, <2>3, <2>4 DEF Release
<1> QED
  BY <1>6, <1>7, <1>8, <1>9 DEF Task

\* stop() ends the run: what the driver has not given back will not be delivered again.
LEMMA StopStep ==
  ASSUME IInv, OrderInv, StopEnds
  PROVE  OrderInv'
<1>1. /\ UNCHANGED <<hardware, opened, arrived, starts, hasty, overtaken>>
      /\ call = <<StopReturns>> /\ call' = <<>> /\ queued' = Append(queued, Stopped)
      /\ task' = NoTask /\ device' = "OPENED"
  BY DEF StopEnds
<1>2. /\ CallInv /\ OpenInv /\ QueuedInv /\ StoreInv /\ TaskOK /\ TaskHolds
  BY DEF OrderInv, IInv
<1>3. queued \in Seq(Record) /\ Stopped \in Record /\ Len(queued) \in Nat
  BY <1>2, Element DEF QueuedInv, Record, Stopped
<1>4. /\ queued' \in Seq(Record) /\ Len(queued') = Len(queued) + 1
      /\ \A i \in 1 .. Len(queued) : queued'[i] = queued[i]
      /\ queued'[Len(queued) + 1] = Stopped
  BY <1>1, <1>3
<1>5. DOMAIN queued = 1 .. Len(queued) /\ DOMAIN queued' = 1 .. Len(queued')
  BY <1>3, <1>4, Element
<1>6. Delivered' = Delivered /\ \A i \in Delivered : queued'[i] = queued[i]
  BY <1>3, <1>4, <1>5 DEF Delivered
<1>7. \A s \in {<<>>} : s \notin StartCalls
  BY CallShapes
<1>8. ~InRun' /\ task'.at = "none"
  <2>1. <<StartReturns>> # <<>>
    BY <1>7 DEF StartCalls
  <2> QED
    BY <1>1, <2>1 DEF InRun, NoTask
<1>9. \A b \in Buffer : Delivering(b) \/ Leftover(b) => Leftover(b)'
  <2> SUFFICES ASSUME NEW b \in Buffer, Delivering(b) \/ Leftover(b) PROVE Leftover(b)'
    OBVIOUS
  <2>1. buffer[b].done /\ buffer' = buffer
    BY <1>1, <1>2 DEF Delivering, Leftover, TaskHolds, hardware
  <2>2. ~Cleared(b)'
    BY <1>1, <1>7 DEF Cleared
  <2> QED
    BY <1>1, <2>1, <2>2 DEF Leftover
<1>10. /\ UNCHANGED <<writer, buffer, memory>> /\ Popped' = Popped
       /\ RingInv' /\ TransferInv'
  BY <1>1, <1>2 DEF hardware, StoreInv, RingInv, TransferInv, Popped, InTransfer, Active
<1>11. StoreInv' /\ QueuedInv' /\ TurnInv' /\ ExactInv' /\ RecordsInOrder'
  BY <1>1, <1>4, <1>6, <1>8, <1>9, <1>10, StillStep
<1>12. CallInv' /\ OpenInv'
  <2>1. call # <<>>
    BY <1>1, CallShapes DEF StopCalls
  <2> QED
    BY <1>1, <1>2, <1>7, <2>1 DEF CallInv, OpenInv
<1> QED
  BY <1>11, <1>12 DEF OrderInv

\* Nothing is held and nothing delivered at the start.
LEMMA InitOrder == Init => OrderInv
<1> SUFFICES ASSUME Init PROVE OrderInv
  OBVIOUS
<1>1. /\ ring = <<>> /\ arrived = 0 /\ writer.state = "IDLE" /\ writer.active = 0
      /\ device = "PROBED" /\ call = <<>> /\ queued = <<>> /\ task.at = "none" /\ starts = 0
      /\ \A b \in Buffer : buffer[b].count = 0
      /\ memory = FreshRegions
  BY DEF Init, NoTask
<1>2. Capacity \in Nat \ {0} /\ 0 \in Buffer /\ 1 \in Buffer
  BY CommitPathAssumption DEF Buffer
<1>3. ~InTransfer /\ Popped = 0 /\ Active = 0 /\ Other = 1 /\ Older \in Buffer /\ Newer \in Buffer
  <2>1. Len(ring) = 0 /\ arrived = 0
    BY <1>1
  <2>2. Popped = 0
    BY <2>1 DEF Popped
  <2>3. ~InTransfer /\ Active = 0 /\ Other = 1
    BY <1>1 DEF InTransfer, Active, Other
  <2>4. Older \in {0, 1}
    BY <2>3 DEF Older
  <2>5. Newer \in {0, 1}
    BY <2>4 DEF Newer
  <2> QED
    BY <2>2, <2>3, <2>4, <2>5 DEF Buffer
<1>4. \A b \in Buffer : Held(b) = 0
  BY <1>1, <1>3 DEF Held
<1>5. Delivered = {}
  BY <1>1 DEF Delivered
<1>6. RingInv /\ TransferInv
  BY <1>1, <1>3 DEF RingInv, TransferInv
<1>7. ContentInv
  <2>1. memory \in [Buffer -> [Index -> Nat]]
    BY <1>1 DEF FreshRegions
  <2> QED
    BY <1>1, <1>2, <1>3, <1>4, <2>1 DEF ContentInv
<1>8. CallInv /\ OpenInv
  <2>1. <<>> \notin StartCalls
    BY CallShapes
  <2> QED
    BY <1>1, <2>1 DEF CallInv, OpenInv
<1>9. QueuedInv
  BY <1>1, <1>5 DEF QueuedInv
<1>10. \A b \in Buffer : Undelivered(b) = 0
  BY <1>4 DEF Undelivered
<1>11. TurnInv /\ RecordsInOrder
  BY <1>1, <1>5 DEF TurnInv, RecordsInOrder
<1>12. ExactInv
  <2>1. <<StartReturns>> # <<>>
    BY CallShapes DEF StartCalls
  <2> QED
    BY <1>1, <2>1 DEF ExactInv, InRun
<1> QED
  BY <1>6, <1>7, <1>8, <1>9, <1>11, <1>12 DEF OrderInv, StoreInv

\* A cycle without a command.
LEMMA EngineStep ==
  ASSUME IInv, OrderInv, Engine
  PROVE  OrderInv'
<1>1. /\ Cycle(NoCommand)
      /\ UNCHANGED <<device, opened, call, task, queued, arrived, starts, hasty, overtaken>>
  BY DEF Engine, queue
<1>2. \A b \in Buffer : NoCommand \notin {Clear(b), Arm(b)}
  BY CommandsDiffer
<1>3. NoCommand # StartEngine
  <2>1. NoCommand.does = "nothing" /\ StartEngine.does = "start"
    BY DEF NoCommand, StartEngine
  <2> QED
    BY <2>1
<1>4. \A b \in Buffer : (Delivering(b)' <=> Delivering(b)) /\ (Cleared(b)' <=> Cleared(b))
  BY <1>1 DEF Delivering, Cleared
<1>5. InRun' <=> InRun
  BY <1>1 DEF InRun
<1>6. \A b \in Buffer : Leftover(b) => Leftover(b)'
  <2> SUFFICES ASSUME NEW b \in Buffer, Leftover(b) PROVE Leftover(b)'
    OBVIOUS
  <2>1. device' # "RUNNING" /\ (Cleared(b)' => Cleared(b)) /\ StoreInv
    BY <1>1, <1>4 DEF Leftover, OrderInv
  <2> QED
    BY <1>1, <1>2, <2>1, LeftoverStep
<1>7. StoreInv' /\ QueuedInv' /\ TurnInv' /\ ExactInv' /\ RecordsInOrder'
  BY <1>1, <1>2, <1>4, <1>5, <1>6, CycleStep
<1>8. CallInv' /\ OpenInv'
  <2>1. CallInv /\ OpenInv /\ RegistersOK
    BY DEF OrderInv, IInv
  <2>2. ASSUME writer.state = "IDLE"
        PROVE  writer'.state = "IDLE" /\ \A b \in Buffer : buffer'[b].count \in {0, buffer[b].count}
    BY <1>1, <1>3, <2>1, <2>2, IdleStep, CommandedIs
  <2> QED
    BY <1>1, <2>1, <2>2, CallStill
<1> QED
  BY <1>7, <1>8 DEF OrderInv

\* A commit that enters the ring is in no buffer yet.
LEMMA ArrivalStep ==
  ASSUME IInv, OrderInv, Arrive
  PROVE  OrderInv'
<1>1. UNCHANGED <<writer, buffer, memory, device, opened, call, task, queued, starts, hasty,
                  overtaken>>
  BY DEF Arrive, queue
<1>2. /\ StoreInv /\ CallInv /\ OpenInv /\ QueuedInv /\ TurnInv
      /\ RingInv' /\ TransferInv' /\ Popped' = Popped
  BY ArriveStep DEF OrderInv
<1>3. /\ Delivered' = Delivered /\ queued' \in Seq(Record)
      /\ InRun' => InRun
      /\ \A b \in Buffer : (Delivering(b)' <=> Delivering(b)) /\ (Leftover(b)' <=> Leftover(b))
  BY <1>1, <1>2 DEF Delivered, QueuedInv, InRun, Delivering, Leftover, Cleared
<1>4. /\ task'.at = "copy" => task'.count = Capacity
      /\ ~overtaken' /\ task'.at \in {"count", "copy", "clear"} => task'.buffer = Older
  BY <1>1, <1>2 DEF QueuedInv, TurnInv
<1>5. StoreInv' /\ QueuedInv' /\ TurnInv' /\ ExactInv' /\ RecordsInOrder'
  BY <1>1, <1>2, <1>3, <1>4, StillStep
<1>6. CallInv' /\ OpenInv'
  <2>1. device' = device /\ writer'.state = writer.state /\ buffer' = buffer
    BY <1>1
  <2> QED
    BY <1>1, <1>2, <2>1, CallStill
<1> QED
  BY <1>5, <1>6 DEF OrderInv

\* The register write of stop() resets no buffer.
LEMMA StopWriteStep ==
  ASSUME IInv, OrderInv, CallWrites, call \in StopCalls
  PROVE  OrderInv'
<1>1. /\ Len(call) > 1 /\ Cycle(Head(call)) /\ call' = Tail(call)
      /\ hasty' = (hasty \/ (Head(call) # StopEngine /\ writer.state # "IDLE"))
      /\ UNCHANGED <<device, opened, task, queued, arrived, starts, overtaken>>
  BY DEF CallWrites, queue
<1>2. Head(call) = StopEngine /\ call' = <<StopReturns>>
  BY <1>1, CallShapes, Zenon
<1>3. Cycle(StopEngine) /\ (hasty' <=> hasty)
  BY <1>1, <1>2, Zenon
<1>4. <<StopReturns>> \in StopCalls
  BY DEF StopCalls
<1>5. call \notin StartCalls /\ call' \notin StartCalls /\ call' # <<StartReturns>>
      /\ call # <<>>
  BY <1>2, <1>4, CallShapes, Zenon
<1>6. \A b \in Buffer : StopEngine \notin {Clear(b), Arm(b)}
  BY CommandsDiffer
<1>7. \A b \in Buffer : (Delivering(b)' <=> Delivering(b)) /\ ~Cleared(b)'
  BY <1>1, <1>5 DEF Delivering, Cleared
<1>8. InRun' => InRun
  BY <1>1, <1>5 DEF InRun
<1>9. \A b \in Buffer : Leftover(b) => Leftover(b)'
  <2> SUFFICES ASSUME NEW b \in Buffer, Leftover(b) PROVE Leftover(b)'
    OBVIOUS
  <2>1. device' # "RUNNING" /\ (Cleared(b)' => Cleared(b)) /\ StoreInv
    BY <1>1, <1>7 DEF Leftover, OrderInv
  <2> QED
    BY <1>3, <1>6, <2>1, LeftoverStep
<1>10. StoreInv' /\ QueuedInv' /\ TurnInv' /\ ExactInv' /\ RecordsInOrder'
  BY <1>1, <1>3, <1>6, <1>7, <1>8, <1>9, CycleStep
<1>11. CallInv' /\ OpenInv'
  <2>1. CallInv /\ OpenInv
    BY DEF OrderInv
  <2>2. CallInv'
    BY <1>2, <1>4, <1>5 DEF CallInv
  <2>3. opened /\ opened'
    BY <1>1, <1>5, <2>1 DEF OpenInv
  <2> QED
    BY <2>2, <2>3 DEF OpenInv
<1> QED
  BY <1>10, <1>11 DEF OrderInv

\* A receiver takes what has been queued; the queue itself keeps it.
LEMMA ReceiverStep ==
  ASSUME OrderInv, Receive \/ UNCHANGED vars
  PROVE  OrderInv'
<1>1. UNCHANGED <<hardware, device, opened, call, task, queued, arrived, starts, hasty, overtaken>>
  BY DEF Receive, vars, queue
<1>2. UNCHANGED <<ring, writer, buffer, memory>>
  BY <1>1 DEF hardware
<1>3. StoreInv'
  BY <1>1, <1>2 DEF OrderInv, StoreInv, RingInv, TransferInv, ContentInv, Popped, InTransfer,
                    Active, Other, Older, Newer, Held
<1>4. CallInv' /\ OpenInv' /\ QueuedInv' /\ RecordsInOrder'
  BY <1>1, <1>2 DEF OrderInv, CallInv, OpenInv, QueuedInv, RecordsInOrder, Delivered, Popped
<1>5. TurnInv' /\ ExactInv'
  BY <1>1, <1>2 DEF OrderInv, TurnInv, ExactInv, Delivered, Undelivered, Delivering, Leftover,
                    Cleared, Held, Older, Newer, Other, Active, InTransfer, InRun, Popped
<1> QED
  BY <1>3, <1>4, <1>5 DEF OrderInv

\* Each step of the specification keeps the order.
LEMMA NextOrder == IInv /\ OrderInv /\ [Next]_vars => OrderInv'
<1> SUFFICES ASSUME IInv, OrderInv, [Next]_vars PROVE OrderInv'
  OBVIOUS
<1>1. CASE Arrive
  BY <1>1, ArrivalStep
<1>2. CASE Engine
  BY <1>2, EngineStep
<1>3. CASE Open
  BY <1>3, OpenStep
<1>4. CASE Close \/ Start \/ Stop \/ StartEnds
  BY <1>4, CallerStep
<1>5. CASE CallWrites
  <2>1. call \in StartCalls \/ call \in StopCalls \/ call = <<>>
    BY DEF OrderInv, CallInv
  <2>2. call # <<>>
    BY <1>5, CallsDiffer DEF CallWrites
  <2> QED
    BY <1>5, <2>1, <2>2, StartWriteStep, StopWriteStep
<1>6. CASE StopEnds
  BY <1>6, StopStep
<1>7. CASE Task
  BY <1>7, TaskStep
<1>8. CASE Receive \/ UNCHANGED vars
  BY <1>8, ReceiverStep
<1> QED
  BY <1>1, <1>2, <1>3, <1>4, <1>5, <1>6, <1>7, <1>8 DEF Next, Call

\* The host receives real commits, in the order in which they were made and none of them
\* twice, and within a run without a gap, unless a pass of run() was overtaken or a start()
\* did not wait for the engine (CommitQueue.run and release_and_rearm in ssr_dataplane.py,
\* the WAIT_DMA and POP_SLOT states of commit_dma_writer.v).
THEOREM RecordsArriveInOrder == Spec => []RecordsInOrder
<1>1. OrderInv => RecordsInOrder
  BY DEF OrderInv
<1> QED
  BY CommitPathInvariant, InitOrder, NextOrder, <1>1, PTL DEF Spec
=============================================================================
