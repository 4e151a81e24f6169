------------------------------ MODULE CommitPath ------------------------------
(***************************************************************************)
(* The way of a committed proposal from the FPGA to the host: the ring of  *)
(* committed slots (commit_buffer.v), the engine that writes its head into *)
(* one of two host buffers in turn (commit_dma_writer.v), and the driver   *)
(* that polls the buffers, queues their records and re-arms them           *)
(* (CommitBuffer, CommitQueue and SSRDevice in ssr_dataplane.py).          *)
(*                                                                         *)
(* The engine moves once a clock cycle.  A register write of the driver is *)
(* the cycle that sees its pulse (Cycle); a register read, the memory copy *)
(* of a whole buffer, and what a coroutine does between two awaits, are a  *)
(* step each.  Two coroutines of the driver write registers: the caller of *)
(* start() and stop(), and the run() task; recv() is a third one.          *)
(*                                                                         *)
(* Abstractions: a slot is the number of its commit; status words, error   *)
(* counts and times, which nothing acts upon, are left out; one receiver;  *)
(* reset() and remove(), which leave the task running, are never called.   *)
(*                                                                         *)
(* In the code as it stands open() fails: configure() also writes a stride *)
(* of its own, under two names its table does not have.  StrideNamed says  *)
(* whether it has them; where it has not, the device never opens.          *)
(***************************************************************************)
EXTENDS Integers, Sequences

CONSTANTS
  StrideNamed,  \* CommitBuffer._REGS names the stride registers configure() writes
  Capacity,     \* buf_slot_count: slots in a host buffer
  Slots,        \* COMMIT_SLOT_COUNT: slots in the ring
  MaxCommit,    \* bound: commits that arrive
  MaxStart,     \* bound: calls of start()
  MaxError      \* bound: DMA writes that fail

ASSUME CommitPathAssumption ==
  /\ StrideNamed \in BOOLEAN
  /\ {Capacity, Slots} \subseteq Nat \ {0}
  /\ {MaxCommit, MaxStart, MaxError} \subseteq Nat

VARIABLES
  ring,       \* commit_buffer: the commits it holds, the head first
  writer,     \* commit_dma_writer: its state, active buffer, pending stop, target
  buffer,     \* its registers for each buffer
  memory,     \* what the two host buffers hold; 0 is the fill byte
  device,     \* SSRDevice._state
  opened,     \* CommitQueue._opened
  running,    \* CommitQueue._running
  call,       \* what a start() or stop() under way has left to do
  task,       \* where run() is
  queued,     \* all that was put on _completed
  taken,      \* how much of it recv() took
  waiting,    \* a receiver waits in recv()
  arrived,    \* ghost: how many commits arrived
  failed,     \* ghost: how many DMA writes failed
  starts,     \* ghost: how often start() was called
  hasty,      \* ghost: start() wrote a register while the engine was not idle
  overtaken   \* ghost: a pass found a buffer done while an older one was done too

hardware == <<ring, writer, buffer, memory, failed>>
queue == <<queued, taken, waiting>>
vars == <<hardware, device, opened, running, call, task, queue,
          arrived, starts, hasty, overtaken>>

Buffer == {0, 1}
Index == 0 .. Capacity - 1

\* The register writes of the driver, each a pulse of one cycle.
NoCommand == [does |-> "nothing"]
StartEngine == [does |-> "start"]
StopEngine == [does |-> "stop"]
Clear(b) == [does |-> "clear", buffer |-> b]
Arm(b) == [does |-> "arm", buffer |-> b]

\* What a call does once its last register write has returned.
StartReturns == [does |-> "start returns"]
StopReturns == [does |-> "stop returns"]

NoTask == [at |-> "none", buffer |-> 0, count |-> 0]
PollTask(b) == [at |-> "poll", buffer |-> b, count |-> 0]

FreshRegions == [b \in Buffer |-> [i \in Index |-> 0]]

\* The None that stop() queues: no start has the number 0.
Stopped == [commit |-> 0, start |-> 0]

Init ==
  /\ ring = <<>>
  /\ writer = [state |-> "IDLE", active |-> 0, stopping |-> FALSE, to |-> 0]
  /\ buffer = [b \in Buffer |-> [armed |-> FALSE, done |-> FALSE, count |-> 0]]
  /\ memory = FreshRegions
  /\ device = "PROBED"
  /\ opened = FALSE
  /\ running = FALSE
  /\ call = <<>>
  /\ task = NoTask
  /\ queued = <<>>
  /\ taken = 0
  /\ waiting = FALSE
  /\ arrived = 0
  /\ failed = 0
  /\ starts = 0
  /\ hasty = FALSE
  /\ overtaken = FALSE

-----------------------------------------------------------------------------
(* The hardware. *)

\* A commit enters the ring, which is not ready for it while it is full.
Arrive ==
  /\ arrived < MaxCommit
  /\ Len(ring) < Slots
  /\ ring' = Append(ring, arrived + 1)
  /\ arrived' = arrived + 1
  /\ UNCHANGED <<writer, buffer, memory, failed, device, opened, running, call,
                 task, queue, starts, hasty, overtaken>>

\* Both commands reset a buffer; only one of them gives it to the engine.
Commanded(c) ==
  [b \in Buffer |->
    IF c \in {Clear(b), Arm(b)}
    THEN [armed |-> buffer[b].armed \/ c = Arm(b), done |-> FALSE, count |-> 0]
    ELSE buffer[b]]

Stopping(c) == writer.stopping \/ c = StopEngine

ActiveReady == buffer[writer.active].armed

ToIdle == writer' = [writer EXCEPT !.state = "IDLE", !.stopping = FALSE]
Goto(state) == writer' = [writer EXCEPT !.state = state]

Idle(c) ==
  /\ writer.state = "IDLE"
  /\ IF c = StartEngine THEN Goto("WAIT_BUFFER") ELSE ToIdle
  /\ buffer' = Commanded(c)
  /\ UNCHANGED <<ring, memory, failed>>

WaitBuffer(c) ==
  /\ writer.state = "WAIT_BUFFER"
  /\ \/ Stopping(c) /\ ToIdle
     \/ ~Stopping(c) /\ Goto(IF ActiveReady THEN "WAIT_SLOT" ELSE "WAIT_BUFFER")
  /\ buffer' = Commanded(c)
  /\ UNCHANGED <<ring, memory, failed>>

WaitSlot(c) ==
  /\ writer.state = "WAIT_SLOT"
  /\ \/ Stopping(c) /\ ToIdle
     \/ ~Stopping(c) /\ ~ActiveReady /\ Goto("WAIT_BUFFER")
     \/ ~Stopping(c) /\ ActiveReady /\ ring = <<>> /\ UNCHANGED writer
     \/ /\ ~Stopping(c) /\ ActiveReady /\ ring # <<>>
        /\ writer' = [writer EXCEPT !.state = "ISSUE_DMA",
                                    !.to = buffer[writer.active].count]
  /\ buffer' = Commanded(c)
  /\ UNCHANGED <<ring, memory, failed>>

\* A descriptor can be withdrawn until it is accepted, and not any more then.
IssueDma(c) ==
  /\ writer.state = "ISSUE_DMA"
  /\ \/ writer' = [writer EXCEPT !.state = "WAIT_DMA", !.stopping = Stopping(c)]
     \/ c = StopEngine /\ ToIdle
     \/ c # StopEngine /\ UNCHANGED writer
  /\ buffer' = Commanded(c)
  /\ UNCHANGED <<ring, memory, failed>>

Written == [memory EXCEPT ![writer.active][writer.to] = Head(ring)]

\* MUTANT: a failed write is taken for a good one.
WaitDmaIgnoresErrors(c) ==
  /\ writer.state = "WAIT_DMA"
  /\ \/ memory' = Written /\ UNCHANGED failed
     \/ failed < MaxError /\ failed' = failed + 1 /\ UNCHANGED memory
  /\ writer' = [writer EXCEPT !.state = "POP_SLOT", !.stopping = Stopping(c)]
  /\ buffer' = Commanded(c)
  /\ UNCHANGED ring

\* A write that failed may have reached the memory all the same.
WaitDma(c) ==
  /\ writer.state = "WAIT_DMA"
  /\ \/ /\ writer' = [writer EXCEPT !.stopping = Stopping(c)]
        /\ UNCHANGED <<memory, failed>>
     \/ /\ writer' = [writer EXCEPT !.state = "POP_SLOT", !.stopping = Stopping(c)]
        /\ memory' = Written
        /\ UNCHANGED failed
     \/ /\ failed < MaxError
        /\ failed' = failed + 1
        /\ memory' \in {memory, Written}
        /\ writer' = [writer EXCEPT !.state = "ERROR", !.stopping = FALSE]
  /\ buffer' = Commanded(c)
  /\ UNCHANGED ring

\* MUTANT: a full buffer stays armed.
PopSlotKeepsArmed(c) ==
  LET active == writer.active
      full   == buffer[active].count + 1 >= Capacity
  IN /\ writer.state = "POP_SLOT"
     /\ writer' = [writer EXCEPT !.stopping = Stopping(c),
                                 !.active = IF full THEN 1 - active ELSE active,
                                 !.state = IF full THEN "WAIT_BUFFER" ELSE "WAIT_SLOT"]
     /\ buffer' = [Commanded(c) EXCEPT
                     ![active].count = buffer[active].count + 1,
                     ![active].done = @ \/ full]
     /\ ring' = Tail(ring)
     /\ UNCHANGED <<memory, failed>>

\* What the engine writes into the registers of its buffer overrides a command
\* that arrives in the same cycle.
PopSlot(c) ==
  LET active == writer.active
      count  == buffer[active].count + 1
      full   == count >= Capacity
  IN /\ writer.state = "POP_SLOT"
     /\ writer' = [writer EXCEPT !.stopping = Stopping(c),
                                 !.active = IF full THEN 1 - active ELSE active,
                                 !.state = IF full THEN "WAIT_BUFFER" ELSE "WAIT_SLOT"]
     /\ buffer' = [Commanded(c) EXCEPT
                     ![active] = [armed |-> @.armed /\ ~full,
                                  done |-> @.done \/ full, count |-> count]]
     /\ ring' = Tail(ring)
     /\ UNCHANGED <<memory, failed>>

LeaveError(c) ==
  /\ writer.state = "ERROR"
  /\ ToIdle
  /\ buffer' = Commanded(c)
  /\ UNCHANGED <<ring, memory, failed>>

Cycle(c) ==
  \/ Idle(c) \/ WaitBuffer(c) \/ WaitSlot(c) \/ IssueDma(c) \/ WaitDma(c)
  \/ PopSlot(c) \/ LeaveError(c)

Engine ==
  /\ Cycle(NoCommand)
  /\ UNCHANGED <<device, opened, running, call, task, queue,
                 arrived, starts, hasty, overtaken>>

-----------------------------------------------------------------------------
(* The caller of the device: open(), start(), stop() and close(). *)

\* configure() writes the stride of its buffer under a name it looks up; where
\* the name is missing it raises.
Configures == StrideNamed

QueueOpens ==
  /\ ~opened
  /\ Configures
  /\ opened' = TRUE
  /\ memory' = FreshRegions

Open ==
  /\ device = "PROBED"
  /\ QueueOpens
  /\ device' = "OPENED"
  /\ UNCHANGED <<ring, writer, buffer, failed, running, call, task, queue,
                 arrived, starts, hasty, overtaken>>

\* close() gives nothing back: the queue stays open, and cannot be opened again.
Close ==
  /\ device = "OPENED"
  /\ call = <<>>
  /\ device' = "PROBED"
  /\ UNCHANGED <<hardware, opened, running, call, task, queue,
                 arrived, starts, hasty, overtaken>>

\* MUTANT: only the first buffer is handed over.
StartWritesOne == <<Clear(0), Arm(0), StartEngine>>

StartWrites == <<Clear(0), Arm(0), Clear(1), Arm(1), StartEngine>>

Start ==
  /\ device = "OPENED"
  /\ ~running
  /\ call = <<>>
  /\ starts < MaxStart
  /\ starts' = starts + 1
  /\ call' = Append(StartWrites, StartReturns)
  /\ UNCHANGED <<hardware, device, opened, running, task, queue,
                 arrived, hasty, overtaken>>

Stop ==
  /\ device = "RUNNING"
  /\ call = <<>>
  /\ call' = <<StopEngine, StopReturns>>
  /\ UNCHANGED <<hardware, device, opened, running, task, queue,
                 arrived, starts, hasty, overtaken>>

CallWrites ==
  /\ Len(call) > 1
  /\ Cycle(Head(call))
  /\ call' = Tail(call)
  /\ hasty' = (hasty \/ (Head(call) # StopEngine /\ writer.state # "IDLE"))
  /\ UNCHANGED <<device, opened, running, task, queue,
                 arrived, starts, overtaken>>

StartEnds ==
  /\ call = <<StartReturns>>
  /\ call' = <<>>
  /\ running' = TRUE
  /\ task' = PollTask(0)
  /\ device' = "RUNNING"
  /\ UNCHANGED <<hardware, opened, queue, arrived, starts, hasty, overtaken>>

\* MUTANT: stop() wakes nobody.
StopEndsSilently ==
  /\ call = <<StopReturns>>
  /\ call' = <<>>
  /\ running' = FALSE
  /\ task' = NoTask
  /\ device' = "OPENED"
  /\ UNCHANGED <<hardware, opened, queue, arrived, starts, hasty, overtaken>>

\* The task is cancelled wherever it is.
StopEnds ==
  /\ call = <<StopReturns>>
  /\ call' = <<>>
  /\ running' = FALSE
  /\ queued' = Append(queued, Stopped)
  /\ task' = NoTask
  /\ device' = "OPENED"
  /\ UNCHANGED <<hardware, opened, taken, waiting, arrived, starts, hasty,
                 overtaken>>

-----------------------------------------------------------------------------
(* The run() task: poll the two buffers in turn, queue what a full one       *)
(* holds, give it back.                                                      *)

RawStatus(b) == [armed |-> buffer[b].armed, done |-> buffer[b].done]
CompletedCount(b) == buffer[b].count

Poll ==
  LET b == task.buffer
  IN /\ task.at = "poll"
     /\ task' = IF RawStatus(b).done THEN [task EXCEPT !.at = "count"]
                ELSE PollTask(1 - b)
     /\ overtaken' = (overtaken \/ ( /\ \A o \in Buffer : buffer[o].done
                                     /\ writer.active # b))
     /\ UNCHANGED <<hardware, device, opened, running, call, queue,
                    arrived, starts, hasty>>

ReadCount ==
  /\ task.at = "count"
  /\ task' = [task EXCEPT !.at = "copy", !.count = CompletedCount(task.buffer)]
  /\ UNCHANGED <<hardware, device, opened, running, call, queue,
                 arrived, starts, hasty, overtaken>>

Records(b, n) ==
  [i \in 1 .. n |-> [commit |-> memory[b][i - 1], start |-> starts]]

CopySlots ==
  /\ task.at = "copy"
  /\ queued' = queued \o Records(task.buffer, task.count)
  /\ task' = [task EXCEPT !.at = "clear", !.count = 0]
  /\ UNCHANGED <<hardware, device, opened, running, call, taken, waiting,
                 arrived, starts, hasty, overtaken>>

\* release_and_rearm(): the task goes on with the other buffer, or a new pass.
Release ==
  /\ \/ /\ task.at = "clear"
        /\ Cycle(Clear(task.buffer))
        /\ task' = [task EXCEPT !.at = "arm"]
     \/ /\ task.at = "arm"
        /\ Cycle(Arm(task.buffer))
        /\ task' = PollTask(1 - task.buffer)
  /\ UNCHANGED <<device, opened, running, call, queue,
                 arrived, starts, hasty, overtaken>>

-----------------------------------------------------------------------------
(* A receiver.  It is refused while the queue is not running.               *)

Receive ==
  /\ waiting \/ running
  /\ IF taken < Len(queued)
     THEN taken' = taken + 1 /\ waiting' = FALSE
     ELSE taken' = taken /\ waiting' = TRUE
  /\ UNCHANGED <<hardware, device, opened, running, call, task, queued,
                 arrived, starts, hasty, overtaken>>

Call == CallWrites \/ StartEnds \/ StopEnds
Task == Poll \/ ReadCount \/ CopySlots \/ Release

Next == Arrive \/ Engine \/ Open \/ Close \/ Start \/ Stop \/ Call \/ Task \/ Receive

Spec == Init /\ [][Next]_vars

\* The clock runs, the DMA engine answers, and the simulator resumes every
\* coroutine whose register access has returned.
FairSpec == Spec /\ WF_vars(Engine) /\ WF_vars(Call) /\ WF_vars(Task)

-----------------------------------------------------------------------------
(* Properties. *)

TaskSteps == {"none", "poll", "count", "copy", "clear", "arm"}

DeviceStates == {"PROBED", "OPENED", "RUNNING"}

States == {"IDLE", "WAIT_BUFFER", "WAIT_SLOT", "ISSUE_DMA", "WAIT_DMA",
           "POP_SLOT", "ERROR"}

\* What the host holds and the queue's state keep their types, the engine never
\* aims past the end of a buffer, and nobody takes what was not queued.
TypeOK ==
  /\ ring \in Seq(1 .. MaxCommit) /\ Len(ring) <= Slots
  /\ writer \in [state : States, active : Buffer, stopping : BOOLEAN, to : Index]
  /\ buffer \in [Buffer -> [armed : BOOLEAN, done : BOOLEAN, count : 0 .. Capacity]]
  /\ memory \in [Buffer -> [Index -> 0 .. MaxCommit]]
  /\ device \in DeviceStates
  /\ task \in [at : TaskSteps, buffer : Buffer, count : 0 .. Capacity]
  /\ taken \in 0 .. Len(queued)

Delivered == {i \in DOMAIN queued : queued[i] # Stopped}

\* The host receives real commits, in order and none twice, across restarts and
\* failed writes, and between two starts without a gap (CommitQueue.run and
\* commit_dma_writer.v).  Two histories are exempt, and no other.  A pass of run()
\* that was overtaken, both buffers being full, takes the younger one first.  A
\* start() that meets the last transfer of the run before may lose its commit.
RecordsInOrder ==
  /\ \A i \in Delivered : queued[i].commit # 0
  /\ \A i, j \in Delivered :
       LET r == queued[i]
           s == queued[j]
       IN (i < j /\ ~overtaken) =>
            /\ s.commit > r.commit
            /\ (r.start = s.start /\ ~hasty) => s.commit = r.commit + (j - i)

\* While the driver counts, copies and releases a buffer, that buffer is full
\* and the engine is not at work in it, whatever start() and stop() did before
\* (run() and read_slot(), under the contract at commit_dma_writer.v:436-440).
ReadersOwnTheirBuffer ==
  task.at \in {"count", "copy", "clear", "arm"} =>
    /\ buffer[task.buffer].count = (IF task.at = "arm" THEN 0 ELSE Capacity)
    /\ writer.active = task.buffer =>
         writer.state \in {"IDLE", "WAIT_BUFFER", "ERROR"}

\* stop() leaves nobody waiting (CommitQueue.stop, "unblock any waiting
\* recv()"): a receiver waits only for a queue that runs, or has its answer.
NoReceiverIsStranded == waiting => running \/ taken < Len(queued)

\* As long as the device runs and no write fails, the ring drains and every
\* full buffer is read and given back, however late the driver polls.
FullBuffersAreRead ==
  <>[](device = "RUNNING" /\ call = <<>> /\ ~hasty /\ failed = 0)
    => <>[](ring = <<>> /\ \A b \in Buffer : ~buffer[b].done)
=============================================================================
