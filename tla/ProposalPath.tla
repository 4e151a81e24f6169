----------------------------- MODULE ProposalPath -----------------------------
(***************************************************************************)
(* The way of a proposal from the host to the wire: the driver that writes *)
(* the records of a batch into its region and starts the engine            *)
(* (ProposalQueue in ssr_dataplane.py), the engine that fetches them one   *)
(* by one (proposal_dma_reader.v) into a ring of slots (proposal_buffer.v),*)
(* and the transmitter that puts one slot into the frame of a round        *)
(* (tx_engine.v).                                                          *)
(*                                                                         *)
(* The three modules of the hardware move together, once a clock cycle.    *)
(* What they meet in that cycle is an Event: whether the DMA engine and    *)
(* the slot RAM answer, whether the MAC is ready, and whether the core's   *)
(* start pulse falls into its window.  A register access of the driver is  *)
(* a step of its own, a write being the cycle that sees it.                *)
(*                                                                         *)
(* Abstractions: a record is a number, a beat of it the number and an      *)
(* index; a DMA reads the host's memory in the cycle it is answered in;    *)
(* the two RAM states of the buffer's reader are one; header-only frames   *)
(* are not recorded; counters, error codes and the echo are left out; one  *)
(* coroutine proposes.  Address, length and stride are the same each time. *)
(*                                                                         *)
(* In the code as it stands propose() asks submit() for                    *)
(* len(records) // slot_len slots.  A region has fewer slots than a slot   *)
(* has bytes, so that is none, which submit() refuses.  SlotPerRecord says *)
(* whether it asks for a slot per record; where it does not, no proposal   *)
(* ever gets through.                                                      *)
(***************************************************************************)
EXTENDS Integers, Sequences, FiniteSets

CONSTANTS
  SlotPerRecord, \* propose() asks for as many slots as it has records
  Region,        \* capacity_slots: records the driver's region holds
  Slots,         \* PROPOSAL_SLOT_COUNT: slots in the ring
  Beats,         \* PROPOSAL_SLOT_BEAT_COUNT: beats in a slot
  MaxRecord,     \* bound: records that are proposed
  MaxError       \* bound: DMA reads that fail

ASSUME ProposalPathAssumption ==
  /\ SlotPerRecord \in BOOLEAN
  /\ {Region, Slots, Beats} \subseteq Nat \ {0}
  /\ {MaxRecord, MaxError} \subseteq Nat

VARIABLES
  caller,    \* where propose() is
  region,    \* ProposalQueue._region
  proposed,  \* how many records were given to propose()
  reader,    \* proposal_dma_reader's registers
  slots,     \* proposal_buffer: its RAM
  ring,      \* proposal_buffer: head_ptr, tail_ptr, slot_count
  feed,      \* proposal_buffer: the engine that reads the head slot out
  tx,        \* tx_engine: its state and the beat it holds
  failed,    \* ghost: how many DMA reads failed
  fetched,   \* ghost: the records the reader committed, in order
  wire,      \* ghost: the frames with a payload, each a sequence of beats
  promised,  \* ghost: the records of the calls that returned a result
  trampled   \* ghost: propose() wrote to the region while a batch was fetched

buffer == <<slots, ring, feed>>
hardware == <<reader, buffer, tx, failed, fetched, wire>>
vars == <<caller, region, proposed, hardware, promised, trampled>>

NoBeat == [record |-> 0, beat |-> 0]
IdleCaller == [at |-> "idle", count |-> 0, wait |-> FALSE, before |-> 0]

Init ==
  /\ caller = IdleCaller
  /\ region = [i \in 0 .. Region - 1 |-> 0]
  /\ proposed = 0
  /\ reader = [state |-> "IDLE", run |-> FALSE, done |-> FALSE, error |-> FALSE,
               count |-> 0, index |-> 0, slot |-> 0, entries |-> 0,
               commit |-> FALSE]
  /\ slots = [s \in 0 .. Slots - 1 |-> 0]
  /\ ring = [head |-> 0, tail |-> 0, used |-> 0]
  /\ feed = [state |-> "IDLE", beat |-> 1, record |-> 0]
  /\ tx = [state |-> "IDLE", payload |-> FALSE, held |-> NoBeat]
  /\ failed = 0
  /\ fetched = <<>>
  /\ wire = <<>>
  /\ promised = {}
  /\ trampled = FALSE

-----------------------------------------------------------------------------
(* The hardware. *)

\* What may happen in this cycle that anybody looks at.
Event ==
  [dma : IF reader.state = "WAIT_DMA" THEN {"busy", "ok", "failed"} ELSE {"busy"},
   ram : IF feed.state = "READ" THEN BOOLEAN ELSE {FALSE},
   mac : IF tx.state = "HDR" \/ tx.held # NoBeat THEN BOOLEAN ELSE {FALSE},
   start : IF tx.state = "IDLE" THEN BOOLEAN ELSE {FALSE}]

NoCommand == [does |-> "nothing"]
WriteCount(n) == [does |-> "count", count |-> n]
StartBatch == [does |-> "start"]

\* The registers as the write of this cycle and the defaults leave them.
Commanded(c) ==
  LET held == [reader EXCEPT !.commit = FALSE]
  IN CASE c.does = "count" -> [held EXCEPT !.count = c.count]
       [] c = StartBatch /\ ~reader.run /\ reader.state = "IDLE" ->
            [held EXCEPT !.run = TRUE, !.done = FALSE, !.error = FALSE, !.index = 0]
       [] OTHER -> held

Idle(c) ==
  /\ reader.state = "IDLE"
  /\ reader' = IF ~reader.run THEN Commanded(c)
               ELSE IF reader.count = 0
                    THEN [Commanded(c) EXCEPT !.run = FALSE, !.done = TRUE]
                    ELSE [Commanded(c) EXCEPT !.state = "ISSUE_DMA"]
  /\ UNCHANGED <<slots, failed, fetched>>

TailIsFree == ring.used < Slots

\* MUTANT: the tail slot is sampled while its own commit is being presented.
MayIssueAtOnce == TailIsFree

\* MUTANT: a fetch waits until the rest of its batch has room.
MayIssueWhole == ring.used + reader.count <= Slots /\ ~reader.commit

MayIssue == TailIsFree /\ ~reader.commit

IssueDma(c) ==
  /\ reader.state = "ISSUE_DMA"
  /\ reader' = IF MayIssue
               THEN [Commanded(c) EXCEPT !.state = "WAIT_DMA", !.slot = ring.tail]
               ELSE Commanded(c)
  /\ UNCHANGED <<slots, failed, fetched>>

WaitDma(c, e) ==
  /\ reader.state = "WAIT_DMA"
  /\ \/ /\ e.dma = "busy"
        /\ reader' = Commanded(c)
        /\ UNCHANGED <<slots, failed>>
     \/ /\ e.dma = "ok"
        /\ reader' = [Commanded(c) EXCEPT !.state = "COMMIT_SLOT"]
        /\ slots' = [slots EXCEPT ![reader.slot] = region[reader.index]]
        /\ UNCHANGED failed
     \/ /\ e.dma = "failed"
        /\ failed < MaxError
        /\ failed' = failed + 1
        /\ reader' = [Commanded(c) EXCEPT !.state = "ERROR", !.run = FALSE,
                                          !.done = TRUE, !.error = TRUE]
        /\ UNCHANGED slots
  /\ UNCHANGED fetched

CommitSlot(c) ==
  LET last == reader.count = 1
  IN /\ reader.state = "COMMIT_SLOT"
     /\ reader' = [Commanded(c) EXCEPT
                     !.commit = TRUE,
                     !.entries = @ + 1,
                     !.index = @ + 1,
                     !.count = reader.count - 1,
                     !.run = @ /\ ~last,
                     !.done = @ \/ last,
                     !.state = IF last THEN "IDLE" ELSE "ISSUE_DMA"]
     /\ fetched' = Append(fetched, slots[reader.slot])
     /\ UNCHANGED <<slots, failed>>

LeaveError(c) ==
  /\ reader.state = "ERROR"
  /\ reader' = [Commanded(c) EXCEPT !.state = "IDLE"]
  /\ UNCHANGED <<slots, failed, fetched>>

Reader(c, e) ==
  Idle(c) \/ IssueDma(c) \/ WaitDma(c, e) \/ CommitSlot(c) \/ LeaveError(c)

Offered == feed.state = "OUTPUT"
OfferedBeat == [record |-> feed.record, beat |-> feed.beat]

\* The transmitter takes a beat if it holds none, or passes on the one it holds.
Space(e) == tx.state = "PAYLOAD" /\ (tx.held = NoBeat \/ e.mac)

Taken(e) == Offered /\ Space(e)
Pops(e) == Taken(e) /\ feed.beat = Beats
Commits == reader.commit /\ TailIsFree

After(pointer) == (pointer + 1) % Slots

Ring(e) ==
  ring' = [head |-> IF Pops(e) THEN After(ring.head) ELSE ring.head,
           tail |-> IF Commits THEN After(ring.tail) ELSE ring.tail,
           used |-> ring.used + (IF Commits THEN 1 ELSE 0)
                              - (IF Pops(e) THEN 1 ELSE 0)]

\* The head slot goes out beat by beat, each fetched from the RAM first.
Feed(e) ==
  \/ /\ feed.state = "IDLE"
     /\ feed' = IF ring.used > 0 THEN [feed EXCEPT !.state = "READ"] ELSE feed
  \/ /\ feed.state = "READ"
     /\ feed' = IF e.ram THEN [feed EXCEPT !.state = "OUTPUT",
                                           !.record = slots[ring.head]]
                ELSE feed
  \/ /\ Offered
     /\ feed' = CASE Pops(e) -> [state |-> "IDLE", beat |-> 1, record |-> 0]
                  [] Taken(e) /\ ~Pops(e) ->
                       [state |-> "READ", beat |-> feed.beat + 1, record |-> 0]
                  [] ~Taken(e) -> feed

\* What a frame carries is settled when it starts: the slot on offer, or none.
Admit(e) ==
  /\ tx.state = "IDLE"
  /\ tx' = IF e.start THEN [tx EXCEPT !.state = "HDR", !.payload = Offered] ELSE tx
  /\ UNCHANGED wire

Header(e) ==
  /\ tx.state = "HDR"
  /\ tx' = IF e.mac
           THEN [tx EXCEPT !.state = IF tx.payload THEN "PAYLOAD" ELSE "IDLE"]
           ELSE tx
  /\ wire' = IF e.mac /\ tx.payload THEN Append(wire, <<>>) ELSE wire

\* A beat that is taken while the last one leaves is held for the next frame.
Payload(e) ==
  LET leaves == tx.held # NoBeat /\ e.mac
  IN /\ tx.state = "PAYLOAD"
     /\ tx' = [tx EXCEPT
                 !.state = IF leaves /\ tx.held.beat = Beats THEN "IDLE" ELSE @,
                 !.held = IF Taken(e) THEN OfferedBeat
                          ELSE IF leaves THEN NoBeat ELSE @]
     /\ wire' = IF leaves THEN [wire EXCEPT ![Len(wire)] = Append(@, tx.held)]
                ELSE wire

Transmit(e) == Admit(e) \/ Header(e) \/ Payload(e)

Cycle(c, e) == Reader(c, e) /\ Ring(e) /\ Feed(e) /\ Transmit(e)

Tick(e) == Cycle(NoCommand, e) /\ UNCHANGED <<caller, region, proposed, promised, trampled>>

Clock == \E e \in Event : Tick(e)

-----------------------------------------------------------------------------
(* The driver. *)

Goto(at) == caller' = [caller EXCEPT !.at = at]
Raise == caller' = IdleCaller

\* The status word and the counter, each as one register access finds it.
ReadStatus == [running |-> reader.run, done |-> reader.done, error |-> reader.error]
ReadEntryCounter == reader.entries

\* propose() writes the records before anything tells whether the engine is busy.
Propose(n, wait) ==
  /\ caller.at = "idle"
  /\ proposed + n <= MaxRecord
  /\ caller' = [at |-> "before", count |-> n, wait |-> wait, before |-> 0]
  /\ region' = [i \in DOMAIN region |-> IF i < n THEN proposed + i + 1 ELSE region[i]]
  /\ proposed' = proposed + n
  /\ trampled' = (trampled \/ reader.run)
  /\ UNCHANGED <<hardware, promised>>

ReadBefore ==
  /\ caller.at = "before"
  /\ caller' = [caller EXCEPT !.at = "submit", !.before = ReadEntryCounter]
  /\ UNCHANGED <<region, proposed, hardware, promised, trampled>>

\* MUTANT: submit() does not look whether the engine runs.
SubmitUnchecked ==
  /\ caller.at = "submit"
  /\ IF SlotPerRecord THEN Goto("count") ELSE Raise
  /\ UNCHANGED <<region, proposed, hardware, promised, trampled>>

\* submit() looks at the engine, and raises if there is nothing to do for it or
\* it runs.
Submit ==
  /\ caller.at = "submit"
  /\ IF SlotPerRecord /\ ~ReadStatus.running THEN Goto("count") ELSE Raise
  /\ UNCHANGED <<region, proposed, hardware, promised, trampled>>

WriteBatch(e) ==
  /\ \/ /\ caller.at = "count"
        /\ Cycle(WriteCount(caller.count), e)
        /\ Goto("start")
     \/ /\ caller.at = "start"
        /\ Cycle(StartBatch, e)
        /\ IF caller.wait THEN Goto("poll") ELSE Raise
  /\ UNCHANGED <<region, proposed, promised, trampled>>

\* wait_done() returns on DONE, unless there was an error, or gives up.
WaitDone ==
  /\ caller.at = "poll"
  /\ \/ ReadStatus.done /\ ~ReadStatus.error /\ Goto("after")
     \/ ReadStatus.done /\ ReadStatus.error /\ Raise
     \/ ~ReadStatus.done /\ Raise
  /\ UNCHANGED <<region, proposed, hardware, promised, trampled>>

ReadAfter ==
  /\ caller.at = "after"
  /\ Raise
  /\ promised' = IF ReadEntryCounter - caller.before = caller.count
                 THEN promised \cup (proposed - caller.count + 1 .. proposed)
                 ELSE promised
  /\ UNCHANGED <<region, proposed, hardware, trampled>>

Writes == \E e \in Event : WriteBatch(e)
Driver == ReadBefore \/ Submit \/ Writes \/ WaitDone \/ ReadAfter

Next ==
  \/ Clock
  \/ \E n \in 1 .. Region, wait \in BOOLEAN : Propose(n, wait)
  \/ Driver

Spec == Init /\ [][Next]_vars

-----------------------------------------------------------------------------
(* Fairness: the clock ticks, the DMA engine and the RAM answer, the MAC     *)
(* takes a beat it is shown, rounds go on starting, and the simulator goes   *)
(* on with a coroutine.                                                      *)

DmaAnswers == reader.state = "WAIT_DMA" /\ \E e \in Event : e.dma # "busy" /\ Tick(e)
RamAnswers == feed.state = "READ" /\ \E e \in Event : e.ram /\ Tick(e)
MacTakes == /\ tx.state = "HDR" \/ (tx.state = "PAYLOAD" /\ tx.held # NoBeat)
            /\ \E e \in Event : e.mac /\ Tick(e)
RoundStarts == tx.state = "IDLE" /\ \E e \in Event : e.start /\ Tick(e)

FairSpec ==
  /\ Spec
  /\ WF_vars(Clock) /\ WF_vars(Driver)
  /\ WF_vars(DmaAnswers) /\ WF_vars(RamAnswers)
  /\ WF_vars(MacTakes) /\ WF_vars(RoundStarts)

-----------------------------------------------------------------------------
(* Properties. *)

Whole(record) == [b \in 1 .. Beats |-> [record |-> record, beat |-> b]]

\* How many slots the ring holds, the one included whose commit is on its way,
\* and what the k-th of them holds.
Queued == ring.used + (IF reader.commit THEN 1 ELSE 0)
QueuedRecord(k) == slots[(ring.head + k - 1) % Slots]

\* The payload on the wire is what was fetched: frame by frame, a whole slot in
\* each, in the order of the fetches, and what is still in the ring follows on,
\* however the MAC stalls and the ring fills (proposal_dma_reader.v:367-374,
\* tx_engine.v:30-33).
SentAsFetched ==
  /\ \A i \in 1 .. Len(wire) :
       /\ wire[i] = SubSeq(Whole(fetched[i]), 1, Len(wire[i]))
       /\ i < Len(wire) => Len(wire[i]) = Beats
  /\ \A k \in 1 .. Queued :
       QueuedRecord(k) = fetched[Len(fetched) - Queued + k]

\* The records of a call that returned a result are on the wire or on their way to
\* it, whatever calls without a wait, calls that timed out and calls that were
\* refused did before or since; and nobody's record goes out twice, unless propose()
\* had rewritten the region under a batch (ProposalQueue.propose, submit).
PromisedAreOnTheirWay ==
  /\ \A p \in promised :
       \/ \E i \in DOMAIN wire : Len(wire[i]) = Beats /\ wire[i][Beats].record = p
       \/ tx.held.record = p
       \/ \E k \in 1 .. Queued : QueuedRecord(k) = p
  /\ ~trampled => \A i \in 1 .. Len(fetched) - 1 : fetched[i] < fetched[i + 1]

\* "a payload placed at a host address ends up in the frame that leaves the port"
\* (tb_proposal_path.v:18-19): batches come to an end, the ring empties and the
\* transmitter keeps nothing back, also when the batch is larger than the ring.
\* This takes slots of two beats at least.  The only beat of a slot may be taken
\* while the one before it leaves, and is then held until another slot is offered.
EveryProposalIsSent ==
  <>[](caller.at = "idle" /\ ~reader.run /\ Queued = 0 /\ tx.held = NoBeat)
=============================================================================
