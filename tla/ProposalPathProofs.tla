-------------------------- MODULE ProposalPathProofs --------------------------
(***************************************************************************)
(* Proofs about ProposalPath, for regions, rings and slots of any size and *)
(* any number of calls and failed reads.                                   *)
(*                                                                         *)
(* A record moves through four places: the slot the reader fetches it into,*)
(* the ring, the transmitter's register, the frame.  The reader is the     *)
(* only one that writes a slot, and only the one behind the ring's last;   *)
(* the feed reads only the first; and a beat that leaves is always the     *)
(* next one of the frame that is open, or the first of the next frame.     *)
(* That is PathInv.  FetchInv is about what the records are: a call that   *)
(* found the engine idle has the region for itself as long as it waits.    *)
(***************************************************************************)
EXTENDS ProposalPath, TLAPS

ReaderStates == {"IDLE", "ISSUE_DMA", "WAIT_DMA", "COMMIT_SLOT", "ERROR"}

ReaderType ==
  [state : ReaderStates, run : BOOLEAN, done : BOOLEAN, error : BOOLEAN, count : 0 .. Region,
   index : Nat, slot : 0 .. Slots - 1, entries : Nat, commit : BOOLEAN]

BeatType == [record : Nat, beat : Nat]

\* What the registers hold.
RegistersOK ==
  /\ reader \in ReaderType
  /\ slots \in [0 .. Slots - 1 -> Nat]
  /\ ring \in [head : 0 .. Slots - 1, tail : 0 .. Slots - 1, used : 0 .. Slots]
  /\ feed \in [state : {"IDLE", "READ", "OUTPUT"}, beat : 1 .. Beats, record : Nat]
  /\ tx \in [state : {"IDLE", "HDR", "PAYLOAD"}, payload : BOOLEAN, held : BeatType]

\* What the driver and the histories hold.
HostOK ==
  /\ caller \in [at : {"idle", "before", "submit", "count", "start", "poll", "after"},
                 count : 0 .. Region, wait : BOOLEAN, before : Nat]
  /\ region \in [0 .. Region - 1 -> Nat]
  /\ proposed \in Nat
  /\ fetched \in Seq(Nat)

\* The reader works while a batch runs, within the region; it fetches into the tail slot,
\* which is free until its commit has been counted.
ReaderInv ==
  /\ reader.state \in {"ISSUE_DMA", "WAIT_DMA", "COMMIT_SLOT"} => reader.run
  /\ reader.state = "ERROR" => ~reader.run
  /\ reader.run => /\ reader.count >= 1 /\ reader.index + reader.count <= Region
                   /\ ~reader.done
  /\ reader.commit => reader.state \in {"IDLE", "ISSUE_DMA"} /\ ring.used < Slots
  /\ reader.state \in {"WAIT_DMA", "COMMIT_SLOT"} =>
       reader.slot = ring.tail /\ ring.used < Slots

\* A batch is set up while none runs.
CallerInv ==
  /\ caller.at # "idle" => caller.count >= 1
  /\ caller.at \in {"count", "start", "after"} => ~reader.run
  /\ caller.at = "start" => reader.state = "IDLE" /\ reader.count = caller.count

Popped == Len(fetched) - Queued

\* The ring holds what was fetched last.
QueueInv ==
  /\ ring.tail = (ring.head + ring.used) % Slots
  /\ Queued <= Len(fetched)
  /\ \A k \in 1 .. Queued : QueuedRecord(k) = fetched[Popped + k]

\* The feed reads the head slot, which stays until its last beat has been taken.
FeedInv ==
  /\ feed.state \in {"READ", "OUTPUT"} \/ feed.beat > 1 => ring.used > 0
  /\ feed.state = "OUTPUT" => feed.record = slots[ring.head]

\* The beat that was taken last, and the one that leaves next.
TakenSlot == IF feed.beat > 1 THEN Popped + 1 ELSE Popped
TakenBeat == IF feed.beat > 1 THEN feed.beat - 1 ELSE Beats

LeavingSlot == IF tx.held # NoBeat THEN TakenSlot ELSE Popped + 1
LeavingBeat == IF tx.held # NoBeat THEN TakenBeat ELSE feed.beat

\* The transmitter holds the beat that was taken last, or none.
HeldInv ==
  tx.held # NoBeat =>
    TakenSlot >= 1 /\ tx.held = [record |-> fetched[TakenSlot], beat |-> TakenBeat]

\* Each frame is the slot of its number, and all but the open one are whole.
WireInv ==
  /\ wire \in Seq(Seq(BeatType)) /\ Len(wire) <= Len(fetched)
  /\ tx.state = "HDR" /\ tx.payload => Len(wire) < Len(fetched)
  /\ \A i \in 1 .. Len(wire) : \A b \in 1 .. Len(wire[i]) :
       wire[i][b] = [record |-> fetched[i], beat |-> b]
  /\ \A i \in 1 .. Len(wire) :
       Len(wire[i]) = Beats \/ (i = Len(wire) /\ tx.state = "PAYLOAD")
  /\ tx.state # "PAYLOAD" => LeavingSlot = Len(wire) + 1 /\ LeavingBeat = 1
  /\ tx.state = "PAYLOAD" => /\ LeavingSlot = Len(wire)
                             /\ wire # <<>> /\ LeavingBeat = Len(wire[Len(wire)]) + 1

PathInv ==
  /\ RegistersOK /\ HostOK /\ ReaderInv /\ CallerInv
  /\ QueueInv /\ FeedInv /\ HeldInv /\ WireInv

-----------------------------------------------------------------------------
(* What is fetched. *)

\* The records of the present call, from the beginning of the region.
CallRegion ==
  caller.at # "idle" =>
    \A i \in 0 .. caller.count - 1 : region[i] = proposed - caller.count + i + 1

\* The last n records that were fetched are the first n of the present call.
Fetched(n) ==
  n <= Len(fetched) /\ \A j \in 1 .. n :
    fetched[Len(fetched) - n + j] = proposed - caller.count + j

\* A call that waits for its batch sees all of it.
BatchInv ==
  /\ caller.at = "poll" /\ reader.run =>
       reader.index + reader.count = caller.count /\ Fetched(reader.index)
  /\ caller.at = "poll" /\ reader.done /\ ~reader.error => Fetched(caller.count)
  /\ caller.at = "after" => Fetched(caller.count)

\* Nobody rewrites what is being fetched, or a call without a wait came before.
LoadInv ==
  (reader.state = "COMMIT_SLOT" /\ (~trampled \/ caller.at = "poll")) =>
    slots[reader.slot] = region[reader.index]

InBatch == reader.index .. reader.index + reader.count - 1

\* Later batches have larger numbers.
OrderedInv ==
  ~trampled =>
    /\ \A i, j \in 1 .. Len(fetched) : i < j => fetched[i] < fetched[j]
    /\ \A i \in 1 .. Len(fetched) : fetched[i] <= proposed
    /\ reader.run =>
         /\ \A i \in InBatch : region[i] <= proposed
         /\ \A i \in InBatch, j \in 1 .. Len(fetched) : fetched[j] < region[i]
         /\ \A i, j \in InBatch : i < j => region[i] < region[j]
    /\ caller.at \in {"before", "submit", "count", "start"} =>
         /\ ~reader.run
         /\ \A i \in 1 .. Len(fetched) : fetched[i] <= proposed - caller.count

PromiseInv == \A p \in promised : \E i \in 1 .. Len(fetched) : fetched[i] = p

FetchInv == CallRegion /\ BatchInv /\ LoadInv /\ OrderedInv /\ PromiseInv

-----------------------------------------------------------------------------
(* Places in the ring. *)

\* A number less than twice the size of the ring.
LEMMA Wraps ==
  ASSUME NEW n \in Nat \ {0}, NEW x \in 0 .. 2 * n - 1
  PROVE  x % n = IF x < n THEN x ELSE x - n
<1>1. CASE x < n
  BY <1>1
<1>2. CASE x >= n
  <2>1. PICK y \in 0 .. n - 1 : x = y + n
    BY <1>2
  <2>2. (y + n) % n = y
    BY <2>1
  <2> QED
    BY <2>1, <2>2
<1> QED
  BY <1>1, <1>2

\* Neighbours in the ring, and places that differ.
LEMMA Places ==
  ASSUME NEW n \in Nat \ {0}, NEW h \in 0 .. n - 1
  PROVE  /\ h % n = h
         /\ \A u \in 0 .. n : (h + u) % n \in 0 .. n - 1
         /\ \A u \in 0 .. n - 1 : (((h + u) % n) + 1) % n = (h + u + 1) % n
         /\ \A u \in 1 .. n : (((h + 1) % n) + (u - 1)) % n = (h + u) % n
         /\ \A k, l \in 0 .. n - 1 : k # l => (h + k) % n # (h + l) % n
<1> DEFINE w(x) == IF x < n THEN x ELSE x - n
<1>1. \A x \in 0 .. 2 * n - 1 : x % n = w(x)
  BY Wraps
<1>2. h % n = h
  BY <1>1
<1>3. \A u \in 0 .. n : (h + u) % n = w(h + u)
  BY <1>1
<1>4. ASSUME NEW u \in 0 .. n - 1
      PROVE  (((h + u) % n) + 1) % n = (h + u + 1) % n
  <2>1. (h + u) % n = w(h + u) /\ (h + u + 1) % n = w(h + u + 1)
    BY <1>1
  <2>2. (w(h + u) + 1) % n = w(w(h + u) + 1)
    BY <1>1
  <2> QED
    BY <2>1, <2>2
<1>5. ASSUME NEW u \in 1 .. n
      PROVE  (((h + 1) % n) + (u - 1)) % n = (h + u) % n
  <2>1. (h + 1) % n = w(h + 1) /\ (h + u) % n = w(h + u)
    BY <1>1
  <2>2. (w(h + 1) + (u - 1)) % n = w(w(h + 1) + (u - 1))
    BY <1>1
  <2> QED
    BY <2>1, <2>2
<1>6. ASSUME NEW k \in 0 .. n - 1, NEW l \in 0 .. n - 1, k # l
      PROVE  (h + k) % n # (h + l) % n
  <2>1. (h + k) % n = w(h + k) /\ (h + l) % n = w(h + l)
    BY <1>1
  <2> QED
    BY <1>6, <2>1
<1> QED
  BY <1>2, <1>3, <1>4, <1>5, <1>6

-----------------------------------------------------------------------------
(* The reader. *)

\* The writes of the driver: those of a batch come while none runs.
CommandOK(c) ==
  \/ c = NoCommand
  \/ /\ ~reader.run
     /\ \/ \E n \in 1 .. Region : c = WriteCount(n)
        \/ c = StartBatch /\ reader.state = "IDLE" /\ reader.count >= 1

\* The registers after a write.
LEMMA CommandedIs ==
  ASSUME RegistersOK, NEW c, CommandOK(c)
  PROVE  LET r == Commanded(c) IN
         /\ r \in ReaderType
         /\ r.state = reader.state /\ r.slot = reader.slot /\ r.entries = reader.entries
         /\ ~r.commit
         /\ c # StartBatch => r.run = reader.run /\ r.done = reader.done
                              /\ r.error = reader.error /\ r.index = reader.index
         /\ c = StartBatch => r.run /\ ~r.done /\ ~r.error /\ r.index = 0
                              /\ r.count = reader.count
         /\ reader.run => r.count = reader.count /\ c = NoCommand
         /\ \A n \in 1 .. Region : c = WriteCount(n) => r.count = n /\ c # StartBatch
         /\ c = NoCommand => r.count = reader.count /\ c # StartBatch
<1>1. reader \in ReaderType
  BY DEF RegistersOK
<1> DEFINE held == [reader EXCEPT !.commit = FALSE]
<1>0. /\ held \in ReaderType /\ ~held.commit
      /\ held.state = reader.state /\ held.slot = reader.slot /\ held.entries = reader.entries
      /\ held.run = reader.run /\ held.done = reader.done /\ held.error = reader.error
      /\ held.index = reader.index /\ held.count = reader.count
  BY <1>1 DEF ReaderType
<1>2. CASE c = NoCommand
  <2>1. c.does = "nothing" /\ c # StartBatch
    BY <1>2 DEF NoCommand, StartBatch
  <2>2. \A n \in 1 .. Region : c # WriteCount(n)
    BY <1>2 DEF NoCommand, WriteCount
  <2>3. Commanded(c) = held
    BY <2>1 DEF Commanded
  <2> HIDE DEF held
  <2> QED
    BY <1>0, <1>2, <2>1, <2>2, <2>3
<1>3. ASSUME ~reader.run, NEW n \in 1 .. Region, c = WriteCount(n)
      PROVE  LET r == Commanded(c) IN
             /\ r \in ReaderType
             /\ r.state = reader.state /\ r.slot = reader.slot /\ r.entries = reader.entries
             /\ ~r.commit /\ c # StartBatch /\ c # NoCommand
             /\ r.run = reader.run /\ r.done = reader.done
             /\ r.error = reader.error /\ r.index = reader.index /\ r.count = n
             /\ \A m \in 1 .. Region : c = WriteCount(m) => m = n
  <2>1. c.does = "count" /\ c.count = n /\ c # StartBatch /\ c # NoCommand
    BY <1>3 DEF NoCommand, StartBatch, WriteCount
  <2>2. Commanded(c) = [held EXCEPT !.count = n]
    BY <2>1 DEF Commanded
  <2>3. \A m \in 1 .. Region : c = WriteCount(m) => m = n
    BY <1>3 DEF WriteCount
  <2> HIDE DEF held
  <2>4. n \in 0 .. Region
    BY ProposalPathAssumption
  <2>5. /\ Commanded(c) \in ReaderType /\ Commanded(c).count = n
        /\ Commanded(c).state = held.state /\ Commanded(c).slot = held.slot
        /\ Commanded(c).entries = held.entries /\ Commanded(c).commit = held.commit
        /\ Commanded(c).run = held.run /\ Commanded(c).done = held.done
        /\ Commanded(c).error = held.error /\ Commanded(c).index = held.index
    BY <1>0, <2>2, <2>4 DEF ReaderType
  <2> QED
    BY <1>0, <1>3, <2>1, <2>3, <2>5
<1>4. CASE c = StartBatch /\ ~reader.run /\ reader.state = "IDLE" /\ reader.count >= 1
  <2>1. c.does = "start" /\ c # NoCommand /\ \A n \in 1 .. Region : c # WriteCount(n)
    BY <1>4 DEF NoCommand, StartBatch, WriteCount
  <2>2. Commanded(c) = [held EXCEPT !.run = TRUE, !.done = FALSE, !.error = FALSE, !.index = 0]
    BY <1>1, <1>4, <2>1 DEF Commanded, ReaderType
  <2> HIDE DEF held
  <2>3. PICK r : r = [held EXCEPT !.run = TRUE, !.done = FALSE]
    OBVIOUS
  <2>4. /\ r \in ReaderType /\ r.run /\ ~r.done /\ r.count = held.count
        /\ r.state = held.state /\ r.slot = held.slot
        /\ r.entries = held.entries /\ r.commit = held.commit
    BY <1>0, <2>3 DEF ReaderType
  <2>5. PICK q : q = [r EXCEPT !.error = FALSE]
    OBVIOUS
  <2>6. /\ q \in ReaderType /\ ~q.error /\ q.run /\ ~q.done /\ q.count = r.count
        /\ q.state = r.state /\ q.slot = r.slot /\ q.entries = r.entries /\ q.commit = r.commit
    BY <2>4, <2>5 DEF ReaderType
  <2>9. PICK z \in Nat : z = 0
    OBVIOUS
  <2>7. Commanded(c) = [q EXCEPT !.index = z]
    BY <2>2, <2>3, <2>5, <2>9
  <2>8. /\ Commanded(c) \in ReaderType /\ Commanded(c).index = z
        /\ Commanded(c).run = q.run /\ Commanded(c).done = q.done /\ Commanded(c).error = q.error
        /\ Commanded(c).state = q.state /\ Commanded(c).slot = q.slot
        /\ Commanded(c).entries = q.entries /\ Commanded(c).commit = q.commit
        /\ Commanded(c).count = q.count
    BY <2>6, <2>7 DEF ReaderType
  <2> QED
    BY <1>0, <1>4, <2>1, <2>4, <2>6, <2>8, <2>9
<1> QED
  BY <1>2, <1>3, <1>4 DEF CommandOK

\* Where a fetch stands after a cycle.
FetchGoesOn ==
  /\ reader'.state = "WAIT_DMA" =>
       \/ reader.state = "WAIT_DMA" /\ reader'.slot = reader.slot
       \/ reader.state = "ISSUE_DMA" /\ MayIssue /\ reader'.slot = ring.tail
  /\ reader'.state = "COMMIT_SLOT" =>
       /\ reader.state = "WAIT_DMA" /\ reader'.slot = reader.slot
       /\ slots' = [slots EXCEPT ![reader.slot] = region[reader.index]]
  /\ reader'.state # "COMMIT_SLOT" => slots' = slots

\* What a cycle makes of the batch that runs.
BatchGoesOn ==
  \/ reader.run /\ reader'.run /\ reader'.index = reader.index /\ reader'.count = reader.count
     /\ reader'.done = reader.done /\ reader'.error = reader.error
  \/ reader.run /\ ~reader'.run /\ reader'.done /\ reader'.error /\ reader'.index = reader.index

\* A cycle that commits no record.
LEMMA ReaderMoves ==
  ASSUME RegistersOK, HostOK, ReaderInv, NEW c, CommandOK(c), NEW e, Reader(c, e),
         reader.state # "COMMIT_SLOT"
  PROVE  /\ reader' \in ReaderType /\ slots' \in [0 .. Slots - 1 -> Nat]
         /\ fetched' = fetched /\ ~reader'.commit
         /\ FetchGoesOn
         /\ reader'.state \in {"ISSUE_DMA", "WAIT_DMA", "COMMIT_SLOT"} => reader'.run
         /\ reader'.state = "ERROR" => ~reader'.run
         /\ reader.run => BatchGoesOn
         /\ ~reader.run =>
              /\ reader'.state = "IDLE"
              /\ c # StartBatch => /\ ~reader'.run /\ reader'.index = reader.index
                                   /\ reader'.done = reader.done /\ reader'.error = reader.error
              /\ c = NoCommand => reader'.count = reader.count
              /\ \A n \in 1 .. Region : c = WriteCount(n) => reader'.count = n
              /\ c = StartBatch => /\ reader'.run /\ ~reader'.done /\ ~reader'.error
                                   /\ reader'.index = 0 /\ reader'.count = reader.count
<1>1. PICK d : d = Commanded(c)
  OBVIOUS
<1>2. /\ d \in ReaderType
      /\ d.state = reader.state /\ d.slot = reader.slot /\ d.entries = reader.entries
      /\ ~d.commit
      /\ c # StartBatch => d.run = reader.run /\ d.done = reader.done
                           /\ d.error = reader.error /\ d.index = reader.index
      /\ c = StartBatch => d.run /\ ~d.done /\ ~d.error /\ d.index = 0 /\ d.count = reader.count
      /\ reader.run => d.count = reader.count /\ c = NoCommand
      /\ \A n \in 1 .. Region : c = WriteCount(n) => d.count = n
      /\ c = NoCommand => d.count = reader.count /\ c # StartBatch
  BY <1>1, CommandedIs
<1>3. /\ slots \in [0 .. Slots - 1 -> Nat] /\ reader.slot \in 0 .. Slots - 1
      /\ ring.tail \in 0 .. Slots - 1
      /\ reader.run \in BOOLEAN /\ reader.state \in ReaderStates
  BY DEF RegistersOK, ReaderType
<1>4. CASE Idle(c) /\ ~reader.run
  <2>1. reader' = d /\ slots' = slots /\ fetched' = fetched /\ reader.state = "IDLE"
    BY <1>1, <1>4 DEF Idle
  <2> QED
    BY <1>2, <1>3, <1>4, <2>1 DEF FetchGoesOn, ReaderInv
<1>5. CASE Idle(c) /\ reader.run
  <2>1. reader.state = "IDLE" /\ reader.count # 0 /\ slots' = slots /\ fetched' = fetched
    BY <1>5 DEF Idle, ReaderInv, RegistersOK, ReaderType
  <2>2. reader' = [d EXCEPT !.state = "ISSUE_DMA"]
    BY <1>1, <1>5, <2>1 DEF Idle
  <2>3. /\ reader' \in ReaderType /\ reader'.state = "ISSUE_DMA" /\ reader'.commit = d.commit
        /\ reader'.run = d.run /\ reader'.done = d.done /\ reader'.error = d.error
        /\ reader'.index = d.index /\ reader'.count = d.count
    BY <1>2, <2>2 DEF ReaderType, ReaderStates
  <2> QED
    BY <1>2, <1>3, <1>5, <2>1, <2>3 DEF FetchGoesOn, BatchGoesOn
<1>6. CASE IssueDma(c) /\ ~MayIssue
  <2>1. reader' = d /\ slots' = slots /\ fetched' = fetched /\ reader.state = "ISSUE_DMA"
        /\ reader.run
    BY <1>1, <1>6 DEF IssueDma, ReaderInv
  <2> QED
    BY <1>2, <1>3, <2>1 DEF FetchGoesOn, BatchGoesOn
<1>7. CASE IssueDma(c) /\ MayIssue
  <2>1. reader.state = "ISSUE_DMA" /\ slots' = slots /\ fetched' = fetched /\ reader.run
    BY <1>7 DEF IssueDma, ReaderInv
  <2>2. reader' = [d EXCEPT !.state = "WAIT_DMA", !.slot = ring.tail]
    BY <1>1, <1>7 DEF IssueDma
  <2>3. PICK t \in 0 .. Slots - 1 : t = ring.tail
    BY <1>3
  <2>4. PICK q : q = [d EXCEPT !.state = "WAIT_DMA"]
    OBVIOUS
  <2>5. /\ q \in ReaderType /\ q.state = "WAIT_DMA" /\ q.commit = d.commit
        /\ q.run = d.run /\ q.done = d.done /\ q.error = d.error
        /\ q.index = d.index /\ q.count = d.count
    BY <1>2, <2>4 DEF ReaderType, ReaderStates
  <2>6. reader' = [q EXCEPT !.slot = t]
    BY <2>2, <2>3, <2>4
  <2>7. /\ reader' \in ReaderType /\ reader'.state = q.state /\ reader'.commit = q.commit
        /\ reader'.run = q.run /\ reader'.done = q.done /\ reader'.error = q.error
        /\ reader'.index = q.index /\ reader'.count = q.count /\ reader'.slot = t
    BY <2>5, <2>6 DEF ReaderType
  <2> QED
    BY <1>2, <1>3, <1>7, <2>1, <2>3, <2>5, <2>7 DEF FetchGoesOn, BatchGoesOn
<1>8. CASE WaitDma(c, e)
  <2>1. reader.state = "WAIT_DMA" /\ reader.run /\ fetched' = fetched
    BY <1>8 DEF WaitDma, ReaderInv
  <2>2. CASE reader' = d /\ slots' = slots
    BY <1>2, <1>3, <2>1, <2>2 DEF FetchGoesOn, BatchGoesOn
  <2>3. CASE /\ reader' = [d EXCEPT !.state = "COMMIT_SLOT"]
             /\ slots' = [slots EXCEPT ![reader.slot] = region[reader.index]]
    <3>1. /\ reader' \in ReaderType /\ reader'.state = "COMMIT_SLOT" /\ reader'.commit = d.commit
          /\ reader'.run = d.run /\ reader'.done = d.done /\ reader'.error = d.error
          /\ reader'.index = d.index /\ reader'.count = d.count /\ reader'.slot = d.slot
      BY <1>2, <2>3 DEF ReaderType, ReaderStates
    <3>2. region[reader.index] \in Nat
      <4>1. reader.index \in 0 .. Region - 1
        BY <2>1, ProposalPathAssumption DEF ReaderInv, RegistersOK, ReaderType
      <4> QED
        BY <4>1 DEF HostOK
    <3>3. slots' \in [0 .. Slots - 1 -> Nat]
      BY <1>3, <2>3, <3>2
    <3> QED
      BY <1>2, <1>3, <2>1, <2>3, <3>1, <3>3 DEF FetchGoesOn, BatchGoesOn
  <2>4. CASE /\ reader' = [d EXCEPT !.state = "ERROR", !.run = FALSE, !.done = TRUE,
                                    !.error = TRUE]
             /\ slots' = slots
    <3>1. PICK q : q = [d EXCEPT !.state = "ERROR", !.run = FALSE]
      OBVIOUS
    <3>2. /\ q \in ReaderType /\ q.state = "ERROR" /\ ~q.run /\ q.commit = d.commit
          /\ q.index = d.index /\ q.count = d.count
      BY <1>2, <3>1 DEF ReaderType, ReaderStates
    <3>3. reader' = [q EXCEPT !.done = TRUE, !.error = TRUE]
      BY <2>4, <3>1
    <3>4. /\ reader' \in ReaderType /\ reader'.state = q.state /\ reader'.commit = q.commit
          /\ reader'.run = q.run /\ reader'.done /\ reader'.error
          /\ reader'.index = q.index /\ reader'.count = q.count
      BY <3>2, <3>3 DEF ReaderType
    <3> QED
      BY <1>2, <1>3, <2>1, <2>4, <3>2, <3>4 DEF FetchGoesOn, BatchGoesOn
  <2> QED
    BY <1>1, <1>8, <2>2, <2>3, <2>4 DEF WaitDma
<1>9. CASE LeaveError(c)
  <2>1. reader.state = "ERROR" /\ ~reader.run /\ slots' = slots /\ fetched' = fetched
        /\ c # StartBatch
    BY <1>9 DEF LeaveError, ReaderInv, CommandOK, StartBatch, NoCommand, WriteCount
  <2>2. reader' = [d EXCEPT !.state = "IDLE"]
    BY <1>1, <1>9 DEF LeaveError
  <2>3. /\ reader' \in ReaderType /\ reader'.state = "IDLE" /\ reader'.commit = d.commit
        /\ reader'.run = d.run /\ reader'.done = d.done /\ reader'.error = d.error
        /\ reader'.index = d.index /\ reader'.count = d.count
    BY <1>2, <2>2 DEF ReaderType, ReaderStates
  <2> QED
    BY <1>2, <1>3, <2>1, <2>3 DEF FetchGoesOn
<1>10. ~CommitSlot(c)
  BY DEF CommitSlot
<1> QED
  BY <1>4, <1>5, <1>6, <1>7, <1>8, <1>9, <1>10 DEF Reader, Idle, IssueDma

\* The cycle that commits a record, and the batch with its last one.
LEMMA ReaderCommits ==
  ASSUME RegistersOK, HostOK, ReaderInv, NEW c, CommandOK(c), NEW e, Reader(c, e),
         reader.state = "COMMIT_SLOT"
  PROVE  /\ reader' \in ReaderType /\ slots' = slots /\ c = NoCommand
         /\ fetched' = Append(fetched, slots[reader.slot]) /\ reader'.commit
         /\ reader'.index = reader.index + 1 /\ reader'.count = reader.count - 1
         /\ reader'.error = reader.error
         /\ reader.run
         /\ reader.count = 1 => /\ reader'.state = "IDLE" /\ ~reader'.run /\ reader'.done
         /\ reader.count # 1 => /\ reader'.state = "ISSUE_DMA" /\ reader'.run /\ ~reader'.done
<1>1. PICK d : d = Commanded(c)
  OBVIOUS
<1>2. reader.run /\ ~reader.done /\ reader.count >= 1
  BY DEF ReaderInv
<1>3. /\ d \in ReaderType
      /\ d.state = reader.state /\ d.slot = reader.slot /\ d.entries = reader.entries
      /\ ~d.commit /\ d.run /\ ~d.done
      /\ d.error = reader.error /\ d.index = reader.index
      /\ d.count = reader.count /\ c = NoCommand
  BY <1>1, <1>2, CommandedIs
<1>4. CommitSlot(c)
  BY DEF Reader, Idle, IssueDma, WaitDma, LeaveError
<1>5. fetched' = Append(fetched, slots[reader.slot]) /\ slots' = slots
  BY <1>4 DEF CommitSlot
<1>6. PICK n \in 0 .. Region, i \in Nat, m \in Nat, run \in BOOLEAN, done \in BOOLEAN,
           s \in ReaderStates :
        /\ n = reader.count - 1 /\ i = reader.index + 1 /\ m = d.entries + 1
        /\ run = (reader.count # 1) /\ done = (reader.count = 1)
        /\ s = IF reader.count = 1 THEN "IDLE" ELSE "ISSUE_DMA"
  <2>1. reader.count \in 0 .. Region /\ reader.index \in Nat /\ d.entries \in Nat
    BY <1>3 DEF RegistersOK, ReaderType
  <2>2. reader.count - 1 \in 0 .. Region
    BY <1>2, <2>1, ProposalPathAssumption
  <2> QED
    <3>1. PICK run \in BOOLEAN : run = (reader.count # 1)
      OBVIOUS
    <3>2. PICK done \in BOOLEAN : done = (reader.count = 1)
      OBVIOUS
    <3>3. PICK s \in ReaderStates : s = IF reader.count = 1 THEN "IDLE" ELSE "ISSUE_DMA"
      BY DEF ReaderStates
    <3>4. PICK n \in 0 .. Region, i \in Nat, m \in Nat :
             n = reader.count - 1 /\ i = reader.index + 1 /\ m = d.entries + 1
      BY <2>1, <2>2
    <3> HIDE DEF ReaderStates
    <3> QED
      BY <3>1, <3>2, <3>3, <3>4, Zenon
<1>7. reader' = [d EXCEPT !.commit = TRUE, !.entries = m, !.index = i, !.count = n,
                          !.run = run, !.done = done, !.state = s]
  <2>1. (d.run /\ ~(reader.count = 1)) = run
    BY <1>3, <1>6
  <2>2. (d.done \/ (reader.count = 1)) = done
    BY <1>3, <1>6
  <2>3. d.index + 1 = i
    BY <1>3, <1>6
  <2>4. reader' = [d EXCEPT !.commit = TRUE, !.entries = @ + 1, !.index = @ + 1,
                            !.count = reader.count - 1, !.run = @ /\ ~(reader.count = 1),
                            !.done = @ \/ (reader.count = 1),
                            !.state = IF reader.count = 1 THEN "IDLE" ELSE "ISSUE_DMA"]
    BY <1>1, <1>4 DEF CommitSlot
  <2> QED
    BY <1>3, <1>6, <2>1, <2>2, <2>3, <2>4 DEF ReaderType
<1>8. PICK q : q = [d EXCEPT !.commit = TRUE, !.entries = m]
  OBVIOUS
<1>9. q \in ReaderType /\ q.commit /\ q.error = d.error
  BY <1>3, <1>8 DEF ReaderType
<1>10. PICK r : r = [q EXCEPT !.index = i, !.count = n]
  OBVIOUS
<1>11. r \in ReaderType /\ r.commit /\ r.error = q.error /\ r.index = i /\ r.count = n
  BY <1>9, <1>10 DEF ReaderType
<1>12. PICK t : t = [r EXCEPT !.run = run, !.done = done]
  OBVIOUS
<1>13. t \in ReaderType /\ t.commit /\ t.error = r.error /\ t.index = r.index /\ t.count = r.count
       /\ t.run = run /\ t.done = done
  BY <1>11, <1>12 DEF ReaderType
<1>14. reader' = [t EXCEPT !.state = s]
  BY <1>7, <1>8, <1>10, <1>12
<1>15. reader' \in ReaderType /\ reader'.commit /\ reader'.error = t.error
       /\ reader'.index = t.index /\ reader'.count = t.count
       /\ reader'.run = t.run /\ reader'.done = t.done /\ reader'.state = s
  BY <1>13, <1>14 DEF ReaderType
<1> QED
  BY <1>2, <1>3, <1>5, <1>6, <1>9, <1>11, <1>13, <1>15

-----------------------------------------------------------------------------
(* The ring. *)

\* How many slots leave the ring in a cycle.
PoppedIn(e) == IF Pops(e) THEN 1 ELSE 0

\* The pointers of the ring after a cycle.
LEMMA RingIs ==
  ASSUME RegistersOK, ReaderInv, QueueInv, FeedInv, NEW e, Ring(e)
  PROVE  /\ ring' \in [head : 0 .. Slots - 1, tail : 0 .. Slots - 1, used : 0 .. Slots]
         /\ ring'.used = Queued - PoppedIn(e) /\ PoppedIn(e) \in {0, 1}
         /\ ring.used - PoppedIn(e) \in Nat
         /\ ~reader.commit => ring'.tail = ring.tail
         /\ ring'.tail = (ring'.head + ring'.used) % Slots
         /\ \A k \in 1 .. Slots :
              (ring'.head + k - 1) % Slots = (ring.head + PoppedIn(e) + k - 1) % Slots
<1>0. PICK n \in Nat \ {0} : n = Slots
  BY ProposalPathAssumption
<1>1. PICK h \in 0 .. n - 1, t \in 0 .. n - 1, u \in 0 .. n :
        n = Slots /\ h = ring.head /\ t = ring.tail /\ u = ring.used
  BY <1>0 DEF RegistersOK
<1>2. PICK p \in {0, 1} : p = PoppedIn(e)
  BY DEF PoppedIn
<1>3. PICK c \in {0, 1} : c = (IF reader.commit THEN 1 ELSE 0)
  OBVIOUS
<1>4. (p = 1 <=> Pops(e)) /\ (p = 1 => u > 0)
  BY <1>1, <1>2 DEF PoppedIn, Pops, Taken, Offered, FeedInv
<1>5. (c = 1 <=> Commits) /\ (c = 1 => u < n) /\ Queued = u + c
  BY <1>1, <1>3 DEF Commits, TailIsFree, ReaderInv, Queued
<1>6. /\ ring' = [head |-> ring'.head, tail |-> ring'.tail, used |-> ring'.used]
      /\ ring'.head = IF p = 1 THEN (h + 1) % n ELSE h
      /\ ring'.tail = IF c = 1 THEN (t + 1) % n ELSE t
      /\ ring'.used = u + c - p
  BY <1>1, <1>4, <1>5 DEF Ring, After
<1>7. t = (h + u) % n
  BY <1>1 DEF QueueInv
<1>8. /\ h % n = h
      /\ \A x \in 0 .. n : (h + x) % n \in 0 .. n - 1
      /\ \A x \in 0 .. n - 1 : (((h + x) % n) + 1) % n = (h + x + 1) % n
      /\ \A x \in 1 .. n : (((h + 1) % n) + (x - 1)) % n = (h + x) % n
  BY Places, Zenon
<1>9. (h + 1) % n \in 0 .. n - 1
  BY <1>1, <1>8
<1>10. (t + 1) % n \in 0 .. n - 1
  <2>1. \A x \in 0 .. n : (t + x) % n \in 0 .. n - 1
    BY Places, Zenon
  <2> QED
    BY <2>1
<1>11. u + c - p \in 0 .. n
  BY <1>1, <1>4, <1>5
<1>12. ring' \in [head : 0 .. n - 1, tail : 0 .. n - 1, used : 0 .. n]
  BY <1>6, <1>9, <1>10, <1>11
<1>13. \A k \in 1 .. n : (ring'.head + k - 1) % n = (h + p + k - 1) % n
  <2> SUFFICES ASSUME NEW k \in 1 .. n
               PROVE  (ring'.head + k - 1) % n = (h + p + k - 1) % n
    OBVIOUS
  <2>1. CASE p = 0
    BY <1>6, <2>1
  <2>2. CASE p = 1
    <3>1. (((h + 1) % n) + (k - 1)) % n = (h + k) % n
      BY <1>8
    <3>2. PICK g \in 0 .. n - 1 : g = (h + 1) % n
      BY <1>9
    <3>3. g + k - 1 = g + (k - 1) /\ h + p + k - 1 = h + k
      BY <2>2, <1>1
    <3> QED
      BY <1>6, <2>2, <3>1, <3>2, <3>3
  <2> QED
    BY <2>1, <2>2
<1>14. ring'.tail = (ring'.head + (u + c - p)) % n
  <2>1. ring'.tail = (h + (u + c)) % n
    <3>1. CASE c = 0
      BY <1>6, <1>7, <3>1
    <3>2. CASE c = 1
      <4>1. u \in 0 .. n - 1
        BY <1>5, <3>2
      <4>2. (((h + u) % n) + 1) % n = (h + u + 1) % n
        BY <1>8, <4>1
      <4>3. h + u + 1 = h + (u + c)
        BY <3>2
      <4> QED
        BY <1>6, <1>7, <3>2, <4>2, <4>3
    <3> QED
      BY <3>1, <3>2
  <2>2. CASE p = 0
    BY <1>6, <2>1, <2>2
  <2>3. CASE p = 1
    <3>1. u + c \in 1 .. n
      BY <1>4, <1>5, <1>11, <2>3
    <3>2. (((h + 1) % n) + ((u + c) - 1)) % n = (h + (u + c)) % n
      BY <1>8, <3>1
    <3> QED
      BY <1>6, <2>1, <2>3, <3>2
  <2> QED
    BY <2>2, <2>3
<1>15. u - p \in Nat
  BY <1>1, <1>4
<1>16. ~reader.commit => ring'.tail = ring.tail
  BY <1>1, <1>3, <1>6
<1> QED
  BY <1>1, <1>2, <1>5, <1>6, <1>12, <1>13, <1>14, <1>15, <1>16

\* The reader stays within the region and behind the ring.
LEMMA ReaderStep ==
  ASSUME RegistersOK, HostOK, ReaderInv, QueueInv, FeedInv,
         NEW c, CommandOK(c), NEW e, Reader(c, e), Ring(e)
  PROVE  ReaderInv'
<1>1. PICK n \in Nat, m \in Nat, u \in Nat, v \in Nat :
        n = reader.index /\ m = reader.count /\ u = ring.used /\ v = ring'.used
  <2>1. ring'.used \in 0 .. Slots /\ ring.used \in 0 .. Slots
    <3>1. ring' \in [head : 0 .. Slots - 1, tail : 0 .. Slots - 1, used : 0 .. Slots]
      BY RingIs
    <3> QED
      BY <3>1 DEF RegistersOK
  <2>2. Slots \in Nat /\ Region \in Nat
    BY ProposalPathAssumption
  <2>3. reader.index \in Nat /\ reader.count \in 0 .. Region
    BY DEF RegistersOK, ReaderType
  <2>4. reader.count \in Nat /\ ring.used \in Nat /\ ring'.used \in Nat
    BY <2>1, <2>2, <2>3
  <2> QED
    BY <2>3, <2>4, Zenon
<1>2. ~reader.commit => v <= u
  <2>1. v = Queued - PoppedIn(e) /\ PoppedIn(e) \in {0, 1}
    BY <1>1, RingIs
  <2> QED
    BY <1>1, <2>1 DEF Queued
<1>3. CASE reader.state = "COMMIT_SLOT"
  <2>1. /\ reader'.commit /\ reader'.index = n + 1 /\ reader'.count = m - 1 /\ reader.run
        /\ m = 1 => /\ reader'.state = "IDLE" /\ ~reader'.run
        /\ m # 1 => /\ reader'.state = "ISSUE_DMA" /\ reader'.run /\ ~reader'.done
    BY <1>1, <1>3, ReaderCommits
  <2>2. ~reader.commit /\ u < Slots /\ n + m <= Region /\ m >= 1
    BY <1>1, <1>3, <2>1 DEF ReaderInv
  <2>3. v < Slots
    BY <1>1, <1>2, <2>2, ProposalPathAssumption
  <2> QED
    BY <1>1, <2>1, <2>2, <2>3, ProposalPathAssumption DEF ReaderInv
<1>4. CASE reader.state # "COMMIT_SLOT"
  <2>1. /\ ~reader'.commit
        /\ FetchGoesOn
        /\ reader'.state \in {"ISSUE_DMA", "WAIT_DMA", "COMMIT_SLOT"} => reader'.run
        /\ reader'.state = "ERROR" => ~reader'.run
        /\ reader.run => BatchGoesOn
        /\ ~reader.run /\ c # StartBatch => ~reader'.run
        /\ ~reader.run /\ c = StartBatch =>
             ~reader'.done /\ reader'.index = 0 /\ reader'.count = m
    BY <1>1, <1>4, ReaderMoves
  <2>2. reader'.run => /\ reader'.count >= 1 /\ reader'.index + reader'.count <= Region
                       /\ ~reader'.done
    <3>1. CASE reader.run
      BY <2>1, <3>1 DEF BatchGoesOn, ReaderInv
    <3>2. CASE ~reader.run /\ c = StartBatch
      <4>1. m >= 1
        <5>1. c.does = "start"
          BY <3>2 DEF StartBatch
        <5>2. c # NoCommand /\ \A i \in 1 .. Region : c # WriteCount(i)
          BY <5>1 DEF NoCommand, WriteCount
        <5> QED
          BY <1>1, <5>2 DEF CommandOK
      <4>2. m <= Region
        BY <1>1 DEF RegistersOK, ReaderType
      <4> QED
        BY <1>1, <2>1, <3>2, <4>1, <4>2
    <3> QED
      BY <2>1, <3>1, <3>2
  <2>3. reader'.state \in {"WAIT_DMA", "COMMIT_SLOT"} =>
          reader'.slot = ring'.tail /\ ring'.used < Slots
    <3> SUFFICES ASSUME reader'.state \in {"WAIT_DMA", "COMMIT_SLOT"}
                 PROVE  reader'.slot = ring'.tail /\ v < Slots
      BY <1>1
    <3>1. reader'.slot = ring.tail /\ ~reader.commit /\ u < Slots
      BY <1>1, <2>1 DEF FetchGoesOn, ReaderInv, MayIssue, TailIsFree
    <3>2. ring'.tail = ring.tail
      BY <3>1, RingIs
    <3> QED
      BY <1>2, <3>1, <3>2, ProposalPathAssumption
  <2> QED
    BY <2>1, <2>2, <2>3 DEF ReaderInv
<1> QED
  BY <1>3, <1>4

\* What a cycle fetches comes behind what was fetched before.
LEMMA FetchedIs ==
  ASSUME RegistersOK, HostOK, ReaderInv, NEW c, CommandOK(c), NEW e, Reader(c, e)
  PROVE  /\ fetched' \in Seq(Nat) /\ Len(fetched) \in Nat /\ Len(fetched') \in Nat
         /\ Len(fetched') = Len(fetched) + (IF reader.state = "COMMIT_SLOT" THEN 1 ELSE 0)
         /\ \A i \in 1 .. Len(fetched) : fetched'[i] = fetched[i]
         /\ reader.state = "COMMIT_SLOT" => fetched'[Len(fetched) + 1] = slots[reader.slot]
         /\ slots[reader.slot] \in Nat
<1>1. fetched \in Seq(Nat) /\ Len(fetched) \in Nat
  BY DEF HostOK
<1>2. slots[reader.slot] \in Nat
  BY DEF RegistersOK, ReaderType
<1>3. CASE reader.state = "COMMIT_SLOT"
  <2>1. fetched' = Append(fetched, slots[reader.slot])
    BY <1>3, ReaderCommits
  <2>2. /\ fetched' \in Seq(Nat) /\ Len(fetched') = Len(fetched) + 1
        /\ \A i \in 1 .. Len(fetched) : fetched'[i] = fetched[i]
        /\ fetched'[Len(fetched) + 1] = slots[reader.slot]
    BY <1>1, <1>2, <2>1
  <2> QED
    BY <1>1, <1>2, <1>3, <2>2
<1>4. CASE reader.state # "COMMIT_SLOT"
  <2>1. fetched' = fetched
    BY <1>4, ReaderMoves
  <2> QED
    BY <1>1, <1>2, <1>4, <2>1
<1> QED
  BY <1>3, <1>4

\* The ring goes on holding what was fetched last.
LEMMA QueueStep ==
  ASSUME RegistersOK, HostOK, ReaderInv, QueueInv, FeedInv,
         NEW c, CommandOK(c), NEW e, Reader(c, e), Ring(e)
  PROVE  /\ QueueInv' /\ Popped \in Nat /\ Popped' = Popped + PoppedIn(e)
         /\ ring.used > 0 => /\ slots[ring.head] = fetched[Popped + 1]
                             /\ slots'[ring.head] = slots[ring.head]
                             /\ Popped + 1 <= Len(fetched)
<1>0. PICK n \in Nat \ {0} : n = Slots
  BY ProposalPathAssumption
<1>1. PICK h \in 0 .. n - 1, t \in 0 .. n - 1, u \in 0 .. n :
        h = ring.head /\ t = ring.tail /\ u = ring.used
  BY <1>0 DEF RegistersOK
<1>2. PICK p \in {0, 1}, v \in 0 .. n : p = PoppedIn(e) /\ v = ring'.used
  BY <1>0, RingIs
<1>3. PICK c0 \in {0, 1}, c1 \in {0, 1} :
        /\ c0 = (IF reader.commit THEN 1 ELSE 0)
        /\ c1 = (IF reader'.commit THEN 1 ELSE 0)
  OBVIOUS
<1>4. PICK f \in Nat, g \in Nat : f = Len(fetched) /\ g = Len(fetched')
  BY FetchedIs
<1>5. /\ Queued = u + c0 /\ Queued' = v + c1 /\ v = u + c0 - p /\ u - p \in Nat
      /\ Queued <= f /\ Popped = f - (u + c0) /\ Popped' = g - (v + c1)
  BY <1>1, <1>2, <1>3, <1>4, RingIs DEF QueueInv, Queued, Popped
<1>6. /\ reader.commit => reader.state # "COMMIT_SLOT" /\ u < n
      /\ c1 = IF reader.state = "COMMIT_SLOT" THEN 1 ELSE 0
      /\ g = f + c1
  <2>1. reader.state = "COMMIT_SLOT" => reader'.commit
    BY ReaderCommits
  <2>2. reader.state # "COMMIT_SLOT" => ~reader'.commit
    BY ReaderMoves
  <2>3. g = f + (IF reader.state = "COMMIT_SLOT" THEN 1 ELSE 0)
    BY <1>4, FetchedIs
  <2> QED
    BY <1>0, <1>1, <1>3, <2>1, <2>2, <2>3 DEF ReaderInv
<1>7. /\ \A k \in 1 .. n : (ring'.head + k - 1) % n = (h + p + k - 1) % n
      /\ ring'.tail = (ring'.head + ring'.used) % Slots
      /\ t = (h + u) % n
  BY <1>0, <1>1, <1>2, RingIs DEF QueueInv
<1>8. h % n = h /\ \A k, l \in 0 .. n - 1 : k # l => (h + k) % n # (h + l) % n
  BY Places, Zenon
<1>9. \A x \in 0 .. n : (h + x) % n \in 0 .. n - 1
  BY Places, Zenon
\* The slots in the ring keep what they hold.
<1>10. ASSUME NEW x \in 0 .. n - 1, x < u + c0
       PROVE  slots'[(h + x) % n] = slots[(h + x) % n]
  <2>1. CASE slots' = slots
    BY <2>1
  <2>2. CASE slots' # slots
    <3>1. /\ reader.state = "WAIT_DMA"
          /\ slots' = [slots EXCEPT ![reader.slot] = region[reader.index]]
      BY <2>2, ReaderMoves, ReaderCommits DEF FetchGoesOn
    <3>2. reader.slot = t /\ u < n /\ c0 = 0
      BY <1>0, <1>1, <1>3, <3>1 DEF ReaderInv
    <3>3. u \in 0 .. n - 1 /\ x # u
      BY <1>10, <3>2
    <3>4. (h + x) % n # t
      BY <1>7, <1>8, <3>3
    <3>5. (h + x) % n \in 0 .. Slots - 1
      BY <1>0, <1>9
    <3> QED
      BY <3>1, <3>2, <3>4, <3>5 DEF RegistersOK
  <2> QED
    BY <2>1, <2>2
<1>11. ASSUME NEW x \in 0 .. n - 1, x < u + c0
       PROVE  slots[(h + x) % n] = fetched[(f - (u + c0)) + (x + 1)] /\ x + 1 <= u + c0
  <2>1. x + 1 \in 1 .. Queued
    BY <1>5, <1>11
  <2>2. QueuedRecord(x + 1) = fetched[Popped + (x + 1)]
    BY <2>1 DEF QueueInv
  <2>3. QueuedRecord(x + 1) = slots[(h + (x + 1) - 1) % n]
    BY <1>0, <1>1 DEF QueuedRecord
  <2>4. h + (x + 1) - 1 = h + x
    OBVIOUS
  <2> QED
    BY <1>5, <1>11, <2>2, <2>3, <2>4
<1>12. ASSUME NEW k \in 1 .. v + c1
       PROVE  QueuedRecord(k)' = fetched'[Popped' + k]
  <2>1. k \in 1 .. n
    BY <1>3, <1>5, <1>6, <1>12, <1>0, <1>1 DEF ReaderInv
  <2>2. QueuedRecord(k)' = slots'[(h + (p + k - 1)) % n]
    <3>1. (ring'.head + k - 1) % n = (h + p + k - 1) % n
      BY <1>7, <2>1
    <3>2. h + p + k - 1 = h + (p + k - 1)
      OBVIOUS
    <3> QED
      BY <1>0, <3>1, <3>2 DEF QueuedRecord
  <2>3. CASE p + k - 1 < u + c0
    <3>1. p + k - 1 \in 0 .. n - 1
      BY <1>5, <1>6, <2>3, <1>3
    <3>2. QueuedRecord(k)' = fetched[(f - (u + c0)) + ((p + k - 1) + 1)]
          /\ (p + k - 1) + 1 <= u + c0
      BY <1>10, <1>11, <2>2, <2>3, <3>1
    <3>3. PICK i \in 1 .. f : i = (f - (u + c0)) + ((p + k - 1) + 1)
      BY <1>5, <3>2
    <3>4. fetched'[i] = fetched[i]
      BY <1>4, FetchedIs
    <3>5. i = Popped' + k
      BY <1>5, <1>6, <3>3
    <3> QED
      BY <3>2, <3>3, <3>4, <3>5
  <2>4. CASE p + k - 1 >= u + c0
    <3>1. c1 = 1 /\ p + k - 1 = u + c0 /\ c0 = 0
      BY <1>3, <1>5, <1>6, <2>4, <1>12
    <3>2. reader.state = "COMMIT_SLOT"
      BY <1>6, <3>1
    <3>3. /\ slots' = slots /\ fetched'[f + 1] = slots[t]
      BY <1>0, <1>1, <1>4, <3>2, ReaderCommits, FetchedIs DEF ReaderInv
    <3>4. QueuedRecord(k)' = slots[t]
      BY <1>7, <2>2, <3>1, <3>3
    <3>5. Popped' + k = f + 1
      BY <1>5, <1>6, <3>1
    <3> QED
      BY <3>3, <3>4, <3>5
  <2> QED
    BY <2>3, <2>4
<1>13. QueueInv'
  <2>1. Queued' <= Len(fetched')
    BY <1>4, <1>5, <1>6
  <2> QED
    BY <1>5, <1>7, <1>12, <2>1 DEF QueueInv
<1>14. Popped \in Nat /\ Popped' = Popped + PoppedIn(e)
  BY <1>2, <1>5, <1>6
<1>15. ASSUME ring.used > 0
       PROVE  /\ slots[ring.head] = fetched[Popped + 1] /\ slots'[ring.head] = slots[ring.head]
              /\ Popped + 1 <= Len(fetched)
  <2>1. 0 \in 0 .. n - 1 /\ 0 < u + c0 /\ (h + 0) % n = h
    BY <1>1, <1>8, <1>15
  <2>2. slots'[h] = slots[h] /\ slots[h] = fetched[(f - (u + c0)) + (0 + 1)]
    BY <1>10, <1>11, <2>1
  <2>3. (f - (u + c0)) + (0 + 1) = (f - (u + c0)) + 1 /\ (f - (u + c0)) + 1 <= f
    BY <1>1, <1>15
  <2>4. slots'[h] = slots[h] /\ slots[h] = fetched[Popped + 1]
    BY <1>5, <2>2, <2>3, Zenon
  <2>5. Popped + 1 <= Len(fetched)
    BY <1>4, <1>5, <2>3, Zenon
  <2> QED
    BY <1>1, <2>4, <2>5, Zenon
<1> QED
  BY <1>13, <1>14, <1>15

FeedType == [state : {"IDLE", "READ", "OUTPUT"}, beat : 1 .. Beats, record : Nat]

\* The feed goes through the beats of the head slot, and shows that slot's record.
LEMMA FeedStep ==
  ASSUME RegistersOK, HostOK, ReaderInv, QueueInv, FeedInv,
         NEW c, CommandOK(c), NEW e, Reader(c, e), Ring(e), Feed(e)
  PROVE  /\ feed' \in FeedType /\ FeedInv'
         /\ Offered \/ feed.beat > 1 => Popped + 1 <= Len(fetched)
         /\ Offered => feed.record = fetched[Popped + 1]
         /\ Pops(e) => feed'.beat = 1
         /\ Taken(e) /\ ~Pops(e) => feed'.beat = feed.beat + 1
         /\ ~Taken(e) => feed'.beat = feed.beat
<1>1. feed \in FeedType /\ slots[ring.head] \in Nat /\ Beats \in Nat \ {0} /\ ring.used \in Nat
  BY ProposalPathAssumption DEF RegistersOK, FeedType
<1>2. ring.used > 0 => /\ slots[ring.head] = fetched[Popped + 1]
                       /\ slots'[ring.head] = slots[ring.head]
                       /\ Popped + 1 <= Len(fetched)
  BY QueueStep
<1>3. ~Pops(e) => ring'.head = ring.head /\ (ring.used > 0 => ring'.used > 0)
  <2> SUFFICES ASSUME ~Pops(e)
               PROVE  ring'.head = ring.head /\ (ring.used > 0 => ring'.used > 0)
    OBVIOUS
  <2>1. ring'.head = ring.head
    BY DEF Ring
  <2>2. ring'.used = Queued - 0
    BY RingIs DEF PoppedIn
  <2> QED
    BY <1>1, <2>1, <2>2 DEF Queued
<1>4. CASE feed.state = "IDLE" /\ ring.used > 0
  <2>1. feed' = [feed EXCEPT !.state = "READ"] /\ ~Offered /\ ~Taken(e) /\ ~Pops(e)
    BY <1>4 DEF Feed, Offered, Taken, Pops
  <2>2. feed' \in FeedType /\ feed'.state = "READ" /\ feed'.beat = feed.beat
    BY <1>1, <2>1 DEF FeedType
  <2> QED
    BY <1>2, <1>3, <1>4, <2>1, <2>2 DEF FeedInv
<1>5. CASE feed.state = "IDLE" /\ ~(ring.used > 0)
  <2>1. feed' = feed /\ ~Offered /\ ~Taken(e) /\ ~Pops(e)
    BY <1>5 DEF Feed, Offered, Taken, Pops
  <2> QED
    BY <1>1, <1>5, <2>1 DEF FeedInv
<1>6. CASE feed.state = "READ"
  <2>1. ring.used > 0 /\ ~Offered /\ ~Taken(e) /\ ~Pops(e)
    BY <1>6 DEF FeedInv, Offered, Taken, Pops
  <2>2. CASE e.ram
    <3>1. feed' = [feed EXCEPT !.state = "OUTPUT", !.record = slots[ring.head]]
      BY <1>6, <2>2 DEF Feed, Offered
    <3>2. PICK r \in Nat : r = slots[ring.head]
      BY <1>1
    <3>3. feed' = [feed EXCEPT !.state = "OUTPUT", !.record = r]
      BY <3>1, <3>2
    <3>4. feed' \in FeedType /\ feed'.state = "OUTPUT" /\ feed'.beat = feed.beat
          /\ feed'.record = r
      BY <1>1, <3>3 DEF FeedType
    <3> QED
      BY <1>2, <1>3, <2>1, <3>2, <3>4 DEF FeedInv
  <2>3. CASE ~e.ram
    <3>1. feed' = feed
      BY <1>6, <2>3 DEF Feed, Offered
    <3> QED
      BY <1>1, <1>2, <1>3, <1>6, <2>1, <3>1 DEF FeedInv
  <2> QED
    BY <2>2, <2>3
<1>7. CASE Offered
  <2>1. ring.used > 0 /\ feed.state = "OUTPUT" /\ feed.record = slots[ring.head]
    BY <1>7 DEF FeedInv, Offered
  <2>2. CASE Pops(e)
    <3> Taken(e)
      BY <2>2 DEF Pops
    <3>1. feed' = [state |-> "IDLE", beat |-> 1, record |-> 0]
      BY <1>7, <2>1, <2>2 DEF Feed
    <3>2. feed' \in FeedType
      BY <1>1, <3>1 DEF FeedType
    <3> QED
      BY <1>2, <2>1, <2>2, <3>1, <3>2 DEF FeedInv, Pops
  <2>3. CASE Taken(e) /\ ~Pops(e)
    <3>1. feed' = [state |-> "READ", beat |-> feed.beat + 1, record |-> 0]
      BY <1>7, <2>1, <2>3 DEF Feed
    <3>2. feed.beat # Beats
      BY <2>3 DEF Pops
    <3>3. feed' \in FeedType
      BY <1>1, <3>1, <3>2 DEF FeedType
    <3> QED
      BY <1>2, <1>3, <2>1, <2>3, <3>1, <3>3 DEF FeedInv
  <2>4. CASE ~Taken(e)
    <3>1. feed' = feed /\ ~Pops(e)
      BY <1>7, <2>1, <2>4 DEF Feed, Pops
    <3> QED
      BY <1>1, <1>2, <1>3, <2>1, <2>4, <3>1 DEF FeedInv
  <2> QED
    BY <2>2, <2>3, <2>4
<1> QED
  BY <1>4, <1>5, <1>6, <1>7 DEF Feed

-----------------------------------------------------------------------------
(* The transmitter. *)

\* A beat that is taken is the next one of what was fetched.
LEMMA FeedMoves ==
  ASSUME RegistersOK, HostOK, ReaderInv, QueueInv, FeedInv,
         NEW c, CommandOK(c), NEW e, Reader(c, e), Ring(e), Feed(e)
  PROVE  /\ Popped \in Nat /\ feed.beat \in 1 .. Beats /\ Len(fetched) \in Nat
         /\ TakenSlot \in 0 .. Len(fetched) /\ TakenBeat \in 1 .. Beats
         /\ Offered => Popped + 1 <= Len(fetched)
         /\ ~Taken(e) => /\ Popped' = Popped /\ feed'.beat = feed.beat
                         /\ TakenSlot' = TakenSlot /\ TakenBeat' = TakenBeat
         /\ Taken(e) => /\ TakenSlot' = Popped + 1 /\ TakenBeat' = feed.beat
                        /\ OfferedBeat = [record |-> fetched[Popped + 1], beat |-> feed.beat]
<1>1. /\ feed \in FeedType /\ feed' \in FeedType
      /\ Offered \/ feed.beat > 1 => Popped + 1 <= Len(fetched)
      /\ Offered => feed.record = fetched[Popped + 1]
      /\ Pops(e) => feed'.beat = 1
      /\ Taken(e) /\ ~Pops(e) => feed'.beat = feed.beat + 1
      /\ ~Taken(e) => feed'.beat = feed.beat
  BY FeedStep DEF RegistersOK, FeedType
<1>2. Popped \in Nat /\ Popped' = Popped + PoppedIn(e)
  BY QueueStep
<1>3. Len(fetched) \in Nat
  BY FetchedIs
<1>4. Popped <= Len(fetched)
  <2>1. Queued \in Nat
    BY ProposalPathAssumption DEF Queued, RegistersOK
  <2> QED
    BY <1>3, <2>1 DEF Popped
<1>5. PICK b \in 1 .. Beats, d \in 1 .. Beats : b = feed.beat /\ d = feed'.beat
  BY <1>1 DEF FeedType
<1>6. Beats \in Nat \ {0}
  BY ProposalPathAssumption
<1>7. TakenSlot \in 0 .. Len(fetched) /\ TakenBeat \in 1 .. Beats
  BY <1>1, <1>2, <1>3, <1>4, <1>5, <1>6 DEF TakenSlot, TakenBeat
<1>8. ~Taken(e) => Popped' = Popped
  BY <1>2 DEF PoppedIn, Pops
<1>9. ~Taken(e) => TakenSlot' = TakenSlot /\ TakenBeat' = TakenBeat
  BY <1>1, <1>8 DEF TakenSlot, TakenBeat
<1>10. Taken(e) => TakenSlot' = Popped + 1 /\ TakenBeat' = feed.beat
  <2>1. CASE Pops(e)
    <3>1. feed.beat = Beats /\ feed'.beat = 1 /\ Popped' = Popped + 1
      BY <1>1, <1>2, <2>1 DEF Pops, PoppedIn
    <3> QED
      BY <3>1 DEF TakenSlot, TakenBeat
  <2>2. CASE Taken(e) /\ ~Pops(e)
    <3>1. d = b + 1 /\ Popped' = Popped
      BY <1>1, <1>2, <1>5, <2>2 DEF PoppedIn
    <3>2. d > 1 /\ d - 1 = b
      BY <1>5, <3>1
    <3> QED
      BY <1>5, <3>1, <3>2 DEF TakenSlot, TakenBeat
  <2> QED
    BY <2>1, <2>2
<1>11. Taken(e) => OfferedBeat = [record |-> fetched[Popped + 1], beat |-> feed.beat]
  BY <1>1 DEF OfferedBeat, Taken
<1> QED
  BY <1>1, <1>2, <1>3, <1>5, <1>7, <1>8, <1>9, <1>10, <1>11

TxType == [state : {"IDLE", "HDR", "PAYLOAD"}, payload : BOOLEAN, held : BeatType]

\* The transmitter's register after a cycle.
LEMMA HeldStep ==
  ASSUME RegistersOK, HostOK, ReaderInv, QueueInv, FeedInv, HeldInv,
         NEW c, CommandOK(c), NEW e, Reader(c, e), Ring(e), Feed(e), Transmit(e)
  PROVE  /\ tx' \in TxType /\ HeldInv'
         /\ tx.state # "PAYLOAD" => tx'.held = tx.held /\ ~Taken(e)
<1>1. tx \in TxType /\ feed \in FeedType
  BY DEF RegistersOK, TxType, FeedType
<1>2. OfferedBeat \in BeatType /\ NoBeat \in BeatType
  <2>1. feed.record \in Nat /\ feed.beat \in Nat
    BY <1>1, ProposalPathAssumption DEF FeedType
  <2> QED
    BY <2>1 DEF OfferedBeat, NoBeat, BeatType
<1>3. /\ TakenSlot \in 0 .. Len(fetched) /\ Popped \in Nat /\ Len(fetched) \in Nat
      /\ Offered => Popped + 1 <= Len(fetched)
      /\ ~Taken(e) => TakenSlot' = TakenSlot /\ TakenBeat' = TakenBeat
      /\ Taken(e) => /\ TakenSlot' = Popped + 1 /\ TakenBeat' = feed.beat
                     /\ OfferedBeat = [record |-> fetched[Popped + 1], beat |-> feed.beat]
  BY FeedMoves
<1>4. \A i \in 1 .. Len(fetched) : fetched'[i] = fetched[i]
  BY FetchedIs
<1>5. CASE Admit(e) \/ Header(e)
  <2>1. tx.state # "PAYLOAD"
    BY <1>5 DEF Admit, Header
  <2>2. tx' \in TxType /\ tx'.held = tx.held
    <3>1. CASE tx' = tx
      BY <1>1, <3>1
    <3>2. CASE tx' = [tx EXCEPT !.state = "HDR", !.payload = Offered]
      <4>1. PICK o \in BOOLEAN : o = Offered
        BY DEF Offered
      <4>2. tx' = [tx EXCEPT !.state = "HDR", !.payload = o]
        BY <3>2, <4>1
      <4> QED
        BY <1>1, <4>2 DEF TxType
    <3>3. CASE tx' = [tx EXCEPT !.state = "PAYLOAD"] \/ tx' = [tx EXCEPT !.state = "IDLE"]
      BY <1>1, <3>3 DEF TxType
    <3> QED
      BY <1>5, <3>1, <3>2, <3>3 DEF Admit, Header
  <2>3. ~Taken(e)
    BY <2>1 DEF Taken, Space
  <2>4. HeldInv'
    <3> SUFFICES ASSUME tx'.held # NoBeat
                 PROVE  /\ TakenSlot' >= 1
                        /\ tx'.held = [record |-> fetched'[TakenSlot'], beat |-> TakenBeat']
      BY DEF HeldInv, NoBeat
    <3>1. TakenSlot >= 1 /\ tx.held = [record |-> fetched[TakenSlot], beat |-> TakenBeat]
      BY <2>2 DEF HeldInv
    <3> QED
      BY <1>3, <1>4, <2>2, <2>3, <3>1
  <2> QED
    BY <2>1, <2>2, <2>3, <2>4
<1>6. CASE Payload(e)
  <2>1. tx.state = "PAYLOAD"
    BY <1>6 DEF Payload
  <2>2. PICK s \in {"IDLE", "PAYLOAD"}, h \in BeatType :
          /\ tx' = [tx EXCEPT !.state = s, !.held = h]
          /\ h = IF Taken(e) THEN OfferedBeat
                 ELSE IF tx.held # NoBeat /\ e.mac THEN NoBeat ELSE tx.held
    <3>1. PICK h \in BeatType : h = IF Taken(e) THEN OfferedBeat
                                    ELSE IF tx.held # NoBeat /\ e.mac THEN NoBeat ELSE tx.held
      BY <1>1, <1>2 DEF TxType
    <3>2. PICK s \in {"IDLE", "PAYLOAD"} :
            s = IF (tx.held # NoBeat /\ e.mac) /\ tx.held.beat = Beats
                THEN "IDLE" ELSE "PAYLOAD"
      OBVIOUS
    <3>3. tx' = [tx EXCEPT !.state = s, !.held = h]
      BY <1>1, <1>6, <2>1, <3>1, <3>2 DEF Payload, TxType
    <3> QED
      BY <3>1, <3>3
  <2>3. tx' \in TxType /\ tx'.held = h
    BY <1>1, <2>2 DEF TxType
  <2>4. HeldInv'
    <3> SUFFICES ASSUME tx'.held # NoBeat
                 PROVE  /\ TakenSlot' >= 1
                        /\ tx'.held = [record |-> fetched'[TakenSlot'], beat |-> TakenBeat']
      BY DEF HeldInv, NoBeat
    <3>1. CASE Taken(e)
      <4>1. Popped + 1 \in 1 .. Len(fetched)
        BY <1>3, <3>1 DEF Taken
      <4>2. fetched'[Popped + 1] = fetched[Popped + 1] /\ Popped + 1 >= 1
        BY <1>4, <4>1
      <4> QED
        BY <1>3, <2>2, <2>3, <3>1, <4>2
    <3>2. CASE ~Taken(e)
      <4>1. tx.held # NoBeat /\ tx'.held = tx.held
        BY <2>2, <2>3, <3>2
      <4>2. TakenSlot >= 1 /\ tx.held = [record |-> fetched[TakenSlot], beat |-> TakenBeat]
        BY <4>1 DEF HeldInv
      <4>3. fetched'[TakenSlot] = fetched[TakenSlot]
        BY <1>3, <1>4, <4>2
      <4> QED
        BY <1>3, <3>2, <4>1, <4>2, <4>3
    <3> QED
      BY <3>1, <3>2
  <2> QED
    BY <2>1, <2>3, <2>4
<1> QED
  BY <1>5, <1>6 DEF Transmit

\* A frame is opened.
LEMMA FrameOpened ==
  ASSUME NEW T, NEW w \in Seq(Seq(T))
  PROVE  /\ Append(w, <<>>) \in Seq(Seq(T)) /\ Len(Append(w, <<>>)) = Len(w) + 1
         /\ \A i \in 1 .. Len(w) : Append(w, <<>>)[i] = w[i]
         /\ Append(w, <<>>)[Len(w) + 1] = <<>>
<1>1. <<>> \in Seq(T)
  OBVIOUS
<1>2. PICK S : S = Seq(T)
  OBVIOUS
<1>3. w \in Seq(S) /\ <<>> \in S
  BY <1>1, <1>2
<1> QED
  BY <1>2, <1>3

\* The last element of a sequence is replaced.
LEMMA LastReplaced ==
  ASSUME NEW T, NEW w \in Seq(T), Len(w) \in Nat \ {0}, NEW z \in T
  PROVE  /\ [w EXCEPT ![Len(w)] = z] \in Seq(T) /\ Len([w EXCEPT ![Len(w)] = z]) = Len(w)
         /\ [w EXCEPT ![Len(w)] = z][Len(w)] = z
         /\ \A i \in 1 .. Len(w) : i # Len(w) => [w EXCEPT ![Len(w)] = z][i] = w[i]
OBVIOUS

\* The frame that is open grows by a beat.
LEMMA FrameGrows ==
  ASSUME NEW T, NEW w \in Seq(Seq(T)), w # <<>>, NEW x \in T,
         NEW v, v = [w EXCEPT ![Len(w)] = Append(@, x)]
  PROVE  /\ v \in Seq(Seq(T)) /\ Len(v) = Len(w) /\ Len(w) \in Nat \ {0}
         /\ w[Len(w)] \in Seq(T) /\ Len(w[Len(w)]) \in Nat
         /\ \A i \in 1 .. Len(w) : i # Len(w) => v[i] = w[i]
         /\ Len(v[Len(w)]) = Len(w[Len(w)]) + 1
         /\ \A b \in 1 .. Len(w[Len(w)]) : v[Len(w)][b] = w[Len(w)][b]
         /\ v[Len(w)][Len(w[Len(w)]) + 1] = x
<1>1. PICK S : S = Seq(T)
  OBVIOUS
<1>2. w \in Seq(S) /\ Len(w) \in Nat \ {0}
  BY <1>1
<1>3. PICK n \in Nat \ {0} : n = Len(w)
  BY <1>2
<1>4. w[n] \in S
  BY <1>2, <1>3
<1>5. PICK y \in Seq(T) : y = w[n]
  BY <1>1, <1>4
<1>6. PICK z : z = Append(y, x)
  OBVIOUS
<1>7. /\ z \in Seq(T) /\ Len(y) \in Nat /\ Len(z) = Len(y) + 1
      /\ \A b \in 1 .. Len(y) : z[b] = y[b]
      /\ z[Len(y) + 1] = x
  BY <1>6
<1>8. z \in S
  BY <1>1, <1>7
<1>9. v = [w EXCEPT ![n] = z]
  BY <1>3, <1>5, <1>6
<1>10. v \in Seq(S) /\ Len(v) = n /\ v[n] = z /\ \A i \in 1 .. n : i # n => v[i] = w[i]
  <2>1. [w EXCEPT ![Len(w)] = z] \in Seq(S) /\ Len([w EXCEPT ![Len(w)] = z]) = Len(w)
        /\ [w EXCEPT ![Len(w)] = z][Len(w)] = z
        /\ \A i \in 1 .. Len(w) : i # Len(w) => [w EXCEPT ![Len(w)] = z][i] = w[i]
    BY <1>2, <1>8, LastReplaced
  <2> QED
    BY <1>3, <1>9, <2>1, Zenon
<1> QED
  BY <1>1, <1>3, <1>5, <1>7, <1>10

\* A beat leaves.
Leaves(e) == tx.state = "PAYLOAD" /\ tx.held # NoBeat /\ e.mac

\* When a beat leaves, the one behind it is the next to leave: of the same slot,
\* or the first of the next slot.  Nothing else moves that place.
LEMMA LeavingStep ==
  ASSUME RegistersOK, HostOK, ReaderInv, QueueInv, FeedInv, HeldInv,
         NEW c, CommandOK(c), NEW e, Reader(c, e), Ring(e), Feed(e), Transmit(e)
  PROVE  /\ LeavingSlot \in Nat /\ LeavingBeat \in 1 .. Beats
         /\ Offered \/ tx.held # NoBeat => LeavingSlot <= Len(fetched)
         /\ ~Leaves(e) => LeavingSlot' = LeavingSlot /\ LeavingBeat' = LeavingBeat
         /\ Leaves(e) => tx.held = [record |-> fetched[LeavingSlot], beat |-> LeavingBeat]
         /\ Leaves(e) /\ LeavingBeat = Beats => LeavingSlot' = LeavingSlot + 1 /\ LeavingBeat' = 1
         /\ Leaves(e) /\ LeavingBeat # Beats =>
              LeavingSlot' = LeavingSlot /\ LeavingBeat' = LeavingBeat + 1
<1>1. /\ Popped \in Nat /\ feed.beat \in 1 .. Beats /\ Len(fetched) \in Nat
      /\ TakenSlot \in 0 .. Len(fetched) /\ TakenBeat \in 1 .. Beats
      /\ Offered => Popped + 1 <= Len(fetched)
      /\ ~Taken(e) => /\ Popped' = Popped /\ feed'.beat = feed.beat
                      /\ TakenSlot' = TakenSlot /\ TakenBeat' = TakenBeat
      /\ Taken(e) => /\ TakenSlot' = Popped + 1 /\ TakenBeat' = feed.beat
                     /\ OfferedBeat = [record |-> fetched[Popped + 1], beat |-> feed.beat]
  BY FeedMoves
<1>2. /\ tx' \in TxType
      /\ tx.state # "PAYLOAD" => tx'.held = tx.held /\ ~Taken(e)
  BY HeldStep
<1>3. tx.state = "PAYLOAD" =>
        tx'.held = IF Taken(e) THEN OfferedBeat
                   ELSE IF tx.held # NoBeat /\ e.mac THEN NoBeat ELSE tx.held
  BY DEF Transmit, Admit, Header, Payload, RegistersOK
<1>4. Taken(e) => OfferedBeat # NoBeat
  <2>1. feed.beat # 0
    BY <1>1, ProposalPathAssumption
  <2> QED
    BY <2>1 DEF OfferedBeat, NoBeat
<1>5. Beats \in Nat \ {0}
  BY ProposalPathAssumption
<1>6. NoBeat' = NoBeat
  BY DEF NoBeat
<1>7. LeavingSlot \in Nat /\ LeavingBeat \in 1 .. Beats
  BY <1>1 DEF LeavingSlot, LeavingBeat
<1>8. Offered \/ tx.held # NoBeat => LeavingSlot <= Len(fetched)
  BY <1>1 DEF LeavingSlot
<1>9. ASSUME ~Leaves(e)
      PROVE  LeavingSlot' = LeavingSlot /\ LeavingBeat' = LeavingBeat
  <2>1. CASE Taken(e)
    <3>1. tx.held = NoBeat
      BY <1>9, <2>1 DEF Taken, Space, Leaves
    <3>2. tx'.held = OfferedBeat /\ tx'.held # NoBeat
      BY <1>3, <1>4, <2>1 DEF Taken, Space
    <3> QED
      BY <1>1, <1>6, <2>1, <3>1, <3>2 DEF LeavingSlot, LeavingBeat
  <2>2. CASE ~Taken(e)
    <3>1. tx'.held = tx.held
      BY <1>2, <1>3, <1>9, <2>2 DEF Leaves
    <3> QED
      BY <1>1, <1>6, <2>2, <3>1 DEF LeavingSlot, LeavingBeat
  <2> QED
    BY <2>1, <2>2
<1>10. ASSUME Leaves(e)
       PROVE  /\ tx.held = [record |-> fetched[LeavingSlot], beat |-> LeavingBeat]
              /\ LeavingSlot = TakenSlot /\ LeavingBeat = TakenBeat
              /\ LeavingSlot' = Popped + 1 /\ LeavingBeat' = feed.beat
  <2>1. LeavingSlot = TakenSlot /\ LeavingBeat = TakenBeat
    BY <1>10 DEF Leaves, LeavingSlot, LeavingBeat
  <2>2. tx.held = [record |-> fetched[LeavingSlot], beat |-> LeavingBeat]
    BY <1>10, <2>1 DEF Leaves, HeldInv
  <2>3. CASE Taken(e)
    <3>1. tx'.held # NoBeat
      BY <1>3, <1>4, <1>10, <2>3 DEF Leaves
    <3> QED
      BY <1>1, <1>6, <2>1, <2>2, <2>3, <3>1 DEF LeavingSlot, LeavingBeat
  <2>4. CASE ~Taken(e)
    <3>1. tx'.held = NoBeat
      BY <1>3, <1>10, <2>4 DEF Leaves
    <3> QED
      BY <1>1, <1>6, <2>1, <2>2, <2>4, <3>1 DEF LeavingSlot, LeavingBeat
  <2> QED
    BY <2>3, <2>4
<1>11. Leaves(e) /\ LeavingBeat = Beats => LeavingSlot' = LeavingSlot + 1 /\ LeavingBeat' = 1
  BY <1>1, <1>5, <1>10 DEF TakenSlot, TakenBeat
<1>12. Leaves(e) /\ LeavingBeat # Beats =>
         LeavingSlot' = LeavingSlot /\ LeavingBeat' = LeavingBeat + 1
  BY <1>1, <1>5, <1>10 DEF TakenSlot, TakenBeat
<1> QED
  BY <1>7, <1>8, <1>9, <1>10, <1>11, <1>12

\* Every beat goes where it belongs.
LEMMA WireStep ==
  ASSUME RegistersOK, HostOK, ReaderInv, QueueInv, FeedInv, HeldInv, WireInv,
         NEW c, CommandOK(c), NEW e, Reader(c, e), Ring(e), Feed(e), Transmit(e)
  PROVE  WireInv'
<1> DEFINE Filled(w, f) == \A i \in 1 .. Len(w) : \A b \in 1 .. Len(w[i]) :
                             w[i][b] = [record |-> f[i], beat |-> b]
           Closed(w, open) == \A i \in 1 .. Len(w) : Len(w[i]) = Beats \/ (i = Len(w) /\ open)
<1>1. /\ LeavingSlot \in Nat /\ LeavingBeat \in 1 .. Beats
      /\ Offered \/ tx.held # NoBeat => LeavingSlot <= Len(fetched)
      /\ ~Leaves(e) => LeavingSlot' = LeavingSlot /\ LeavingBeat' = LeavingBeat
      /\ Leaves(e) => tx.held = [record |-> fetched[LeavingSlot], beat |-> LeavingBeat]
      /\ Leaves(e) /\ LeavingBeat = Beats => LeavingSlot' = LeavingSlot + 1 /\ LeavingBeat' = 1
      /\ Leaves(e) /\ LeavingBeat # Beats =>
           LeavingSlot' = LeavingSlot /\ LeavingBeat' = LeavingBeat + 1
  BY LeavingStep
<1>2. /\ Len(fetched) \in Nat /\ Len(fetched') \in Nat /\ Len(fetched) <= Len(fetched')
      /\ \A i \in 1 .. Len(fetched) : fetched'[i] = fetched[i]
  BY FetchedIs
<1>3. tx \in TxType /\ tx' \in TxType
  BY HeldStep DEF RegistersOK, TxType
<1>4. /\ wire \in Seq(Seq(BeatType)) /\ Len(wire) <= Len(fetched) /\ Len(wire) \in Nat
      /\ Filled(wire, fetched) /\ Closed(wire, tx.state = "PAYLOAD")
  BY DEF WireInv
<1>5. Filled(wire, fetched')
  <2> SUFFICES ASSUME NEW i \in 1 .. Len(wire), NEW b \in 1 .. Len(wire[i])
               PROVE  wire[i][b] = [record |-> fetched'[i], beat |-> b]
    OBVIOUS
  <2>1. i \in 1 .. Len(fetched)
    BY <1>2, <1>4
  <2> QED
    BY <1>2, <1>4, <2>1
<1>6. Beats \in Nat \ {0}
  BY ProposalPathAssumption
<1>7. CASE Admit(e)
  <2>1. tx.state = "IDLE" /\ wire' = wire /\ ~Leaves(e)
    BY <1>7 DEF Admit, Leaves
  <2>2. LeavingSlot' = Len(wire) + 1 /\ LeavingBeat' = 1
    BY <1>1, <2>1 DEF WireInv
  <2>3. tx'.state \in {"IDLE", "HDR"} /\ (tx'.state = "HDR" => (tx'.payload <=> Offered))
    BY <1>3, <1>7 DEF Admit, TxType
  <2>4. tx'.state = "HDR" /\ tx'.payload => Len(wire) < Len(fetched')
    BY <1>1, <1>2, <1>4, <2>1, <2>2, <2>3
  <2>5. Closed(wire, FALSE)
    BY <1>4, <2>1
  <2> HIDE DEF Filled, Closed
  <2>6. Closed(wire', tx'.state = "PAYLOAD") /\ Filled(wire', fetched')
    BY <1>5, <2>1, <2>3, <2>5 DEF Closed
  <2> QED
    BY <1>2, <1>4, <2>1, <2>2, <2>3, <2>4, <2>6 DEF WireInv, Filled, Closed
<1>8. CASE Header(e) /\ ~(e.mac /\ tx.payload)
  <2>1. tx.state = "HDR" /\ wire' = wire /\ ~Leaves(e)
    BY <1>8 DEF Header, Leaves
  <2>2. LeavingSlot' = Len(wire) + 1 /\ LeavingBeat' = 1
    BY <1>1, <2>1 DEF WireInv
  <2>3. tx'.state = "IDLE" \/ tx' = tx
    BY <1>3, <1>8 DEF Header, TxType
  <2>4. tx'.state = "HDR" /\ tx'.payload => Len(wire) < Len(fetched')
    BY <1>2, <1>4, <2>1, <2>3 DEF WireInv
  <2>5. Closed(wire, FALSE) /\ tx'.state # "PAYLOAD"
    BY <1>4, <2>1, <2>3
  <2> HIDE DEF Filled, Closed
  <2>6. Closed(wire', tx'.state = "PAYLOAD") /\ Filled(wire', fetched')
    BY <1>5, <2>1, <2>5 DEF Closed
  <2> QED
    BY <1>2, <1>4, <2>1, <2>2, <2>4, <2>5, <2>6 DEF WireInv, Filled, Closed
<1>9. CASE Header(e) /\ e.mac /\ tx.payload
  <2>1. tx.state = "HDR" /\ wire' = Append(wire, <<>>) /\ ~Leaves(e)
    BY <1>9 DEF Header, Leaves
  <2>2. tx'.state = "PAYLOAD"
    BY <1>3, <1>9 DEF Header, TxType
  <2>3. LeavingSlot' = Len(wire) + 1 /\ LeavingBeat' = 1 /\ Len(wire) < Len(fetched)
    BY <1>1, <1>9, <2>1 DEF WireInv
  <2>4. /\ wire' \in Seq(Seq(BeatType)) /\ Len(wire') = Len(wire) + 1
        /\ \A i \in 1 .. Len(wire) : wire'[i] = wire[i]
        /\ wire'[Len(wire) + 1] = <<>>
    BY <1>4, <2>1, FrameOpened
  <2>5. Filled(wire', fetched')
    <3> SUFFICES ASSUME NEW i \in 1 .. Len(wire'), NEW b \in 1 .. Len(wire'[i])
                 PROVE  wire'[i][b] = [record |-> fetched'[i], beat |-> b]
      OBVIOUS
    <3>1. i # Len(wire) + 1
      <4> SUFFICES ASSUME i = Len(wire) + 1
                   PROVE  FALSE
        OBVIOUS
      <4>1. wire'[i] = <<>>
        BY <2>4
      <4>2. Len(wire'[i]) = 0
        BY <4>1
      <4>3. b \in 1 .. 0
        BY <4>2
      <4> QED
        BY <4>3
    <3>2. i \in 1 .. Len(wire)
      BY <1>4, <2>4, <3>1
    <3>3. wire'[i] = wire[i]
      BY <2>4, <3>2
    <3> HIDE DEF Closed
    <3> QED
      BY <1>5, <3>2, <3>3, Zenon
  <2>6. Closed(wire', TRUE)
    <3> SUFFICES ASSUME NEW i \in 1 .. Len(wire'), i # Len(wire')
                 PROVE  Len(wire'[i]) = Beats
      OBVIOUS
    <3>1. i \in 1 .. Len(wire)
      BY <1>4, <2>4
    <3>2. wire'[i] = wire[i] /\ Len(wire[i]) = Beats
      BY <1>4, <2>1, <2>4, <3>1
    <3> QED
      BY <3>2
  <2>7. Len(wire'[Len(wire')]) + 1 = 1 /\ wire' # <<>>
    <3>1. Len(wire'[Len(wire')]) = 0
      <4>1. wire'[Len(wire')] = <<>>
        BY <2>4
      <4> QED
        BY <4>1
    <3>2. Len(wire') # 0
      BY <1>4, <2>4
    <3> QED
      BY <3>1, <3>2
  <2>8. Len(wire') <= Len(fetched')
    BY <1>2, <1>4, <2>3, <2>4
  <2> HIDE DEF Filled, Closed
  <2>9. Closed(wire', tx'.state = "PAYLOAD")
    BY <2>2, <2>6
  <2> QED
    BY <2>2, <2>3, <2>4, <2>5, <2>7, <2>8, <2>9 DEF WireInv, Filled, Closed
<1>10. CASE Payload(e) /\ ~Leaves(e)
  <2>1. tx.state = "PAYLOAD" /\ wire' = wire
    BY <1>10 DEF Payload, Leaves
  <2>2. tx'.state = "PAYLOAD"
    BY <1>3, <1>10, <2>1 DEF Payload, Leaves, TxType
  <2>3. LeavingSlot' = Len(wire) /\ wire # <<>> /\ LeavingBeat' = Len(wire[Len(wire)]) + 1
    BY <1>1, <1>10, <2>1 DEF WireInv
  <2> HIDE DEF Filled, Closed
  <2>4. Closed(wire', tx'.state = "PAYLOAD") /\ Filled(wire', fetched')
    BY <1>4, <1>5, <2>1, <2>2
  <2> QED
    BY <1>2, <1>4, <2>1, <2>2, <2>3, <2>4 DEF WireInv, Filled, Closed
<1>11. CASE Payload(e) /\ Leaves(e)
  <2>1. tx.state = "PAYLOAD" /\ wire' = [wire EXCEPT ![Len(wire)] = Append(@, tx.held)]
    BY <1>11 DEF Payload, Leaves
  <2>2. LeavingSlot = Len(wire) /\ wire # <<>> /\ LeavingBeat = Len(wire[Len(wire)]) + 1
    BY <2>1 DEF WireInv
  <2>3. tx.held = [record |-> fetched[Len(wire)], beat |-> LeavingBeat]
    BY <1>1, <1>11, <2>2
  <2>4. tx'.state = IF LeavingBeat = Beats THEN "IDLE" ELSE "PAYLOAD"
    <3>1. tx.held.beat = LeavingBeat
      BY <2>3
    <3> QED
      BY <1>3, <1>11, <2>1, <3>1 DEF Payload, Leaves, TxType
  <2>5. PICK n \in Nat \ {0}, l \in Nat : n = Len(wire) /\ l = Len(wire[n])
    <3>1. tx.held \in BeatType
      BY <1>3 DEF TxType
    <3>2. Len(wire) \in Nat \ {0} /\ Len(wire[Len(wire)]) \in Nat
      BY <1>4, <2>1, <2>2, <3>1, FrameGrows
    <3> QED
      BY <3>2
  <2>6. /\ wire' \in Seq(Seq(BeatType)) /\ Len(wire') = n
        /\ \A i \in 1 .. n : i # n => wire'[i] = wire[i]
        /\ Len(wire'[n]) = l + 1
        /\ \A b \in 1 .. l : wire'[n][b] = wire[n][b]
        /\ wire'[n][l + 1] = tx.held
    <3>1. tx.held \in BeatType
      BY <1>3 DEF TxType
    <3> QED
      BY <1>4, <2>1, <2>2, <2>5, <3>1, FrameGrows
  <2>7. Filled(wire', fetched')
    <3> SUFFICES ASSUME NEW i \in 1 .. Len(wire'), NEW b \in 1 .. Len(wire'[i])
                 PROVE  wire'[i][b] = [record |-> fetched'[i], beat |-> b]
      OBVIOUS
    <3>1. i \in 1 .. n /\ i \in 1 .. Len(wire)
      BY <2>5, <2>6
    <3>2. CASE i # n
      <4>1. wire'[i] = wire[i]
        BY <2>6, <3>1, <3>2
      <4> HIDE DEF Closed
      <4> QED
        BY <1>5, <3>1, <4>1, Zenon
    <3>3. CASE i = n /\ b # l + 1
      <4>1. b \in 1 .. l
        BY <2>6, <3>3
      <4>2. wire'[i][b] = wire[i][b] /\ b \in 1 .. Len(wire[i])
        BY <2>5, <2>6, <3>3, <4>1
      <4> HIDE DEF Closed
      <4> QED
        BY <1>5, <3>1, <4>2, Zenon
    <3>4. CASE i = n /\ b = l + 1
      <4>1. n \in 1 .. Len(fetched)
        BY <1>2, <1>4, <2>5
      <4>2. fetched'[n] = fetched[n]
        BY <1>2, <4>1
      <4>3. LeavingBeat = l + 1
        BY <2>2, <2>5
      <4> QED
        BY <2>3, <2>5, <2>6, <3>4, <4>2, <4>3
    <3> QED
      BY <3>2, <3>3, <3>4
  <2>8. Closed(wire', LeavingBeat # Beats)
    <3> SUFFICES ASSUME NEW i \in 1 .. Len(wire')
                 PROVE  Len(wire'[i]) = Beats \/ (i = Len(wire') /\ LeavingBeat # Beats)
      OBVIOUS
    <3>1. i \in 1 .. n /\ i \in 1 .. Len(wire)
      BY <2>5, <2>6
    <3>2. CASE i # n
      <4>1. wire'[i] = wire[i]
        BY <2>6, <3>1, <3>2
      <4> QED
        BY <1>4, <2>5, <3>1, <3>2, <4>1
    <3>3. CASE i = n
      <4>1. LeavingBeat = l + 1
        BY <2>2, <2>5
      <4> QED
        BY <2>6, <3>3, <4>1
    <3> QED
      BY <3>2, <3>3
  <2>9. Closed(wire', tx'.state = "PAYLOAD")
    <3>1. LeavingBeat # Beats => tx'.state = "PAYLOAD"
      BY <2>4
    <3> HIDE DEF Filled
    <3> QED
      BY <2>8, <3>1
  <2>10. wire' # <<>> /\ Len(wire') <= Len(fetched') /\ tx'.state # "HDR"
    <3>1. Len(wire') # 0
      BY <2>6
    <3>2. wire' # <<>>
      BY <3>1
    <3> QED
      BY <1>2, <1>4, <2>4, <2>5, <2>6, <3>2
  <2>11. tx'.state # "PAYLOAD" => LeavingSlot' = Len(wire') + 1 /\ LeavingBeat' = 1
    BY <1>1, <1>11, <2>2, <2>4, <2>5, <2>6
  <2>12. tx'.state = "PAYLOAD" =>
           LeavingSlot' = Len(wire') /\ LeavingBeat' = Len(wire'[Len(wire')]) + 1
    BY <1>1, <1>11, <2>2, <2>4, <2>5, <2>6
  <2> HIDE DEF Filled, Closed
  <2> QED
    BY <2>6, <2>7, <2>9, <2>10, <2>11, <2>12 DEF WireInv, Filled, Closed
<1> QED
  BY <1>7, <1>8, <1>9, <1>10, <1>11 DEF Transmit

-----------------------------------------------------------------------------
(* Every step. *)

\* A clock cycle.
LEMMA CycleStep ==
  ASSUME RegistersOK, HostOK, ReaderInv, QueueInv, FeedInv, HeldInv, WireInv,
         NEW c, CommandOK(c), NEW e, Cycle(c, e)
  PROVE  RegistersOK' /\ ReaderInv' /\ QueueInv' /\ FeedInv' /\ HeldInv' /\ WireInv'
<1>1. Reader(c, e) /\ Ring(e) /\ Feed(e) /\ Transmit(e)
  BY DEF Cycle
<1>2. reader' \in ReaderType /\ slots' \in [0 .. Slots - 1 -> Nat]
  <2>1. CASE reader.state = "COMMIT_SLOT"
    BY <1>1, <2>1, ReaderCommits DEF RegistersOK
  <2>2. CASE reader.state # "COMMIT_SLOT"
    BY <1>1, <2>2, ReaderMoves
  <2> QED
    BY <2>1, <2>2
<1>3. ring' \in [head : 0 .. Slots - 1, tail : 0 .. Slots - 1, used : 0 .. Slots]
  BY <1>1, RingIs
<1>4. feed' \in FeedType /\ FeedInv'
  BY <1>1, FeedStep
<1>5. tx' \in TxType /\ HeldInv'
  BY <1>1, HeldStep
<1>6. RegistersOK'
  BY <1>2, <1>3, <1>4, <1>5 DEF RegistersOK, FeedType, TxType
<1>7. ReaderInv'
  BY <1>1, ReaderStep
<1>8. QueueInv'
  BY <1>1, QueueStep
<1>9. WireInv'
  BY <1>1, WireStep
<1> QED
  BY <1>4, <1>5, <1>6, <1>7, <1>8, <1>9

CallerType ==
  [at : {"idle", "before", "submit", "count", "start", "poll", "after"},
   count : 0 .. Region, wait : BOOLEAN, before : Nat]

\* Where the driver goes from here.
LEMMA CallerGoes ==
  ASSUME caller \in CallerType
  PROVE  /\ IdleCaller \in CallerType
         /\ \A at \in {"idle", "before", "submit", "count", "start", "poll", "after"} :
              LET d == [caller EXCEPT !.at = at]
              IN d \in CallerType /\ d.at = at /\ d.count = caller.count /\ d.wait = caller.wait
                 /\ d.before = caller.before
<1>1. IdleCaller \in CallerType
  BY ProposalPathAssumption DEF IdleCaller, CallerType
<1> QED
  BY <1>1 DEF CallerType

\* A write of the driver and a cycle without one are commands the reader can take.
LEMMA Commands ==
  ASSUME HostOK, CallerInv
  PROVE  /\ CommandOK(NoCommand)
         /\ caller.at = "count" => CommandOK(WriteCount(caller.count))
         /\ caller.at = "start" => CommandOK(StartBatch)
<1>1. caller.at # "idle" => caller.count \in 1 .. Region
  BY ProposalPathAssumption DEF HostOK, CallerInv
<1>2. CommandOK(NoCommand)
  BY DEF CommandOK
<1>3. ASSUME caller.at = "count"
      PROVE  CommandOK(WriteCount(caller.count))
  <2>1. ~reader.run /\ caller.count \in 1 .. Region
    BY <1>1, <1>3 DEF CallerInv
  <2> QED
    BY <2>1, Zenon DEF CommandOK
<1>4. ASSUME caller.at = "start"
      PROVE  CommandOK(StartBatch)
  <2>1. ~reader.run /\ reader.state = "IDLE" /\ reader.count = caller.count /\ caller.count >= 1
    BY <1>4 DEF CallerInv
  <2> QED
    BY <2>1, Zenon DEF CommandOK
<1> QED
  BY <1>2, <1>3, <1>4

LEMMA InitPath == Init => PathInv
<1> SUFFICES ASSUME Init
             PROVE  PathInv
  OBVIOUS
<1>1. Slots \in Nat \ {0} /\ Region \in Nat \ {0} /\ Beats \in Nat \ {0}
  BY ProposalPathAssumption
<1>2. 0 \in 0 .. Slots - 1 /\ 0 \in 0 .. Slots /\ 0 \in 0 .. Region /\ 1 \in 1 .. Beats
  BY <1>1
<1>3. reader \in ReaderType
  BY <1>2 DEF Init, ReaderType, ReaderStates
<1>4. /\ slots \in [0 .. Slots - 1 -> Nat]
      /\ ring \in [head : 0 .. Slots - 1, tail : 0 .. Slots - 1, used : 0 .. Slots]
      /\ feed \in FeedType
      /\ region \in [0 .. Region - 1 -> Nat]
  BY <1>2 DEF Init, FeedType
<1>5. NoBeat \in BeatType
  BY DEF NoBeat, BeatType
<1>6. tx \in TxType
  BY <1>5 DEF Init, TxType
<1>7. RegistersOK
  BY <1>3, <1>4, <1>6 DEF RegistersOK, FeedType, TxType
<1>8. HostOK
  BY <1>2, <1>4 DEF Init, HostOK, IdleCaller
<1>9. ReaderInv /\ CallerInv
  BY DEF Init, ReaderInv, CallerInv, IdleCaller
<1>10. Queued = 0 /\ Len(fetched) = 0 /\ Popped = 0
  BY DEF Init, Queued, Popped
<1>11. QueueInv
  <2>1. 0 % Slots = 0
    BY <1>1, <1>2, Wraps
  <2>2. ring.tail = (ring.head + ring.used) % Slots
    BY <2>1 DEF Init
  <2> QED
    BY <1>10, <2>2 DEF QueueInv
<1>12. FeedInv /\ HeldInv
  BY DEF Init, FeedInv, HeldInv
<1>13. WireInv
  <2>1. tx.held = NoBeat /\ feed.beat = 1 /\ tx.state = "IDLE"
    BY DEF Init
  <2>2. LeavingSlot = 1 /\ LeavingBeat = 1
    BY <1>10, <2>1 DEF LeavingSlot, LeavingBeat
  <2>3. wire = <<>> /\ wire \in Seq(Seq(BeatType)) /\ Len(wire) = 0
    BY DEF Init
  <2> QED
    BY <1>10, <2>1, <2>2, <2>3 DEF WireInv
<1> QED
  BY <1>7, <1>8, <1>9, <1>11, <1>12, <1>13 DEF PathInv

\* What the invariants speak of, when the hardware stands still.
LEMMA HardwareStands ==
  ASSUME RegistersOK, ReaderInv, QueueInv, FeedInv, HeldInv, WireInv, UNCHANGED hardware
  PROVE  RegistersOK' /\ ReaderInv' /\ QueueInv' /\ FeedInv' /\ HeldInv' /\ WireInv'
<1>1. /\ reader' = reader /\ slots' = slots /\ ring' = ring /\ feed' = feed /\ tx' = tx
      /\ fetched' = fetched /\ wire' = wire
  BY DEF hardware, buffer
<1>2. RegistersOK' /\ ReaderInv' /\ FeedInv'
  BY <1>1 DEF RegistersOK, ReaderInv, FeedInv
<1>3. Queued' = Queued /\ Popped' = Popped /\ NoBeat' = NoBeat
  BY <1>1 DEF Queued, Popped, NoBeat
<1>4. TakenSlot' = TakenSlot /\ TakenBeat' = TakenBeat
  BY <1>1, <1>3 DEF TakenSlot, TakenBeat
<1>5. LeavingSlot' = LeavingSlot /\ LeavingBeat' = LeavingBeat
  BY <1>1, <1>3, <1>4 DEF LeavingSlot, LeavingBeat
<1>6. QueueInv'
  BY <1>1, <1>3 DEF QueueInv, QueuedRecord
<1>7. HeldInv'
  BY <1>1, <1>3, <1>4 DEF HeldInv
<1>8. WireInv'
  BY <1>1, <1>5 DEF WireInv
<1> QED
  BY <1>2, <1>6, <1>7, <1>8

LEMMA NextPath == PathInv /\ [Next]_vars => PathInv'
<1> SUFFICES ASSUME PathInv, [Next]_vars
             PROVE  PathInv'
  OBVIOUS
<1>1. /\ RegistersOK /\ HostOK /\ ReaderInv /\ CallerInv
      /\ QueueInv /\ FeedInv /\ HeldInv /\ WireInv
  BY DEF PathInv
<1>2. /\ caller \in CallerType /\ region \in [0 .. Region - 1 -> Nat] /\ proposed \in Nat
      /\ fetched \in Seq(Nat)
  BY <1>1 DEF HostOK, CallerType
<1>3. /\ IdleCaller \in CallerType
      /\ \A at \in {"idle", "before", "submit", "count", "start", "poll", "after"} :
           LET d == [caller EXCEPT !.at = at]
           IN d \in CallerType /\ d.at = at /\ d.count = caller.count /\ d.wait = caller.wait
              /\ d.before = caller.before
  BY <1>2, CallerGoes
<1>4. IdleCaller.at = "idle"
  BY DEF IdleCaller
\* The hardware moves in a cycle, and otherwise stands still.
<1>5. ASSUME NEW c, CommandOK(c), NEW e, Cycle(c, e)
      PROVE  /\ RegistersOK' /\ ReaderInv' /\ QueueInv' /\ FeedInv' /\ HeldInv' /\ WireInv'
             /\ fetched' \in Seq(Nat)
             /\ ~reader.run => /\ reader'.state = "IDLE"
                               /\ c # StartBatch => ~reader'.run
                               /\ c = NoCommand => reader'.count = reader.count
                               /\ \A n \in 1 .. Region : c = WriteCount(n) => reader'.count = n
  <2>1. Reader(c, e) /\ Ring(e)
    BY <1>5 DEF Cycle
  <2>2. /\ RegistersOK' /\ ReaderInv' /\ QueueInv' /\ FeedInv' /\ HeldInv' /\ WireInv'
    BY <1>1, <1>5, CycleStep
  <2>3. fetched' \in Seq(Nat)
    BY <1>1, <1>5, <2>1, FetchedIs
  <2>4. ~reader.run => reader.state # "COMMIT_SLOT"
    BY <1>1 DEF ReaderInv
  <2>5. ASSUME ~reader.run
        PROVE  /\ reader'.state = "IDLE"
               /\ c # StartBatch => ~reader'.run
               /\ c = NoCommand => reader'.count = reader.count
               /\ \A n \in 1 .. Region : c = WriteCount(n) => reader'.count = n
    BY <1>1, <1>5, <2>1, <2>4, <2>5, ReaderMoves
  <2> QED
    BY <2>2, <2>3, <2>5
<1>6. ASSUME UNCHANGED hardware
      PROVE  /\ RegistersOK' /\ ReaderInv' /\ QueueInv' /\ FeedInv' /\ HeldInv' /\ WireInv'
             /\ fetched' = fetched /\ reader' = reader
  <2>1. fetched' = fetched /\ reader' = reader
    BY <1>6 DEF hardware
  <2> QED
    BY <1>1, <1>6, <2>1, HardwareStands
<1>7. CASE Clock
  <2>1. PICK e \in Event : Tick(e)
    BY <1>7 DEF Clock
  <2>2. Cycle(NoCommand, e) /\ caller' = caller /\ region' = region /\ proposed' = proposed
    BY <2>1 DEF Tick
  <2>3. CommandOK(NoCommand) /\ NoCommand # StartBatch
    BY DEF CommandOK, NoCommand, StartBatch
  <2>4. CallerInv'
    <3>1. ~reader.run => ~reader'.run /\ reader'.count = reader.count /\ reader'.state = "IDLE"
      BY <1>5, <2>2, <2>3
    <3> QED
      BY <1>1, <2>2, <3>1 DEF CallerInv
  <2>5. HostOK'
    BY <1>2, <1>5, <2>2, <2>3 DEF HostOK, CallerType
  <2> QED
    BY <1>5, <2>2, <2>3, <2>4, <2>5 DEF PathInv
<1>8. ASSUME NEW n \in 1 .. Region, NEW wait \in BOOLEAN, Propose(n, wait)
      PROVE  PathInv'
  <2>1. /\ caller' = [at |-> "before", count |-> n, wait |-> wait, before |-> 0]
        /\ region' = [i \in DOMAIN region |-> IF i < n THEN proposed + i + 1 ELSE region[i]]
        /\ proposed' = proposed + n
        /\ UNCHANGED hardware
    BY <1>8 DEF Propose
  <2>2. caller' \in CallerType
    BY <2>1, ProposalPathAssumption DEF CallerType
  <2>3. region' \in [0 .. Region - 1 -> Nat] /\ proposed' \in Nat
    BY <1>2, <2>1, ProposalPathAssumption
  <2>4. HostOK'
    BY <1>2, <1>6, <2>1, <2>2, <2>3 DEF HostOK, CallerType
  <2>5. CallerInv'
    BY <2>1 DEF CallerInv
  <2> QED
    BY <1>6, <2>1, <2>4, <2>5 DEF PathInv
<1>9. CASE ReadBefore \/ Submit \/ WaitDone \/ ReadAfter
  <2>1. region' = region /\ proposed' = proposed /\ UNCHANGED hardware
    BY <1>9 DEF ReadBefore, Submit, WaitDone, ReadAfter
  <2>2. caller' \in CallerType /\ CallerInv'
    <3>1. CASE ReadBefore
      <4>1. PICK m \in Nat : m = reader.entries
        BY <1>1 DEF RegistersOK, ReaderType
      <4>2. caller' = [caller EXCEPT !.at = "submit", !.before = m] /\ caller.at = "before"
        BY <3>1, <4>1 DEF ReadBefore, ReadEntryCounter
      <4>3. caller' \in CallerType /\ caller'.at = "submit" /\ caller'.count = caller.count
        BY <1>2, <4>2 DEF CallerType
      <4> QED
        BY <1>1, <4>2, <4>3 DEF CallerInv
    <3>2. CASE Submit
      <4>1. caller.at = "submit" /\ ((~reader.run /\ Goto("count")) \/ Raise)
        BY <3>2 DEF Submit, ReadStatus
      <4>2. CASE Raise
        BY <1>3, <1>4, <4>2 DEF Raise, CallerInv
      <4>3. CASE ~reader.run /\ Goto("count")
        <5>1. caller' \in CallerType /\ caller'.at = "count" /\ caller'.count = caller.count
          BY <1>3, <4>3 DEF Goto
        <5> QED
          BY <1>1, <1>6, <2>1, <4>1, <4>3, <5>1 DEF CallerInv
      <4> QED
        BY <4>1, <4>2, <4>3
    <3>3. CASE WaitDone
      <4>1. caller.at = "poll" /\ ((reader.done /\ Goto("after")) \/ Raise)
        BY <3>3 DEF WaitDone, ReadStatus
      <4>2. CASE Raise
        BY <1>3, <1>4, <4>2 DEF Raise, CallerInv
      <4>3. CASE reader.done /\ Goto("after")
        <5>1. caller' \in CallerType /\ caller'.at = "after" /\ caller'.count = caller.count
          BY <1>3, <4>3 DEF Goto
        <5>2. ~reader.run
          BY <1>1, <4>3 DEF ReaderInv
        <5> QED
          BY <1>1, <1>6, <2>1, <4>1, <5>1, <5>2 DEF CallerInv
      <4> QED
        BY <4>1, <4>2, <4>3
    <3>4. CASE ReadAfter
      BY <1>3, <1>4, <3>4 DEF ReadAfter, Raise, CallerInv
    <3> QED
      BY <1>9, <3>1, <3>2, <3>3, <3>4
  <2>3. HostOK'
    BY <1>2, <1>6, <2>1, <2>2 DEF HostOK, CallerType
  <2> QED
    BY <1>6, <2>1, <2>2, <2>3 DEF PathInv
<1>10. CASE Writes
  <2>1. PICK e \in Event : WriteBatch(e)
    BY <1>10 DEF Writes
  <2>2. region' = region /\ proposed' = proposed
    BY <2>1 DEF WriteBatch
  <2>3. CASE caller.at = "count" /\ Cycle(WriteCount(caller.count), e) /\ Goto("start")
    <3>1. CommandOK(WriteCount(caller.count)) /\ WriteCount(caller.count) # StartBatch
      BY <1>1, <2>3, Commands DEF WriteCount, StartBatch
    <3>2. ~reader.run /\ caller.count \in 1 .. Region
      BY <1>1, <1>2, <2>3, ProposalPathAssumption DEF CallerInv, CallerType
    <3>3. ~reader'.run /\ reader'.count = caller.count /\ reader'.state = "IDLE"
      BY <1>5, <2>3, <3>1, <3>2
    <3>4. caller' \in CallerType /\ caller'.at = "start" /\ caller'.count = caller.count
      BY <1>3, <2>3 DEF Goto
    <3>5. CallerInv'
      BY <1>1, <2>3, <3>3, <3>4 DEF CallerInv
    <3>6. HostOK'
      BY <1>2, <1>5, <2>2, <2>3, <3>1, <3>4 DEF HostOK, CallerType
    <3> QED
      BY <1>5, <2>3, <3>1, <3>5, <3>6 DEF PathInv
  <2>4. CASE /\ caller.at = "start" /\ Cycle(StartBatch, e)
             /\ IF caller.wait THEN Goto("poll") ELSE Raise
    <3>1. CommandOK(StartBatch)
      BY <1>1, <2>4, Commands
    <3>2. caller' \in CallerType /\ CallerInv'
      <4>1. CASE Raise
        BY <1>3, <1>4, <4>1 DEF Raise, CallerInv
      <4>2. CASE Goto("poll")
        <5>1. caller' \in CallerType /\ caller'.at = "poll" /\ caller'.count = caller.count
          BY <1>3, <4>2 DEF Goto
        <5> QED
          BY <1>1, <2>4, <5>1 DEF CallerInv
      <4> QED
        BY <2>4, <4>1, <4>2
    <3>3. HostOK'
      BY <1>2, <1>5, <2>2, <2>4, <3>1, <3>2 DEF HostOK, CallerType
    <3> QED
      BY <1>5, <2>4, <3>1, <3>2, <3>3 DEF PathInv
  <2> QED
    BY <2>1, <2>3, <2>4 DEF WriteBatch
<1>11. CASE UNCHANGED vars
  <2>1. caller' = caller /\ region' = region /\ proposed' = proposed /\ UNCHANGED hardware
    BY <1>11 DEF vars
  <2>2. HostOK' /\ CallerInv'
    BY <1>1, <1>6, <2>1 DEF HostOK, CallerInv
  <2> QED
    BY <1>6, <2>1, <2>2 DEF PathInv
<1> QED
  BY <1>7, <1>8, <1>9, <1>10, <1>11 DEF Next, Driver

\* A sequence that agrees with another one as far as it goes is its beginning.
LEMMA Beginning ==
  ASSUME NEW T, NEW s \in Seq(T), NEW t \in Seq(T), Len(s) <= Len(t),
         \A b \in 1 .. Len(s) : s[b] = t[b]
  PROVE  s = SubSeq(t, 1, Len(s))
<1>1. PICK n \in Nat : n = Len(s)
  OBVIOUS
<1>2. /\ SubSeq(t, 1, n) \in Seq(T) /\ Len(SubSeq(t, 1, n)) = n
      /\ \A b \in 1 .. n : SubSeq(t, 1, n)[b] = t[b]
  BY <1>1
<1> QED
  BY <1>1, <1>2

\* The registers, the ring and the wire fit together, in every state.
THEOREM PathInvariance == Spec => []PathInv
<1>1. Init => PathInv
  BY InitPath
<1>2. PathInv /\ [Next]_vars => PathInv'
  BY NextPath
<1> QED
  BY <1>1, <1>2, PTL DEF Spec

LEMMA PathIsSentAsFetched == PathInv => SentAsFetched
<1> SUFFICES ASSUME PathInv
             PROVE  SentAsFetched
  OBVIOUS
<1>1. RegistersOK /\ HostOK /\ QueueInv /\ WireInv
  BY DEF PathInv
<1>2. /\ wire \in Seq(Seq(BeatType)) /\ Len(wire) <= Len(fetched) /\ Len(wire) \in Nat
      /\ fetched \in Seq(Nat) /\ Len(fetched) \in Nat
  BY <1>1 DEF WireInv, HostOK
<1>3. Beats \in Nat \ {0}
  BY ProposalPathAssumption
<1>4. LeavingBeat \in 1 .. Beats
  <2>1. feed.beat \in 1 .. Beats
    BY <1>1 DEF RegistersOK
  <2> QED
    BY <1>3, <2>1 DEF LeavingBeat, TakenBeat
<1>5. ASSUME NEW i \in 1 .. Len(wire)
      PROVE  /\ wire[i] = SubSeq(Whole(fetched[i]), 1, Len(wire[i]))
             /\ i < Len(wire) => Len(wire[i]) = Beats
  <2>1. wire[i] \in Seq(BeatType) /\ Len(wire[i]) \in Nat
    <3>1. PICK S : S = Seq(BeatType)
      OBVIOUS
    <3>2. wire[i] \in S
      BY <1>2, <3>1
    <3> QED
      BY <3>1, <3>2
  <2>2. PICK r \in Nat : r = fetched[i]
    BY <1>2
  <2>3. /\ Whole(r) \in Seq(BeatType) /\ Len(Whole(r)) = Beats
        /\ \A b \in 1 .. Beats : Whole(r)[b] = [record |-> r, beat |-> b]
    BY <1>3 DEF Whole, BeatType
  <2>4. Len(wire[i]) = Beats \/ (i = Len(wire) /\ tx.state = "PAYLOAD")
    BY <1>1 DEF WireInv
  <2>5. Len(wire[i]) <= Beats
    BY <1>1, <1>3, <1>4, <2>1, <2>4 DEF WireInv
  <2>6. \A b \in 1 .. Len(wire[i]) : wire[i][b] = Whole(r)[b]
    <3> SUFFICES ASSUME NEW b \in 1 .. Len(wire[i])
                 PROVE  wire[i][b] = Whole(r)[b]
      OBVIOUS
    <3>1. b \in 1 .. Beats
      BY <1>3, <2>1, <2>5
    <3>2. wire[i][b] = [record |-> fetched[i], beat |-> b]
      BY <1>1 DEF WireInv
    <3> QED
      BY <2>2, <2>3, <3>1, <3>2
  <2>7. wire[i] = SubSeq(Whole(r), 1, Len(wire[i]))
    BY <2>1, <2>3, <2>5, <2>6, Beginning
  <2>8. i < Len(wire) => Len(wire[i]) = Beats
    BY <1>2, <2>4
  <2> QED
    BY <2>2, <2>7, <2>8
<1>6. \A k \in 1 .. Queued : QueuedRecord(k) = fetched[Len(fetched) - Queued + k]
  BY <1>1 DEF QueueInv, Popped
<1> QED
  BY <1>5, <1>6 DEF SentAsFetched

\* The payload on the wire is what was fetched: a whole slot in each frame, in the
\* order of the fetches, with no slot lost or sent twice, and what is still in the
\* ring follows on.  Nothing is supposed of the answers of the memories or the MAC.
THEOREM FramesAreSentAsFetched == Spec => []SentAsFetched
<1>1. Spec => []PathInv
  BY PathInvariance
<1>2. PathInv => SentAsFetched
  BY PathIsSentAsFetched
<1> QED
  BY <1>1, <1>2, PTL

-----------------------------------------------------------------------------
(* What the batches fetch. *)

\* What the driver and the histories are while a cycle goes by.
DriverWaits == UNCHANGED <<caller, region, proposed, promised, trampled>>

\* A record that is fetched is read from the region and goes behind the others.
LEMMA BatchIs ==
  ASSUME PathInv, NEW c, CommandOK(c), NEW e, Cycle(c, e)
  PROVE  /\ Len(fetched) \in Nat /\ reader.index \in Nat /\ reader.count \in Nat
         /\ proposed \in Nat /\ caller.count \in Nat
         /\ \A i \in 1 .. Len(fetched) : fetched[i] \in Nat /\ fetched'[i] = fetched[i]
         /\ \A i \in 0 .. Region - 1 : region[i] \in Nat
         /\ reader.run => reader.count >= 1 /\ reader.index + reader.count <= Region
         /\ reader.state = "COMMIT_SLOT" =>
              /\ reader.run /\ Len(fetched') = Len(fetched) + 1
              /\ fetched'[Len(fetched) + 1] = slots[reader.slot]
              /\ reader'.index = reader.index + 1 /\ reader'.count = reader.count - 1
              /\ reader'.run <=> reader.count # 1
         /\ reader.state # "COMMIT_SLOT" => fetched' = fetched
         /\ reader.state # "COMMIT_SLOT" /\ reader'.run /\ c # StartBatch =>
              reader.run /\ reader'.index = reader.index /\ reader'.count = reader.count
         /\ reader.state # "COMMIT_SLOT" /\ ~reader'.run /\ reader'.done /\ ~reader'.error =>
              ~reader.run /\ reader.done /\ ~reader.error
<1>1. /\ RegistersOK /\ HostOK /\ ReaderInv /\ Reader(c, e)
  BY DEF PathInv, Cycle
<1>2. /\ reader.index \in Nat /\ reader.count \in Nat /\ proposed \in Nat
      /\ caller.count \in Nat /\ \A i \in 0 .. Region - 1 : region[i] \in Nat
  <2>1. reader.index \in Nat /\ reader.count \in Nat
    BY <1>1, ProposalPathAssumption DEF RegistersOK, ReaderType
  <2>2. proposed \in Nat /\ caller.count \in Nat /\ \A i \in 0 .. Region - 1 : region[i] \in Nat
    BY <1>1, ProposalPathAssumption DEF HostOK
  <2> QED
    BY <2>1, <2>2
<1>3. /\ Len(fetched) \in Nat
      /\ \A i \in 1 .. Len(fetched) : fetched[i] \in Nat /\ fetched'[i] = fetched[i]
  BY <1>1, FetchedIs DEF HostOK
<1>4. reader.run => reader.count >= 1 /\ reader.index + reader.count <= Region
  BY <1>1 DEF ReaderInv
<1>5. ASSUME reader.state = "COMMIT_SLOT"
      PROVE  /\ reader.run /\ Len(fetched') = Len(fetched) + 1
             /\ fetched'[Len(fetched) + 1] = slots[reader.slot]
             /\ reader'.index = reader.index + 1 /\ reader'.count = reader.count - 1
             /\ reader'.run <=> reader.count # 1
  <2>1. /\ reader.run
        /\ reader'.index = reader.index + 1 /\ reader'.count = reader.count - 1
        /\ reader'.run <=> reader.count # 1
    BY <1>1, <1>5, ReaderCommits
  <2>2. Len(fetched') = Len(fetched) + 1 /\ fetched'[Len(fetched) + 1] = slots[reader.slot]
    BY <1>1, <1>5, FetchedIs
  <2> QED
    BY <2>1, <2>2
<1>6. ASSUME reader.state # "COMMIT_SLOT"
      PROVE  /\ fetched' = fetched
             /\ reader'.run /\ c # StartBatch =>
                  reader.run /\ reader'.index = reader.index /\ reader'.count = reader.count
             /\ ~reader'.run /\ reader'.done /\ ~reader'.error =>
                  ~reader.run /\ reader.done /\ ~reader.error
  <2>1. /\ fetched' = fetched
        /\ reader.run => BatchGoesOn
        /\ ~reader.run /\ c # StartBatch => /\ ~reader'.run /\ reader'.done = reader.done
                                            /\ reader'.error = reader.error
        /\ ~reader.run /\ c = StartBatch => reader'.run
    BY <1>1, <1>6, ReaderMoves
  <2> QED
    BY <2>1 DEF BatchGoesOn
<1> QED
  BY <1>2, <1>3, <1>4, <1>5, <1>6

\* A call that waits sees its batch through.
LEMMA BatchStep ==
  ASSUME PathInv, CallRegion, BatchInv, LoadInv, NEW e, Cycle(NoCommand, e), DriverWaits
  PROVE  BatchInv'
<1>1. CommandOK(NoCommand) /\ NoCommand # StartBatch
  BY DEF CommandOK, NoCommand, StartBatch
<1>2. PICK f \in Nat, n \in Nat, m \in Nat, p \in Nat, k \in Nat :
        /\ f = Len(fetched) /\ n = reader.index /\ m = reader.count /\ p = proposed
        /\ k = caller.count
  <2>1. /\ Len(fetched) \in Nat /\ reader.index \in Nat /\ reader.count \in Nat
        /\ proposed \in Nat /\ caller.count \in Nat
    BY <1>1, BatchIs
  <2> QED
    BY <2>1, Zenon
<1>3. caller' = caller /\ region' = region /\ proposed' = proposed
  BY DEF DriverWaits
<1> DEFINE Ends(w, q) == q <= Len(w) /\ \A j \in 1 .. q : w[Len(w) - q + j] = p - k + j
<1>4. CASE reader.state # "COMMIT_SLOT"
  <2>1. /\ fetched' = fetched
        /\ reader'.run =>
              reader.run /\ reader'.index = reader.index /\ reader'.count = reader.count
        /\ ~reader'.run /\ reader'.done /\ ~reader'.error =>
              ~reader.run /\ reader.done /\ ~reader.error
    BY <1>1, <1>4, BatchIs
  <2>2. reader'.run => ~reader'.done
    <3>1. ReaderInv'
      BY <1>1, CycleStep DEF PathInv
    <3> QED
      BY <3>1 DEF ReaderInv
  <2> QED
    BY <1>3, <2>1, <2>2 DEF BatchInv, Fetched
<1>5. CASE reader.state = "COMMIT_SLOT"
  <2>1. /\ reader.run /\ Len(fetched') = f + 1
        /\ fetched'[f + 1] = slots[reader.slot]
        /\ reader'.index = n + 1 /\ reader'.count = m - 1
        /\ reader'.run <=> m # 1
        /\ m >= 1 /\ n + m <= Region
        /\ \A i \in 1 .. f : fetched'[i] = fetched[i]
    BY <1>1, <1>2, <1>5, BatchIs
  <2>2. caller.at # "after"
    BY <2>1 DEF PathInv, CallerInv
  <2>3. ASSUME caller.at = "poll"
        PROVE  n + m = k /\ Ends(fetched', n + 1)
    <3>1. n + m = k /\ Fetched(n)
      BY <1>2, <2>1, <2>3 DEF BatchInv
    <3>2. slots[reader.slot] = p - k + (n + 1)
      <4>1. n \in 0 .. k - 1
        BY <2>1, <3>1
      <4>2. region[n] = p - k + n + 1
        BY <1>2, <2>3, <4>1 DEF CallRegion
      <4>3. slots[reader.slot] = region[n]
        BY <1>2, <1>5, <2>3 DEF LoadInv
      <4> QED
        BY <4>2, <4>3
    <3>3. n <= f /\ \A j \in 1 .. n : fetched[f - n + j] = p - k + j
      BY <1>2, <3>1 DEF Fetched
    <3>4. ASSUME NEW j \in 1 .. n + 1
          PROVE  fetched'[(f + 1) - (n + 1) + j] = p - k + j
      <4>1. CASE j = n + 1
        <5>1. (f + 1) - (n + 1) + j = f + 1
          BY <4>1
        <5> QED
          BY <2>1, <3>2, <4>1, <5>1
      <4>2. CASE j # n + 1
        <5>1. PICK i \in 1 .. f : i = f - n + j
          BY <3>3, <4>2
        <5>2. (f + 1) - (n + 1) + j = i /\ j \in 1 .. n
          BY <4>2, <5>1
        <5> QED
          BY <2>1, <3>3, <5>1, <5>2
      <4> QED
        BY <4>1, <4>2
    <3>5. n + 1 <= f + 1
      BY <3>3
    <3> QED
      BY <2>1, <3>1, <3>4, <3>5
  <2> HIDE DEF Ends
  <2>4. caller.at = "poll" /\ reader'.run =>
          reader'.index + reader'.count = k /\ Ends(fetched', reader'.index)
    BY <2>1, <2>3
  <2>5. caller.at = "poll" /\ ~reader'.run => Ends(fetched', k)
    BY <2>1, <2>3
  <2>6. reader'.run => ~reader'.done
    BY <1>1, <1>5, ReaderCommits DEF PathInv, Cycle
  <2> QED
    BY <1>2, <1>3, <2>2, <2>4, <2>5, <2>6 DEF BatchInv, Fetched, Ends
<1> QED
  BY <1>4, <1>5

\* What is being fetched is what the region holds.
LEMMA LoadStep ==
  ASSUME PathInv, NEW c, CommandOK(c), NEW e, Cycle(c, e), region' = region
  PROVE  reader'.state = "COMMIT_SLOT" => slots'[reader'.slot] = region'[reader'.index]
<1> SUFFICES ASSUME reader'.state = "COMMIT_SLOT"
             PROVE  slots'[reader'.slot] = region[reader'.index]
  OBVIOUS
<1>1. RegistersOK /\ HostOK /\ ReaderInv /\ Reader(c, e)
  BY DEF PathInv, Cycle
<1>2. reader.state # "COMMIT_SLOT"
  BY <1>1, ReaderCommits
<1>3. /\ reader.state = "WAIT_DMA" /\ reader'.slot = reader.slot
      /\ slots' = [slots EXCEPT ![reader.slot] = region[reader.index]]
      /\ reader'.run
  BY <1>1, <1>2, ReaderMoves DEF FetchGoesOn
<1>4. reader.run
  BY <1>1, <1>3 DEF ReaderInv
<1>5. reader'.index = reader.index
  BY <1>1, <1>2, <1>3, <1>4, ReaderMoves DEF BatchGoesOn
<1>6. reader.slot \in 0 .. Slots - 1 /\ slots \in [0 .. Slots - 1 -> Nat]
  BY <1>1 DEF RegistersOK, ReaderType
<1> QED
  BY <1>3, <1>5, <1>6

\* A record goes behind smaller ones.
LEMMA OrderedStep ==
  ASSUME PathInv, LoadInv, OrderedInv, NEW e, Cycle(NoCommand, e), DriverWaits
  PROVE  OrderedInv'
<1> SUFFICES ASSUME ~trampled
             PROVE  OrderedInv'
  BY DEF OrderedInv, DriverWaits
<1>1. CommandOK(NoCommand) /\ NoCommand # StartBatch
  BY DEF CommandOK, NoCommand, StartBatch
<1>2. PICK f \in Nat, n \in Nat, m \in Nat, p \in Nat :
        f = Len(fetched) /\ n = reader.index /\ m = reader.count /\ p = proposed
  <2>1. /\ Len(fetched) \in Nat /\ reader.index \in Nat /\ reader.count \in Nat
        /\ proposed \in Nat
    BY <1>1, BatchIs
  <2> QED
    BY <2>1, Zenon
<1>3. /\ caller' = caller /\ region' = region /\ proposed' = proposed /\ trampled' = trampled
  BY DEF DriverWaits
<1>4. /\ \A i, j \in 1 .. f : i < j => fetched[i] < fetched[j]
      /\ \A i \in 1 .. f : fetched[i] <= p
      /\ reader.run =>
           /\ \A i \in n .. n + m - 1 : region[i] <= p
           /\ \A i \in n .. n + m - 1, j \in 1 .. f : fetched[j] < region[i]
           /\ \A i, j \in n .. n + m - 1 : i < j => region[i] < region[j]
  BY <1>2 DEF OrderedInv, InBatch
<1>5. caller.at \in {"before", "submit", "count", "start"} =>
        /\ ~reader.run
        /\ \A i \in 1 .. Len(fetched) : fetched[i] <= proposed - caller.count
  BY DEF OrderedInv
<1>6. CASE reader.state # "COMMIT_SLOT"
  <2>1. /\ fetched' = fetched
        /\ reader'.run =>
              reader.run /\ reader'.index = reader.index /\ reader'.count = reader.count
    BY <1>1, <1>6, BatchIs
  <2> QED
    BY <1>3, <2>1 DEF OrderedInv, InBatch
<1>7. CASE reader.state = "COMMIT_SLOT"
  <2>1. /\ reader.run /\ Len(fetched') = f + 1
        /\ fetched'[f + 1] = slots[reader.slot]
        /\ reader'.index = n + 1 /\ reader'.count = m - 1
        /\ m >= 1 /\ n + m <= Region
        /\ \A i \in 1 .. f : fetched'[i] = fetched[i]
    BY <1>1, <1>2, <1>7, BatchIs
  <2>2. slots[reader.slot] = region[n]
    BY <1>2, <1>7 DEF LoadInv
  <2>3. n \in n .. n + m - 1
    BY <2>1
  <2>4. \A i \in 1 .. f + 1 : fetched'[i] <= p
    <3> SUFFICES ASSUME NEW i \in 1 .. f + 1
                 PROVE  fetched'[i] <= p
      OBVIOUS
    <3>1. CASE i = f + 1
      BY <1>4, <2>1, <2>2, <2>3, <3>1
    <3>2. CASE i \in 1 .. f
      BY <1>4, <2>1, <3>2
    <3> QED
      BY <3>1, <3>2
  <2>5. \A i, j \in 1 .. f + 1 : i < j => fetched'[i] < fetched'[j]
    <3> SUFFICES ASSUME NEW i \in 1 .. f + 1, NEW j \in 1 .. f + 1, i < j
                 PROVE  fetched'[i] < fetched'[j]
      OBVIOUS
    <3>1. i \in 1 .. f
      OBVIOUS
    <3>2. CASE j = f + 1
      BY <1>4, <2>1, <2>2, <2>3, <3>1, <3>2
    <3>3. CASE j \in 1 .. f
      BY <1>4, <2>1, <3>1, <3>3
    <3> QED
      BY <3>2, <3>3
  <2>6. \A i \in n + 1 .. (n + 1) + (m - 1) - 1 : i \in n .. n + m - 1 /\ n < i
    BY <2>1
  <2>7. \A i \in n + 1 .. (n + 1) + (m - 1) - 1 : region[i] <= p
    BY <1>4, <2>1, <2>6
  <2>8. ASSUME NEW i \in n + 1 .. (n + 1) + (m - 1) - 1, NEW j \in 1 .. f + 1
        PROVE  fetched'[j] < region[i]
    <3>1. i \in n .. n + m - 1 /\ n < i
      BY <2>6
    <3>2. CASE j = f + 1
      BY <1>4, <2>1, <2>2, <2>3, <3>1, <3>2
    <3>3. CASE j \in 1 .. f
      BY <1>4, <2>1, <3>1, <3>3
    <3> QED
      BY <3>2, <3>3
  <2>9. \A i, j \in n + 1 .. (n + 1) + (m - 1) - 1 : i < j => region[i] < region[j]
    BY <1>4, <2>1, <2>6
  <2>10. caller.at \notin {"before", "submit", "count", "start"}
    BY <1>5, <2>1
  <2> QED
    BY <1>2, <1>3, <2>1, <2>4, <2>5, <2>7, <2>8, <2>9, <2>10 DEF OrderedInv, InBatch
<1> QED
  BY <1>6, <1>7

\* What was fetched stays so.
LEMMA PromiseStep ==
  ASSUME PathInv, PromiseInv, NEW c, CommandOK(c), NEW e, Cycle(c, e), promised' = promised
  PROVE  PromiseInv'
<1>1. /\ \A i \in 1 .. Len(fetched) : fetched'[i] = fetched[i]
      /\ Len(fetched) \in Nat /\ Len(fetched') \in Nat /\ Len(fetched') >= Len(fetched)
  BY FetchedIs DEF PathInv, Cycle
<1>2. 1 .. Len(fetched) \subseteq 1 .. Len(fetched')
  BY <1>1
<1> QED
  BY <1>1, <1>2, Zenon DEF PromiseInv

LEMMA InitFetch == Init => FetchInv
<1> SUFFICES ASSUME Init
             PROVE  FetchInv
  OBVIOUS
<1>1. caller.at = "idle" /\ ~reader.run /\ reader.state = "IDLE" /\ promised = {}
  BY DEF Init, IdleCaller
<1>2. Len(fetched) = 0
  BY DEF Init
<1>3. CallRegion /\ BatchInv /\ LoadInv /\ PromiseInv
  BY <1>1 DEF CallRegion, BatchInv, LoadInv, PromiseInv
<1>4. OrderedInv
  BY <1>1, <1>2 DEF OrderedInv
<1> QED
  BY <1>3, <1>4 DEF FetchInv

\* A clock cycle.
LEMMA ClockFetches ==
  ASSUME PathInv, FetchInv, NEW e, Tick(e)
  PROVE  FetchInv'
<1>1. Cycle(NoCommand, e) /\ DriverWaits
  BY DEF Tick, DriverWaits
<1>2. CommandOK(NoCommand)
  BY DEF CommandOK
<1>3. /\ caller' = caller /\ region' = region /\ proposed' = proposed /\ promised' = promised
      /\ trampled' = trampled
  BY <1>1 DEF DriverWaits
<1>4. CallRegion'
  BY <1>3 DEF FetchInv, CallRegion
<1>5. BatchInv'
  BY <1>1, BatchStep DEF FetchInv
<1>6. LoadInv'
  BY <1>1, <1>2, <1>3, LoadStep DEF LoadInv
<1>7. OrderedInv'
  BY <1>1, OrderedStep DEF FetchInv
<1>8. PromiseInv'
  BY <1>1, <1>2, <1>3, PromiseStep DEF FetchInv
<1> QED
  BY <1>4, <1>5, <1>6, <1>7, <1>8 DEF FetchInv

\* The writes of a batch.
LEMMA WritesFetch ==
  ASSUME PathInv, FetchInv, NEW e, WriteBatch(e)
  PROVE  FetchInv'
<1>1. /\ RegistersOK /\ HostOK /\ ReaderInv /\ CallerInv
      /\ CallRegion /\ BatchInv /\ LoadInv /\ OrderedInv /\ PromiseInv
  BY DEF PathInv, FetchInv
<1>2. /\ region' = region /\ proposed' = proposed /\ promised' = promised
      /\ trampled' = trampled
  BY DEF WriteBatch
<1>3. PICK c : /\ CommandOK(c) /\ Cycle(c, e)
               /\ \/ caller.at = "count" /\ c = WriteCount(caller.count) /\ Goto("start")
                  \/ /\ caller.at = "start" /\ c = StartBatch
                     /\ Goto("poll") \/ Raise
  BY <1>1, Commands DEF WriteBatch
<1>4. ~reader.run /\ reader.state # "COMMIT_SLOT" /\ Reader(c, e)
  BY <1>1, <1>3 DEF CallerInv, ReaderInv, Cycle
<1>5. /\ fetched' = fetched /\ slots' \in [0 .. Slots - 1 -> Nat]
      /\ reader'.state = "IDLE"
      /\ c # StartBatch => ~reader'.run
      /\ c = StartBatch => /\ reader'.run /\ ~reader'.done
                           /\ reader'.index = 0 /\ reader'.count = reader.count
  BY <1>1, <1>3, <1>4, ReaderMoves
<1>6. /\ caller'.at \in {"start", "poll", "idle"}
      /\ caller'.at # "idle" => caller'.count = caller.count
      /\ caller'.at = "start" => c # StartBatch
      /\ caller'.at = "poll" => c = StartBatch
      /\ c # StartBatch => caller'.at = "start"
      /\ c = StartBatch => caller.at = "start" /\ caller'.at \in {"poll", "idle"}
  <2>1. caller \in CallerType
    BY <1>1 DEF HostOK, CallerType
  <2>2. CASE c = WriteCount(caller.count) /\ Goto("start")
    <3>1. c # StartBatch
      BY <2>2 DEF WriteCount, StartBatch
    <3>2. caller'.at = "start" /\ caller'.count = caller.count
      BY <2>1, <2>2, CallerGoes DEF Goto
    <3> QED
      BY <3>1, <3>2
  <2>3. CASE caller.at = "start" /\ c = StartBatch /\ Goto("poll")
    <3>1. caller'.at = "poll" /\ caller'.count = caller.count
      BY <2>1, <2>3, CallerGoes DEF Goto
    <3> QED
      BY <2>3, <3>1
  <2>4. CASE caller.at = "start" /\ c = StartBatch /\ Raise
    <3>1. caller'.at = "idle"
      BY <2>4 DEF Raise, IdleCaller
    <3> QED
      BY <2>4, <3>1
  <2> QED
    BY <1>3, <2>2, <2>3, <2>4
<1>7. PICK k \in Nat, p \in Nat, f \in Nat :
        k = caller.count /\ p = proposed /\ f = Len(fetched)
  <2>1. caller.count \in Nat /\ proposed \in Nat /\ Len(fetched) \in Nat
    BY <1>3, BatchIs
  <2> QED
    BY <2>1, Zenon
<1>8. caller.at # "idle" /\ (c = StartBatch => reader.count = k)
  BY <1>1, <1>3, <1>6, <1>7 DEF CallerInv
<1>9. \A i \in 0 .. k - 1 : region[i] = p - k + i + 1
  BY <1>1, <1>7, <1>8 DEF CallRegion
<1>10. CallRegion'
  BY <1>1, <1>2, <1>6, <1>8 DEF CallRegion
<1>11. BatchInv'
  BY <1>5, <1>6, <1>7, <1>8 DEF BatchInv, Fetched
<1>12. LoadInv'
  BY <1>5 DEF LoadInv
<1>13. OrderedInv'
  <2> SUFFICES ASSUME ~trampled
               PROVE  OrderedInv'
    BY <1>2 DEF OrderedInv
  <2>1. /\ \A i, j \in 1 .. f : i < j => fetched[i] < fetched[j]
        /\ \A i \in 1 .. f : fetched[i] <= p
        /\ \A i \in 1 .. f : fetched[i] <= p - k
    BY <1>1, <1>3, <1>7 DEF OrderedInv
  <2>2. ASSUME c = StartBatch
        PROVE  /\ \A i \in 0 .. k - 1 : region[i] <= p
               /\ \A i \in 0 .. k - 1, j \in 1 .. f : fetched[j] < region[i]
               /\ \A i, j \in 0 .. k - 1 : i < j => region[i] < region[j]
    <3>1. \A j \in 1 .. f : fetched[j] \in Nat
      BY <1>1, <1>7 DEF HostOK
    <3> QED
      BY <1>9, <2>1, <3>1
  <2>3. CASE c = StartBatch
    <3>1. \A i : i \in 0 .. k - 1 <=> i \in 0 .. 0 + k - 1
      OBVIOUS
    <3> QED
      BY <1>2, <1>5, <1>6, <1>7, <1>8, <2>1, <2>2, <2>3 DEF OrderedInv, InBatch
  <2>4. CASE c # StartBatch
    <3>1. ~reader'.run /\ caller'.at = "start" /\ caller'.count = k
      BY <1>5, <1>6, <1>7, <2>4
    <3> QED
      BY <1>2, <1>5, <1>7, <2>1, <3>1 DEF OrderedInv
  <2> QED
    BY <2>3, <2>4
<1>14. PromiseInv'
  BY <1>1, <1>2, <1>3, PromiseStep
<1> QED
  BY <1>10, <1>11, <1>12, <1>13, <1>14 DEF FetchInv

LEMMA NextFetch == PathInv /\ FetchInv /\ [Next]_vars => FetchInv'
<1> SUFFICES ASSUME PathInv, FetchInv, [Next]_vars
             PROVE  FetchInv'
  OBVIOUS
<1>1. /\ RegistersOK /\ HostOK /\ ReaderInv /\ CallerInv
      /\ CallRegion /\ BatchInv /\ LoadInv /\ OrderedInv /\ PromiseInv
  BY DEF PathInv, FetchInv
<1>2. PICK k \in Nat, p \in Nat, f \in Nat :
        k = caller.count /\ p = proposed /\ f = Len(fetched)
  <2>1. caller.count \in Nat /\ proposed \in Nat /\ Len(fetched) \in Nat
    BY <1>1, ProposalPathAssumption DEF HostOK
  <2> QED
    BY <2>1, Zenon
<1>3. CASE Clock
  BY <1>3, ClockFetches DEF Clock
<1>4. ASSUME NEW n \in 1 .. Region, NEW wait \in BOOLEAN, Propose(n, wait)
      PROVE  FetchInv'
  <2>1. /\ caller' = [at |-> "before", count |-> n, wait |-> wait, before |-> 0]
        /\ region' = [i \in DOMAIN region |-> IF i < n THEN p + i + 1 ELSE region[i]]
        /\ proposed' = p + n /\ promised' = promised
        /\ trampled' = (trampled \/ reader.run)
        /\ reader' = reader /\ slots' = slots /\ fetched' = fetched
    BY <1>2, <1>4 DEF Propose, hardware, buffer
  <2>2. /\ caller'.at = "before" /\ caller'.count = n
    BY <2>1
  <2>3. CallRegion'
    <3>1. DOMAIN region = 0 .. Region - 1
      BY <1>1 DEF HostOK
    <3>2. \A i \in 0 .. n - 1 : region'[i] = p + n - n + i + 1
      BY <2>1, <3>1, ProposalPathAssumption
    <3> QED
      BY <2>1, <2>2, <3>2 DEF CallRegion
  <2>4. BatchInv'
    BY <2>2 DEF BatchInv
  <2>5. LoadInv'
    BY <1>1, <2>1, <2>2 DEF LoadInv, ReaderInv
  <2>6. OrderedInv'
    <3> SUFFICES ASSUME ~trampled, ~reader.run
                 PROVE  OrderedInv'
      BY <2>1 DEF OrderedInv
    <3>1. /\ \A i, j \in 1 .. f : i < j => fetched[i] < fetched[j]
          /\ \A i \in 1 .. f : fetched[i] <= p /\ fetched[i] \in Nat
      BY <1>1, <1>2 DEF OrderedInv, HostOK
    <3>2. \A i \in 1 .. f : fetched[i] <= p + n /\ fetched[i] <= p + n - n
      BY <3>1
    <3> QED
      BY <1>2, <2>1, <2>2, <3>1, <3>2 DEF OrderedInv
  <2>7. PromiseInv'
    BY <1>1, <2>1 DEF PromiseInv
  <2> QED
    BY <2>3, <2>4, <2>5, <2>6, <2>7 DEF FetchInv
<1>5. CASE ReadBefore \/ Submit \/ WaitDone \/ ReadAfter
  <2>1. /\ region' = region /\ proposed' = proposed /\ trampled' = trampled
        /\ reader' = reader /\ slots' = slots /\ fetched' = fetched
    BY <1>5 DEF ReadBefore, Submit, WaitDone, ReadAfter, hardware, buffer
  <2>2. /\ caller'.at \in {"idle", "submit", "count", "after"}
        /\ caller'.at # "idle" => caller.at # "idle" /\ caller'.count = caller.count
        /\ caller'.at \in {"submit", "count"} => caller.at \in {"before", "submit"}
        /\ caller'.at = "after" => caller.at = "poll" /\ reader.done /\ ~reader.error
    <3>1. caller \in CallerType
      BY <1>1 DEF HostOK, CallerType
    <3>2. CASE Raise
      BY <3>2 DEF Raise, IdleCaller
    <3>3. CASE ReadBefore
      <4>1. caller.at = "before"
            /\ caller' = [caller EXCEPT !.at = "submit", !.before = ReadEntryCounter]
        BY <3>3 DEF ReadBefore
      <4> QED
        BY <3>1, <4>1 DEF CallerType
    <3>4. CASE Submit /\ Goto("count")
      <4>1. caller'.at = "count" /\ caller'.count = caller.count /\ caller.at = "submit"
        BY <3>1, <3>4, CallerGoes DEF Submit, Goto
      <4> QED
        BY <4>1
    <3>5. CASE WaitDone /\ reader.done /\ ~reader.error /\ Goto("after")
      <4>1. caller'.at = "after" /\ caller'.count = caller.count /\ caller.at = "poll"
        BY <3>1, <3>5, CallerGoes DEF WaitDone, Goto
      <4> QED
        BY <3>5, <4>1
    <3> QED
      BY <1>5, <3>2, <3>3, <3>4, <3>5 DEF Submit, WaitDone, ReadAfter, ReadStatus
  <2>3. CallRegion'
    BY <1>1, <2>1, <2>2 DEF CallRegion
  <2>4. BatchInv'
    BY <1>1, <2>1, <2>2 DEF BatchInv, Fetched
  <2>5. LoadInv'
    BY <1>1, <2>1, <2>2 DEF LoadInv
  <2>6. OrderedInv'
    BY <1>1, <2>1, <2>2 DEF OrderedInv, InBatch
  <2>7. PromiseInv'
    <3>1. CASE promised' = promised
      BY <1>1, <2>1, <3>1 DEF PromiseInv
    <3>2. CASE caller.at = "after" /\ promised' = promised \cup (p - k + 1 .. p)
      <4> SUFFICES ASSUME NEW q \in p - k + 1 .. p
                   PROVE  \E i \in 1 .. f : fetched[i] = q
        BY <1>1, <1>2, <2>1, <3>2 DEF PromiseInv
      <4>1. k <= f /\ \A j \in 1 .. k : fetched[f - k + j] = p - k + j
        BY <1>1, <1>2, <3>2 DEF BatchInv, Fetched
      <4>2. PICK j \in 1 .. k : p - k + j = q
        <5>1. q - (p - k) \in 1 .. k /\ p - k + (q - (p - k)) = q
          OBVIOUS
        <5> QED
          BY <5>1
      <4>3. f - k + j \in 1 .. f
        BY <4>1
      <4> QED
        BY <4>1, <4>2, <4>3, Zenon
    <3> QED
      BY <1>2, <1>5, <3>1, <3>2 DEF ReadBefore, Submit, WaitDone, ReadAfter
  <2> QED
    BY <2>3, <2>4, <2>5, <2>6, <2>7 DEF FetchInv
<1>6. CASE Writes
  BY <1>6, WritesFetch DEF Writes
<1>7. CASE UNCHANGED vars
  <2>1. /\ caller' = caller /\ region' = region /\ proposed' = proposed
        /\ promised' = promised /\ trampled' = trampled
        /\ reader' = reader /\ slots' = slots /\ fetched' = fetched
    BY <1>7 DEF vars, hardware, buffer
  <2> QED
    BY <1>1, <2>1
    DEF FetchInv, CallRegion, BatchInv, Fetched, LoadInv, OrderedInv, InBatch, PromiseInv
<1> QED
  BY <1>3, <1>4, <1>5, <1>6, <1>7 DEF Next, Driver

\* What is fetched is what was proposed, in every state.
THEOREM FetchInvariance == Spec => [](PathInv /\ FetchInv)
<1>1. Init => PathInv /\ FetchInv
  BY InitPath, InitFetch
<1>2. (PathInv /\ FetchInv) /\ [Next]_vars => (PathInv /\ FetchInv)'
  BY NextPath, NextFetch
<1> QED
  BY <1>1, <1>2, PTL DEF Spec

\* Whatever was fetched is on the wire, in the transmitter's register or in the ring.
LEMMA FetchedAreOnTheirWay ==
  ASSUME PathInv, NEW i \in 1 .. Len(fetched)
  PROVE  \/ \E n \in DOMAIN wire : Len(wire[n]) = Beats /\ wire[n][Beats].record = fetched[i]
         \/ tx.held.record = fetched[i]
         \/ \E k \in 1 .. Queued : QueuedRecord(k) = fetched[i]
<1>1. RegistersOK /\ HostOK /\ QueueInv /\ HeldInv /\ WireInv
  BY DEF PathInv
<1>2. PICK f \in Nat, q \in Nat, w \in Nat : f = Len(fetched) /\ q = Queued /\ w = Len(wire)
  <2>1. Len(fetched) \in Nat /\ Len(wire) \in Nat
    BY <1>1 DEF HostOK, WireInv
  <2>2. Queued \in Nat
    BY <1>1, ProposalPathAssumption DEF RegistersOK, Queued
  <2> QED
    BY <2>1, <2>2, Zenon
<1>3. Popped = f - q /\ q <= f /\ i \in 1 .. f
  BY <1>1, <1>2 DEF Popped, QueueInv
<1>4. CASE i > Popped
  <2>1. PICK k \in 1 .. q : Popped + k = i
    <3>1. i - (f - q) \in 1 .. q /\ (f - q) + (i - (f - q)) = i
      BY <1>3, <1>4
    <3> QED
      BY <1>3, <3>1
  <2>2. QueuedRecord(k) = fetched[i]
    BY <1>1, <1>2, <2>1 DEF QueueInv
  <2> QED
    BY <1>2, <2>1, <2>2
<1>5. CASE tx.held # NoBeat /\ i = TakenSlot
  <2>1. tx.held = [record |-> fetched[i], beat |-> TakenBeat]
    BY <1>1, <1>5 DEF HeldInv
  <2> QED
    BY <2>1
<1>6. CASE i <= Popped /\ ~(tx.held # NoBeat /\ i = TakenSlot)
  <2>1. i < LeavingSlot
    BY <1>3, <1>6 DEF LeavingSlot, TakenSlot
  <2>2. i \in 1 .. w /\ ~(i = w /\ tx.state = "PAYLOAD")
    <3>1. LeavingSlot = IF tx.state = "PAYLOAD" THEN w ELSE w + 1
      BY <1>1, <1>2 DEF WireInv
    <3> QED
      BY <1>3, <2>1, <3>1
  <2>3. Len(wire[i]) = Beats
    BY <1>1, <1>2, <2>2 DEF WireInv
  <2>4. Beats \in 1 .. Beats
    BY ProposalPathAssumption
  <2>5. wire[i][Beats] = [record |-> fetched[i], beat |-> Beats]
    BY <1>1, <1>2, <2>2, <2>3, <2>4 DEF WireInv
  <2>6. i \in DOMAIN wire
    BY <1>1, <1>2, <2>2 DEF WireInv
  <2> QED
    BY <2>3, <2>5, <2>6
<1> QED
  BY <1>3, <1>4, <1>5, <1>6

\* The records of a call that returned a result are on the wire or on their way to it,
\* and no record goes out twice, unless propose() had rewritten the region under a batch:
\* whatever calls that do not wait, time out or are refused come before, between or since.
THEOREM PromisesAreKept == Spec => []PromisedAreOnTheirWay
<1>1. PathInv /\ FetchInv => PromisedAreOnTheirWay
  <2> SUFFICES ASSUME PathInv, FetchInv
               PROVE  PromisedAreOnTheirWay
    OBVIOUS
  <2>1. ASSUME NEW p \in promised
        PROVE  \/ \E i \in DOMAIN wire : Len(wire[i]) = Beats /\ wire[i][Beats].record = p
               \/ tx.held.record = p
               \/ \E k \in 1 .. Queued : QueuedRecord(k) = p
    <3>1. PICK i \in 1 .. Len(fetched) : fetched[i] = p
      BY DEF FetchInv, PromiseInv
    <3> QED
      BY <3>1, FetchedAreOnTheirWay
  <2>2. ASSUME ~trampled, NEW i \in 1 .. Len(fetched) - 1
        PROVE  fetched[i] < fetched[i + 1]
    <3>1. Len(fetched) \in Nat
      BY DEF PathInv, HostOK
    <3>2. i \in 1 .. Len(fetched) /\ i + 1 \in 1 .. Len(fetched) /\ i < i + 1
      BY <3>1
    <3> QED
      BY <2>2, <3>2 DEF FetchInv, OrderedInv
  <2> QED
    BY <2>1, <2>2 DEF PromisedAreOnTheirWay
<1>2. Spec => [](PathInv /\ FetchInv)
  BY FetchInvariance
<1> QED
  BY <1>1, <1>2, PTL
=============================================================================
