------------------------------- MODULE Frames -------------------------------
(***************************************************************************)
(* A frame's way between two nodes: the transmit multiplexer that merges   *)
(* the SSR frames with those of the host (ssr_tx_mux.v), the completions   *)
(* the port returns for both, and the receive engine of the peer           *)
(* (rx_engine.v), which turns the SSR frames and its own payload into      *)
(* writes of the commit ring.                                              *)
(*                                                                         *)
(* The two nodes run on clocks of their own: a cycle of the multiplexer    *)
(* and one of the receive engine are separate actions.  Completions use no *)
(* state of the arbitration, so their handshake is an action too.          *)
(* A beat is known by its source, its frame and its place in it; only the  *)
(* first beat of an SSR frame carries the header.  Statistics counters     *)
(* other than the completions' are left out.                               *)
(***************************************************************************)
EXTENDS Naturals, Sequences

CONSTANTS
  SsrFrames,    \* the frames of tx_engine, each by its number of beats
  HostFrames,   \* the frames of the interface's DMA path, likewise
  Peer, Self,   \* the node that sends and the one whose engine receives
  WireLimit,    \* bound: beats between the port and the receive engine
  OwnPayloads,  \* bound: payloads the receiver's own tx_engine hands over
  OwnGap,       \* cycles between two of them, at least: they are a round apart
  Burst         \* frames the core is shown in OwnGap cycles from one on, at most

None == [none |-> TRUE]
Sources == {"ssr", "host"}
FramesOf(s) == IF s = "ssr" THEN SsrFrames ELSE HostFrames

\* The bound is on a round, not on the history: a round has a sub-slot of many
\* cycles for each node, in which it sends one frame, so even with two of each
\* peer, one late and one in time, most cycles of a round see no frame.
ASSUME FramesAssumption ==
  /\ \A s \in Sources : FramesOf(s) \in Seq(Nat \ {0})
  /\ Peer # Self
  /\ WireLimit \in Nat \ {0} /\ OwnPayloads \in Nat
  /\ OwnGap \in Nat /\ Burst \in Nat \ {0}
  /\ Burst < OwnGap

\* A place in what a source sends: a beat of a frame.
Place(frame, no) == [frame |-> frame, no |-> no]

IsLast(s, place) == place.no = FramesOf(s)[place.frame]

Following(s, place) ==
  IF IsLast(s, place) THEN Place(place.frame + 1, 1) ELSE Place(place.frame, place.no + 1)

Beat(s, place) ==
  [from |-> s, frame |-> place.frame, no |-> place.no, last |-> IsLast(s, place)]

VARIABLES
  todo,     \* source -> the place of its next beat
  tvalid,   \* source -> it offers the next one
  sel,      \* sel_reg: the source that holds the grant
  sent,     \* history: the beats that left through the port
  wire,     \* the beats on their way to the peer
  cpls,     \* the completions the port has not handed over, by frame
  cpl,      \* [retired: those the interface got, count, ts: o_ssr_cpl_*]
  present,  \* present_valid_reg and the parsed header
  pending,  \* local_pending_reg and the payload that waits in it
  write,    \* o_ring_wr_*
  own,      \* own payloads handed over
  since,    \* cycles since the last one, up to OwnGap
  shown,    \* frames the core was shown in these cycles, 0 when they are over
  ring,     \* history: what has been written to the commit ring
  due       \* history: what the core accepted, and the own payloads

muxVars == <<todo, tvalid, sel, sent>>
rxVars == <<present, pending, write, own, since, shown, ring, due>>
vars == <<todo, tvalid, sel, sent, wire, cpls, cpl,
          present, pending, write, own, since, shown, ring, due>>

Init ==
  /\ todo = [s \in Sources |-> Place(1, 1)]
  /\ tvalid = [s \in Sources |-> FALSE]
  /\ sel = "none"
  /\ sent = <<>> /\ wire = <<>> /\ cpls = <<>>
  /\ cpl = [retired |-> <<>>, count |-> 0, ts |-> 0]
  /\ present = None /\ pending = None /\ write = None
  /\ own = 0 /\ since = OwnGap /\ shown = 0
  /\ ring = {} /\ due = {}

-----------------------------------------------------------------------------
(* Sender: ssr_tx_mux *)

\* A source offers its next beat; it holds the offer until the beat is taken.
Offer(s) ==
  /\ ~tvalid[s] /\ todo[s].frame <= Len(FramesOf(s))
  /\ tvalid' = [tvalid EXCEPT ![s] = TRUE]
  /\ UNCHANGED <<todo, sel, sent, wire, cpls, cpl, rxVars>>

\* MUTANT: the old arbiter, the port's ready goes to both sources.
SourceReadyBoth(s, ready) == ready

\* Only the granted source sees the port's ready.
SourceReady(s, ready) == sel = s /\ ready

\* A beat leaves through the port.
Fires(ready) == sel # "none" /\ tvalid[sel] /\ ready

\* SSR wins an idle multiplexer; a grant lasts until the last beat.
Grant(ready) ==
  IF sel = "none"
  THEN IF tvalid["ssr"] THEN "ssr" ELSE IF tvalid["host"] THEN "host" ELSE "none"
  ELSE IF Fires(ready) /\ IsLast(sel, todo[sel]) THEN "none" ELSE sel

\* One cycle of the multiplexer; ready is the port's.
MuxCycle(ready) ==
  LET fired == IF Fires(ready) THEN <<Beat(sel, todo[sel])>> ELSE <<>>
      ended == IF Fires(ready) /\ IsLast(sel, todo[sel]) THEN fired ELSE <<>>
      Taken(s) == tvalid[s] /\ SourceReady(s, ready)
  IN  /\ sel' = Grant(ready)
      /\ todo' = [s \in Sources |-> IF Taken(s) THEN Following(s, todo[s]) ELSE todo[s]]
      /\ tvalid' = [s \in Sources |-> tvalid[s] /\ ~Taken(s)]
      /\ sent' = sent \o fired
      /\ wire' = wire \o fired
      /\ cpls' = cpls \o ended
      /\ UNCHANGED <<cpl, rxVars>>

\* MUTANT: the completion stream is passed on as it comes.
IsSsrPassedThrough(completion) == FALSE

\* The reserved bit of the completion's tag.
IsSsr(completion) == completion.from = "ssr"

\* The handshake of the port's oldest completion: one of an SSR frame is taken
\* at once and its timestamp kept (here: which frame's it is), one of the
\* host's follows the interface's ready.
Complete(ready) ==
  LET c == Head(cpls)
      taken == IsSsr(c) \/ ready
      forwarded == ~IsSsr(c) /\ ready
  IN  /\ cpls # <<>>
      /\ cpls' = IF taken THEN Tail(cpls) ELSE cpls
      /\ cpl' = [retired |-> IF forwarded THEN Append(cpl.retired, c.frame) ELSE cpl.retired,
                 count   |-> IF IsSsr(c) THEN cpl.count + 1 ELSE cpl.count,
                 ts      |-> IF IsSsr(c) THEN c.frame ELSE cpl.ts]
      /\ UNCHANGED <<muxVars, wire, rxVars>>

-----------------------------------------------------------------------------
(* Receiver: rx_engine *)

Entry(node, round) == [node |-> node, round |-> round]

\* The MAC's verdict on the frame and the ethertype of the beat.
FrameIsOurs(beat, bad) == beat.from = "ssr" /\ beat.no = 1 /\ ~bad

\* Stage 1: a frame is parsed from its last beat (v1: it has one).  Frames that
\* name the receiver itself are dropped too; nobody sends one here.
Parse(beats, bad) ==
  IF beats # <<>> /\ beats[1].last /\ FrameIsOurs(beats[1], bad)
  THEN Entry(Peer, beats[1].frame) ELSE None

\* The core takes the frame it is shown: the ring port is the remote's.
RemoteWrites(accepted) == present # None /\ accepted

\* What goes to the ring: an accepted frame, else the own payload of this
\* cycle, else the one that waits.
RingWrite(accepted, mine) ==
  IF RemoteWrites(accepted) THEN present
  ELSE IF mine # None THEN mine ELSE pending

\* MUTANT: the register is cleared whether or not the port is free for it.
StillPendingOneCycle(accepted, mine) ==
  IF mine # None
  THEN IF RemoteWrites(accepted) THEN mine ELSE pending
  ELSE None

\* An own payload that finds the port taken waits; one that waits stays while
\* a newer one goes first.
StillPending(accepted, mine) ==
  IF mine # None
  THEN IF RemoteWrites(accepted) THEN mine ELSE pending
  ELSE IF RemoteWrites(accepted) THEN pending ELSE None

\* One cycle: the beats that arrive (one or none), whether the MAC found the
\* frame bad, the core's verdict, and the own payload of tx_engine.
RxCycle(beats, bad, accepted, mine) ==
  /\ present' = Parse(beats, bad)
  /\ write' = RingWrite(accepted, mine)
  /\ pending' = StillPending(accepted, mine)
  /\ wire' = IF beats = <<>> THEN wire ELSE Tail(wire)
  /\ own' = IF mine = None THEN own ELSE own + 1
  /\ since' = IF mine # None THEN 1 ELSE IF since < OwnGap THEN since + 1 ELSE since
  /\ shown' = IF since' = OwnGap THEN 0
              ELSE (IF mine # None THEN 0 ELSE shown) + (IF present # None THEN 1 ELSE 0)
  /\ ring' = ring \union ({write} \ {None})
  /\ due' = due \union ({mine} \ {None}) \union (IF RemoteWrites(accepted) THEN {present} ELSE {})
  /\ UNCHANGED <<muxVars, cpls, cpl>>

\* The payloads tx_engine may hand over in this cycle.
Mine == {None} \union IF own < OwnPayloads /\ since = OwnGap THEN {Entry(Self, own + 1)} ELSE {}

\* The peers have sent what they may in the cycles that began with the last own
\* payload: the core is shown no further frame in those that are left.
BurstIsOver == shown' = Burst

Next ==
  \/ \E s \in Sources : Offer(s)
  \/ \E ready \in BOOLEAN : (ready => Len(wire) < WireLimit) /\ MuxCycle(ready)
  \/ \E ready \in BOOLEAN : Complete(ready)
  \/ \E arrives, bad, accepted \in BOOLEAN : \E mine \in Mine :
       /\ arrives => wire # <<>>
       /\ RxCycle(IF arrives THEN <<Head(wire)>> ELSE <<>>, bad, accepted, mine)
       /\ BurstIsOver => present' = None

Spec == Init /\ [][Next]_vars

-----------------------------------------------------------------------------
(* Properties *)

Precedes(p, q) == p.frame < q.frame \/ (p.frame = q.frame /\ p.no < q.no)

Beats(s) ==
  UNION {{Beat(s, Place(k, i)) : i \in 1..FramesOf(s)[k]} : k \in DOMAIN FramesOf(s)}

\* The port sees whole frames, never one inside another, and no beat that a
\* source believes taken is missing there: what left, source by source, is
\* what the source had up to where it is now, in order and each beat once (the
\* old arbiter lost beats of the source that was not selected,
\* ssr_tx_mux.v:8-17).
FramesLeaveWhole ==
  /\ \A i \in DOMAIN sent : sent[i].no > 1 =>
       /\ i > 1
       /\ sent[i - 1] = [from |-> sent[i].from, frame |-> sent[i].frame,
                         no |-> sent[i].no - 1, last |-> FALSE]
  /\ \A i, j \in DOMAIN sent :
       i < j /\ sent[i].from = sent[j].from => Precedes(sent[i], sent[j])
  /\ \A s \in Sources :
       {b \in {sent[i] : i \in DOMAIN sent} : b.from = s} =
         {b \in Beats(s) : Precedes(b, todo[s])}

\* The frames of a source whose last beats are in a sequence of beats.
Ended(s, beats) ==
  {b.frame : b \in {c \in {beats[i] : i \in DOMAIN beats} : c.from = s /\ c.last}}

\* The interface retires the descriptors of its own frames, each once and in
\* the order they left, however many SSR completions lie between them and
\* however long it is not ready; and those of the SSR frames are all counted,
\* with the timestamp of the newest (ssr_tx_mux.v:19-35).
CompletionsGoHome ==
  /\ cpl.retired = [i \in 1..Len(cpl.retired) |-> i]
  /\ 1..Len(cpl.retired) = Ended("host", sent) \ Ended("host", cpls)
  /\ 1..cpl.count = Ended("ssr", sent) \ Ended("ssr", cpls)
  /\ cpl.ts = cpl.count

\* What the core accepted, and what the node proposed itself, is in the commit
\* ring or on its way there, and nothing else is: a frame and the own payload
\* that meet at the ring's one port are both written, through the register
\* that holds one payload (rx_engine.v:139-145, 205-225).
RingGetsEveryPayload == due = ring \union ({write, pending} \ {None})
=============================================================================
