----------------------------- MODULE FramesProofs -----------------------------
(***************************************************************************)
(* Proofs about Frames, for any number of frames of any number of beats,   *)
(* any number of own payloads and any bound of the wire.                   *)
(*                                                                         *)
(* A frame stays whole because a source that is inside of one holds the    *)
(* grant, and its last beat was the last to leave.  The completions of a   *)
(* source's frames come back in the order the frames were sent in.  And    *)
(* the own payload that waits for the ring is gone before the next one is  *)
(* due: each cycle it waits is the cycle of a frame, and of the frames     *)
(* shown since it was handed over there are fewer than cycles till then.   *)
(***************************************************************************)
EXTENDS Frames, TLAPS

BeatType == [from : Sources, frame : Nat, no : Nat, last : BOOLEAN]

FrameCount(s) == Len(FramesOf(s))

\* The places of a source, the one behind its last frame included.
Places(s) ==
  {p \in [frame : 1 .. FrameCount(s) + 1, no : Nat \ {0}] :
     IF p.frame <= FrameCount(s) THEN p.no <= FramesOf(s)[p.frame] ELSE p.no = 1}

\* Where the sources are; a source inside of a frame holds the grant.
SourceInv ==
  /\ todo \in [Sources -> [frame : Nat, no : Nat]]
  /\ tvalid \in [Sources -> BOOLEAN]
  /\ sel \in Sources \cup {"none"}
  /\ sent \in Seq(BeatType)
  /\ \A s \in Sources :
       /\ todo[s] \in Places(s)
       /\ tvalid[s] => todo[s].frame <= FrameCount(s)
       /\ todo[s].no > 1 =>
            /\ sel = s /\ sent # <<>>
            /\ sent[Len(sent)] = [from |-> s, frame |-> todo[s].frame,
                                  no |-> todo[s].no - 1, last |-> FALSE]

MuxInv == SourceInv /\ FramesLeaveWhole

\* How many frames of a source have been completed.
Done(s) == IF s = "host" THEN Len(cpl.retired) ELSE cpl.count

\* The completions that wait are of the frames that have left since, in order.
CplInv ==
  /\ cpls \in Seq(BeatType)
  /\ cpl \in [retired : Seq(Nat), count : Nat, ts : Nat]
  /\ \A i \in 1 .. Len(cpls) : cpls[i].last
  /\ \A i, j \in 1 .. Len(cpls) :
       i < j /\ cpls[i].from = cpls[j].from => cpls[i].frame < cpls[j].frame
  /\ \A s \in Sources :
       /\ Done(s) < todo[s].frame
       /\ Ended(s, cpls) = Done(s) + 1 .. todo[s].frame - 1
  /\ \A i \in 1 .. Len(cpl.retired) : cpl.retired[i] = i
  /\ cpl.ts = cpl.count

\* A payload waits no longer than frames have been shown since it was handed
\* over, and a frame that is shown now belongs to the burst.
WaitInv ==
  /\ since \in 0 .. OwnGap /\ shown \in 0 .. Burst
  /\ present # None /\ since < OwnGap => shown < Burst
  /\ pending # None => since >= 1 /\ since <= shown

IInv == MuxInv /\ CplInv /\ wire \in Seq(BeatType) /\ WaitInv /\ RingGetsEveryPayload

-----------------------------------------------------------------------------
(* Places and beats *)

LEMMA FramesAre ==
  ASSUME NEW s \in Sources
  PROVE  /\ FramesOf(s) \in Seq(Nat \ {0})
         /\ FrameCount(s) \in Nat
         /\ DOMAIN FramesOf(s) = 1 .. FrameCount(s)
         /\ \A k \in 1 .. FrameCount(s) : FramesOf(s)[k] \in Nat \ {0}
<1>1. FramesOf(s) \in Seq(Nat \ {0})
  BY FramesAssumption
<1>2. PICK F \in Seq(Nat \ {0}) : FramesOf(s) = F
  BY <1>1, Zenon
<1>3. Len(F) \in Nat /\ DOMAIN F = 1 .. Len(F) /\ \A k \in 1 .. Len(F) : F[k] \in Nat \ {0}
  BY <1>2
<1> QED
  BY <1>1, <1>2, <1>3, Zenon DEF FrameCount

LEMMA PlacesAre ==
  ASSUME NEW s \in Sources, NEW p \in Places(s)
  PROVE  /\ p.frame \in Nat \ {0} /\ p.no \in Nat \ {0}
         /\ p.frame <= FrameCount(s) + 1
         /\ p = [frame |-> p.frame, no |-> p.no]
         /\ p.frame <= FrameCount(s) => p.no <= FramesOf(s)[p.frame]
         /\ ~ (p.frame <= FrameCount(s)) => p.no = 1
  BY FramesAre DEF Places

LEMMA BeatsAre ==
  ASSUME NEW s \in Sources
  PROVE  /\ \A b \in Beats(s) :
              /\ b \in BeatType /\ b.from = s
              /\ b.frame \in 1 .. FrameCount(s) /\ b.no \in 1 .. FramesOf(s)[b.frame]
              /\ b = Beat(s, Place(b.frame, b.no))
         /\ \A k \in 1 .. FrameCount(s) : \A i \in 1 .. FramesOf(s)[k] :
              Beat(s, Place(k, i)) \in Beats(s)
<1>1. ASSUME NEW b \in Beats(s)
      PROVE  /\ b \in BeatType /\ b.from = s
             /\ b.frame \in 1 .. FrameCount(s) /\ b.no \in 1 .. FramesOf(s)[b.frame]
             /\ b = Beat(s, Place(b.frame, b.no))
  <2>1. PICK k \in 1 .. FrameCount(s) : \E i \in 1 .. FramesOf(s)[k] : b = Beat(s, Place(k, i))
    BY FramesAre, Zenon DEF Beats
  <2>2. PICK i \in 1 .. FramesOf(s)[k] : b = Beat(s, Place(k, i))
    BY <2>1
  <2>3. b = [from |-> s, frame |-> k, no |-> i, last |-> i = FramesOf(s)[k]]
    BY <2>2 DEF Beat, Place, IsLast
  <2>4. b.from = s /\ b.frame = k /\ b.no = i
    BY <2>3
  <2>5. b = Beat(s, Place(b.frame, b.no))
    BY <2>2, <2>4, Zenon
  <2>6. k \in Nat /\ i \in Nat
    BY FramesAre
  <2>7. b \in BeatType
    BY <2>3, <2>6 DEF BeatType
  <2> QED
    BY <2>4, <2>5, <2>7, Zenon
<1>2. ASSUME NEW k \in 1 .. FrameCount(s), NEW i \in 1 .. FramesOf(s)[k]
      PROVE  Beat(s, Place(k, i)) \in Beats(s)
  <2>1. k \in DOMAIN FramesOf(s)
    BY FramesAre
  <2> DEFINE B(l) == {Beat(s, Place(l, j)) : j \in 1 .. FramesOf(s)[l]}
  <2>2. Beats(s) = UNION {B(l) : l \in DOMAIN FramesOf(s)}
    BY Zenon DEF Beats
  <2>3. Beat(s, Place(k, i)) \in B(k)
    BY Zenon
  <2> HIDE DEF B
  <2> QED
    BY <2>1, <2>2, <2>3
<1> QED
  BY <1>1, <1>2, Zenon

LEMMA FollowingIs ==
  ASSUME NEW s \in Sources, NEW p \in Places(s), p.frame <= FrameCount(s)
  PROVE  /\ Beat(s, p) \in Beats(s)
         /\ Beat(s, p) = [from |-> s, frame |-> p.frame, no |-> p.no, last |-> IsLast(s, p)]
         /\ Following(s, p) \in Places(s)
         /\ Following(s, p) =
              IF IsLast(s, p) THEN [frame |-> p.frame + 1, no |-> 1]
              ELSE [frame |-> p.frame, no |-> p.no + 1]
         /\ \A b \in Beats(s) :
              Precedes(b, Following(s, p)) <=> Precedes(b, p) \/ b = Beat(s, p)
<1> DEFINE F == FramesOf(s)  n == FrameCount(s)
<1>1. /\ p.frame \in 1 .. n /\ p.no \in 1 .. F[p.frame] /\ F[p.frame] \in Nat \ {0}
      /\ p = [frame |-> p.frame, no |-> p.no] /\ n \in Nat
  BY PlacesAre, FramesAre
<1>2. Beat(s, p) = [from |-> s, frame |-> p.frame, no |-> p.no, last |-> IsLast(s, p)]
  BY DEF Beat
<1>3. Beat(s, Place(p.frame, p.no)) \in Beats(s)
  BY <1>1, BeatsAre, Zenon
<1>4. Beat(s, p) \in Beats(s)
  BY <1>1, <1>3, Zenon DEF Place
<1>5. Following(s, p) =
        IF IsLast(s, p) THEN [frame |-> p.frame + 1, no |-> 1]
        ELSE [frame |-> p.frame, no |-> p.no + 1]
  BY DEF Following, Place
<1>6. Following(s, p) \in Places(s)
  <2>1. CASE IsLast(s, p)
    <3>1. Following(s, p) = [frame |-> p.frame + 1, no |-> 1]
      BY <1>5, <2>1, Zenon
    <3>2. p.frame + 1 <= n => 1 <= F[p.frame + 1]
      BY <1>1, FramesAre
    <3> QED
      BY <3>1, <3>2, <1>1 DEF Places
  <2>2. CASE ~IsLast(s, p)
    <3>1. Following(s, p) = [frame |-> p.frame, no |-> p.no + 1]
      BY <1>5, <2>2, Zenon
    <3>2. p.no + 1 <= F[p.frame]
      BY <1>1, <2>2 DEF IsLast
    <3> QED
      BY <3>1, <3>2, <1>1 DEF Places
  <2> QED
    BY <2>1, <2>2, Zenon
<1>7. ASSUME NEW b \in Beats(s)
      PROVE  Precedes(b, Following(s, p)) <=> Precedes(b, p) \/ b = Beat(s, p)
  <2>1. b.frame \in 1 .. n /\ b.no \in 1 .. F[b.frame] /\ b = Beat(s, Place(b.frame, b.no))
    BY BeatsAre, Zenon
  <2>2. b = Beat(s, p) <=> b.frame = p.frame /\ b.no = p.no
    <3>1. ASSUME b = Beat(s, p) PROVE b.frame = p.frame /\ b.no = p.no
      BY <3>1, <1>2
    <3>2. ASSUME b.frame = p.frame, b.no = p.no PROVE b = Beat(s, p)
      BY <3>2, <2>1, <1>1, Zenon DEF Place
    <3> QED
      BY <3>1, <3>2, Zenon
  <2>3. CASE IsLast(s, p)
    <3>1. Following(s, p).frame = p.frame + 1 /\ Following(s, p).no = 1
      BY <1>5, <2>3
    <3>2. b.frame = p.frame => b.no <= p.no
      BY <2>1, <2>3, <1>1 DEF IsLast
    <3> QED
      BY <3>1, <3>2, <2>1, <2>2, <1>1, SMT DEF Precedes
  <2>4. CASE ~IsLast(s, p)
    <3>1. Following(s, p).frame = p.frame /\ Following(s, p).no = p.no + 1
      BY <1>5, <2>4
    <3> QED
      BY <3>1, <2>1, <2>2, <1>1, SMT DEF Precedes
  <2> QED
    BY <2>3, <2>4, Zenon
<1> QED
  BY <1>2, <1>4, <1>5, <1>6, <1>7, Zenon

-----------------------------------------------------------------------------
(* Sequences *)

LEMMA Appending ==
  ASSUME NEW S, NEW q \in Seq(S), NEW e \in S
  PROVE  /\ q \o <<e>> \in Seq(S)
         /\ Len(q \o <<e>>) = Len(q) + 1 /\ Len(q) \in Nat
         /\ \A i \in 1 .. Len(q) : (q \o <<e>>)[i] = q[i]
         /\ (q \o <<e>>)[Len(q) + 1] = e
         /\ DOMAIN q = 1 .. Len(q)
         /\ DOMAIN (q \o <<e>>) = 1 .. Len(q) + 1
  OBVIOUS

LEMMA NothingAppended ==
  ASSUME NEW S, NEW q \in Seq(S)
  PROVE  q \o <<>> = q
  OBVIOUS

LEMMA Tailing ==
  ASSUME NEW S, NEW q \in Seq(S), q # <<>>
  PROVE  /\ Tail(q) \in Seq(S) /\ Head(q) = q[1] /\ Head(q) \in S
         /\ Len(q) \in Nat \ {0} /\ Len(Tail(q)) = Len(q) - 1
         /\ \A i \in 1 .. Len(Tail(q)) : Tail(q)[i] = q[i + 1]
         /\ DOMAIN q = 1 .. Len(q)
         /\ DOMAIN Tail(q) = 1 .. Len(Tail(q))
  OBVIOUS

-----------------------------------------------------------------------------
(* What a cycle of the multiplexer does *)

\* No beat leaves: at most the grant moves, and then nobody had it.
Idles ==
  /\ sent' = sent /\ wire' = wire /\ cpls' = cpls
  /\ todo' = todo /\ tvalid' = tvalid
  /\ sel' \in Sources \cup {"none"}
  /\ sel # "none" => sel' = sel

\* A beat of the source that holds the grant leaves.
Sends ==
  /\ sel \in Sources /\ tvalid[sel]
  /\ todo' = [todo EXCEPT ![sel] = Following(sel, todo[sel])]
  /\ tvalid' = [tvalid EXCEPT ![sel] = FALSE]
  /\ sent' = sent \o <<Beat(sel, todo[sel])>>
  /\ wire' = wire \o <<Beat(sel, todo[sel])>>
  /\ cpls' = IF IsLast(sel, todo[sel]) THEN cpls \o <<Beat(sel, todo[sel])>> ELSE cpls
  /\ sel' = IF IsLast(sel, todo[sel]) THEN "none" ELSE sel

LEMMA MuxCycleIs ==
  ASSUME NEW ready \in BOOLEAN, MuxCycle(ready), SourceInv,
         wire \in Seq(BeatType), cpls \in Seq(BeatType)
  PROVE  (Idles \/ Sends) /\ UNCHANGED <<cpl, rxVars>>
<1> DEFINE Taken(s) == tvalid[s] /\ SourceReady(s, ready)
<1>1. /\ todo \in [Sources -> [frame : Nat, no : Nat]]
      /\ tvalid \in [Sources -> BOOLEAN]
      /\ sel \in Sources \cup {"none"} /\ sent \in Seq(BeatType)
  BY Zenon DEF SourceInv
<1>2. "none" \notin Sources
  BY DEF Sources
<1>3. /\ todo' = [s \in Sources |-> IF Taken(s) THEN Following(s, todo[s]) ELSE todo[s]]
      /\ tvalid' = [s \in Sources |-> tvalid[s] /\ ~Taken(s)]
      /\ sel' = Grant(ready)
      /\ UNCHANGED <<cpl, rxVars>>
  BY Zenon DEF MuxCycle
<1>4. CASE ~Fires(ready)
  <2>1. ASSUME NEW s \in Sources PROVE ~Taken(s)
    BY <1>2, <1>4 DEF Fires, SourceReady
  <2>2. sent' = sent \o <<>> /\ wire' = wire \o <<>> /\ cpls' = cpls \o <<>>
    BY <1>4, Zenon DEF MuxCycle
  <2>3. sent' = sent /\ wire' = wire /\ cpls' = cpls
    BY <2>2, <1>1, NothingAppended
  <2> HIDE DEF Taken
  <2>4. todo' = todo /\ tvalid' = tvalid
    BY <1>1, <1>3, <2>1
  <2>5. sel' \in Sources \cup {"none"} /\ (sel # "none" => sel' = sel)
    BY <1>1, <1>3, <1>4 DEF Grant, Sources
  <2> QED
    BY <2>3, <2>4, <2>5, <1>3, Zenon DEF Idles
<1>5. CASE Fires(ready)
  <2>1. sel \in Sources /\ tvalid[sel] /\ ready /\ sel # "none"
    BY <1>1, <1>5, Zenon DEF Fires
  <2>2. ASSUME NEW s \in Sources PROVE Taken(s) <=> s = sel
    BY <2>1, Zenon DEF SourceReady
  <2> HIDE DEF Taken
  <2>3. todo' = [todo EXCEPT ![sel] = Following(sel, todo[sel])]
    <3>1. ASSUME NEW s \in Sources
          PROVE  todo'[s] = IF s = sel THEN Following(s, todo[s]) ELSE todo[s]
      BY <1>3, <2>2, Zenon
    <3>2. todo' = [s \in Sources |-> todo'[s]]
      BY <1>3, Zenon
    <3> QED
      BY <3>1, <3>2, <1>1
  <2>4. tvalid' = [tvalid EXCEPT ![sel] = FALSE]
    <3>1. ASSUME NEW s \in Sources
          PROVE  tvalid'[s] = IF s = sel THEN FALSE ELSE tvalid[s]
      <4>1. tvalid'[s] = (tvalid[s] /\ ~Taken(s)) /\ tvalid[s] \in BOOLEAN
        BY <1>1, <1>3, Zenon
      <4> QED
        BY <4>1, <2>2, Zenon
    <3>2. tvalid' = [s \in Sources |-> tvalid'[s]]
      BY <1>3, Zenon
    <3> QED
      BY <3>1, <3>2, <1>1
  <2>5. /\ sent' = sent \o <<Beat(sel, todo[sel])>>
        /\ wire' = wire \o <<Beat(sel, todo[sel])>>
    BY <1>5, Zenon DEF MuxCycle
  <2>6. sel' = IF IsLast(sel, todo[sel]) THEN "none" ELSE sel
    BY <1>3, <1>5, <2>1, Zenon DEF Grant
  <2>7. cpls' = IF IsLast(sel, todo[sel]) THEN cpls \o <<Beat(sel, todo[sel])>> ELSE cpls
    <3>1. CASE IsLast(sel, todo[sel])
      BY <1>5, <3>1, Zenon DEF MuxCycle
    <3>2. CASE ~IsLast(sel, todo[sel])
      <4>1. cpls' = cpls \o <<>>
        BY <1>5, <3>2, Zenon DEF MuxCycle
      <4> QED
        BY <4>1, <3>2, NothingAppended
    <3> QED
      BY <3>1, <3>2, Zenon
  <2> QED
    BY <2>1, <2>3, <2>4, <2>5, <2>6, <2>7, <1>3, Zenon DEF Sends
<1> QED
  BY <1>4, <1>5, Zenon

-----------------------------------------------------------------------------
(* The sender *)

\* What a beat that leaves does to its source.
LEMMA SendsIs ==
  ASSUME SourceInv, Sends
  PROVE  /\ sel \in Sources
         /\ todo[sel] \in Places(sel) /\ todo[sel].frame <= FrameCount(sel)
         /\ Beat(sel, todo[sel]) \in Beats(sel)
         /\ Beat(sel, todo[sel]) \in BeatType
         /\ Beat(sel, todo[sel]) = [from |-> sel, frame |-> todo[sel].frame,
                                    no |-> todo[sel].no, last |-> IsLast(sel, todo[sel])]
         /\ todo'[sel] = Following(sel, todo[sel])
         /\ \A s \in Sources \ {sel} : todo'[s] = todo[s]
<1>1. sel \in Sources /\ tvalid[sel]
  BY Zenon DEF Sends
<1>2. todo[sel] \in Places(sel) /\ todo[sel].frame <= FrameCount(sel)
  BY <1>1, Zenon DEF SourceInv
<1>3. /\ Beat(sel, todo[sel]) \in Beats(sel)
      /\ Beat(sel, todo[sel]) = [from |-> sel, frame |-> todo[sel].frame,
                                 no |-> todo[sel].no, last |-> IsLast(sel, todo[sel])]
  BY <1>1, <1>2, FollowingIs
<1>4. Beat(sel, todo[sel]) \in BeatType
  BY <1>1, <1>3, BeatsAre, Zenon
<1>5. DOMAIN todo = Sources /\ todo' = [todo EXCEPT ![sel] = Following(sel, todo[sel])]
  BY Zenon DEF SourceInv, Sends
<1>6. todo'[sel] = Following(sel, todo[sel]) /\ \A s \in Sources \ {sel} : todo'[s] = todo[s]
  BY <1>1, <1>5
<1> QED
  BY <1>1, <1>2, <1>3, <1>4, <1>6, Zenon

LEMMA SourceIsKept ==
  ASSUME SourceInv, Sends
  PROVE  SourceInv'
<1> DEFINE p == todo[sel]  b == Beat(sel, p)
<1>1. /\ todo \in [Sources -> [frame : Nat, no : Nat]]
      /\ tvalid \in [Sources -> BOOLEAN]
      /\ sent \in Seq(BeatType)
  BY Zenon DEF SourceInv
<1>2. /\ sel \in Sources /\ p \in Places(sel) /\ p.frame <= FrameCount(sel)
      /\ b \in BeatType /\ b \in Beats(sel)
      /\ b = [from |-> sel, frame |-> p.frame, no |-> p.no, last |-> IsLast(sel, p)]
      /\ todo'[sel] = Following(sel, p)
      /\ \A s \in Sources \ {sel} : todo'[s] = todo[s]
  BY SendsIs, Zenon
<1>3. /\ Following(sel, p) \in Places(sel)
      /\ Following(sel, p) = IF IsLast(sel, p) THEN [frame |-> p.frame + 1, no |-> 1]
                             ELSE [frame |-> p.frame, no |-> p.no + 1]
      /\ p.frame \in Nat /\ p.no \in Nat
  BY <1>2, FollowingIs, PlacesAre
<1>4. /\ todo' = [todo EXCEPT ![sel] = Following(sel, p)]
      /\ tvalid' = [tvalid EXCEPT ![sel] = FALSE]
      /\ sent' = sent \o <<b>>
      /\ sel' = IF IsLast(sel, p) THEN "none" ELSE sel
  BY Zenon DEF Sends
<1>5. todo' \in [Sources -> [frame : Nat, no : Nat]]
  <2>1. Following(sel, p) \in [frame : Nat, no : Nat]
    BY <1>3
  <2> QED
    BY <2>1, <1>1, <1>4
<1>6. tvalid' \in [Sources -> BOOLEAN] /\ sel' \in Sources \cup {"none"}
  BY <1>1, <1>2, <1>4
<1>7. /\ sent' \in Seq(BeatType) /\ sent' # <<>>
      /\ sent'[Len(sent')] = b
  <2>1. sent' \in Seq(BeatType) /\ Len(sent') = Len(sent) + 1 /\ Len(sent) \in Nat
        /\ sent'[Len(sent) + 1] = b
    BY <1>1, <1>2, <1>4, Appending
  <2> QED
    BY <2>1
<1>8. ASSUME NEW s \in Sources
      PROVE  /\ todo'[s] \in Places(s)
             /\ tvalid'[s] => todo'[s].frame <= FrameCount(s)
             /\ todo'[s].no > 1 =>
                  /\ sel' = s /\ sent' # <<>>
                  /\ sent'[Len(sent')] = [from |-> s, frame |-> todo'[s].frame,
                                          no |-> todo'[s].no - 1, last |-> FALSE]
  <2>1. CASE s = sel
    <3>1. tvalid'[s] = FALSE
      BY <1>1, <1>4, <2>1
    <3>2. ASSUME todo'[s].no > 1
          PROVE  /\ sel' = s
                 /\ b = [from |-> s, frame |-> todo'[s].frame,
                         no |-> todo'[s].no - 1, last |-> FALSE]
      <4>1. ~IsLast(sel, p)
        <5>1. ASSUME IsLast(sel, p) PROVE todo'[s].no = 1
          BY <5>1, <1>2, <1>3, <2>1
        <5> QED
          BY <5>1, <3>2
      <4>2. todo'[s].frame = p.frame /\ todo'[s].no = p.no + 1
        BY <4>1, <1>2, <1>3, <2>1
      <4>3. b = [from |-> sel, frame |-> p.frame, no |-> p.no, last |-> FALSE]
        <5>1. IsLast(sel, p) = FALSE
          BY <4>1 DEF IsLast
        <5> QED
          BY <5>1, <1>2, Zenon
      <4>4. todo'[s].no - 1 = p.no
        BY <4>2, <1>3
      <4>5. b = [from |-> s, frame |-> todo'[s].frame,
                 no |-> todo'[s].no - 1, last |-> FALSE]
        BY <4>2, <4>3, <4>4, <2>1, Zenon
      <4> QED
        BY <4>1, <4>5, <1>4, <2>1, Zenon
    <3> QED
      BY <1>2, <1>3, <1>7, <3>1, <3>2, <2>1, Zenon
  <2>2. CASE s # sel
    <3>1. todo'[s] = todo[s] /\ tvalid'[s] = tvalid[s]
      BY <1>1, <1>2, <1>4, <2>2
    <3>2. /\ todo[s] \in Places(s)
          /\ tvalid[s] => todo[s].frame <= FrameCount(s)
          /\ ~ (todo[s].no > 1)
      BY <2>2, Zenon DEF SourceInv
    <3> QED
      BY <3>1, <3>2, Zenon
  <2> QED
    BY <2>1, <2>2, Zenon
<1> QED
  BY <1>5, <1>6, <1>7, <1>8, Zenon DEF SourceInv

LEMMA FramesStayWhole ==
  ASSUME MuxInv, Sends
  PROVE  FramesLeaveWhole'
<1> DEFINE p == todo[sel]  b == Beat(sel, p)  n == Len(sent)
<1>1. /\ SourceInv /\ sent \in Seq(BeatType)
      /\ p.no > 1 => /\ sent # <<>>
                     /\ sent[n] = [from |-> sel, frame |-> p.frame,
                                   no |-> p.no - 1, last |-> FALSE]
  BY Zenon DEF MuxInv, SourceInv, Sends
<1>2. /\ \A i \in DOMAIN sent : sent[i].no > 1 =>
           /\ i > 1
           /\ sent[i - 1] = [from |-> sent[i].from, frame |-> sent[i].frame,
                              no |-> sent[i].no - 1, last |-> FALSE]
      /\ \A i, j \in DOMAIN sent :
           i < j /\ sent[i].from = sent[j].from => Precedes(sent[i], sent[j])
      /\ \A s \in Sources :
           {x \in {sent[i] : i \in DOMAIN sent} : x.from = s} =
             {x \in Beats(s) : Precedes(x, todo[s])}
  BY Zenon DEF MuxInv, FramesLeaveWhole
<1>3. /\ sel \in Sources /\ p \in Places(sel) /\ p.frame <= FrameCount(sel)
      /\ b \in BeatType /\ b \in Beats(sel)
      /\ b = [from |-> sel, frame |-> p.frame, no |-> p.no, last |-> IsLast(sel, p)]
      /\ todo'[sel] = Following(sel, p)
      /\ \A s \in Sources \ {sel} : todo'[s] = todo[s]
  BY <1>1, SendsIs, Zenon
<1>4. /\ b.from = sel /\ b.frame = p.frame /\ b.no = p.no
      /\ p.frame \in Nat /\ p.no \in Nat
  BY <1>3, PlacesAre
<1>5. sent' = sent \o <<b>>
  BY Zenon DEF Sends
<1>6. /\ sent' \in Seq(BeatType) /\ n \in Nat
      /\ DOMAIN sent = 1 .. n /\ DOMAIN sent' = 1 .. n + 1
      /\ \A i \in 1 .. n : sent'[i] = sent[i]
      /\ sent'[n + 1] = b
  BY <1>1, <1>3, <1>5, Appending
<1>7. ASSUME NEW i \in DOMAIN sent', sent'[i].no > 1
      PROVE  /\ i > 1
             /\ sent'[i - 1] = [from |-> sent'[i].from, frame |-> sent'[i].frame,
                                 no |-> sent'[i].no - 1, last |-> FALSE]
  <2>1. CASE i \in 1 .. n
    <3>1. sent'[i] = sent[i] /\ sent[i].no > 1
      BY <2>1, <1>6, <1>7
    <3>2. /\ i > 1
          /\ sent[i - 1] = [from |-> sent[i].from, frame |-> sent[i].frame,
                             no |-> sent[i].no - 1, last |-> FALSE]
      BY <2>1, <3>1, <1>2, <1>6, Zenon
    <3>3. i - 1 \in 1 .. n
      BY <2>1, <3>2, <1>6
    <3>4. sent'[i - 1] = sent[i - 1]
      BY <3>3, <1>6, Zenon
    <3> QED
      BY <3>1, <3>2, <3>4, Zenon
  <2>2. CASE i = n + 1
    <3>1. p.no > 1
      BY <2>2, <1>4, <1>6, <1>7, Zenon
    <3>2. sent # <<>> /\ sent[n] = [from |-> sel, frame |-> p.frame,
                                    no |-> p.no - 1, last |-> FALSE]
      BY <3>1, <1>1, Zenon
    <3>3. n > 0
      BY <3>2, <1>1
    <3>4. i > 1 /\ i - 1 = n /\ sent'[n] = sent[n]
      BY <3>3, <2>2, <1>6
    <3>5. sent'[i].from = sel /\ sent'[i].frame = p.frame /\ sent'[i].no = p.no
      BY <2>2, <1>4, <1>6, Zenon
    <3> QED
      BY <3>2, <3>4, <3>5, <2>2, <1>6, Zenon
  <2> QED
    BY <2>1, <2>2, <1>6
<1>8. ASSUME NEW i \in DOMAIN sent', NEW j \in DOMAIN sent',
             i < j, sent'[i].from = sent'[j].from
      PROVE  Precedes(sent'[i], sent'[j])
  <2>1. i \in 1 .. n /\ sent'[i] = sent[i]
    BY <1>6, <1>8
  <2>2. CASE j \in 1 .. n
    BY <2>1, <2>2, <1>2, <1>6, <1>8, Zenon
  <2>3. CASE j = n + 1
    <3>1. sent'[j] = b /\ sent[i].from = sel
      BY <2>1, <2>3, <1>4, <1>6, <1>8, Zenon
    <3>2. sent[i] \in {x \in Beats(sel) : Precedes(x, p)}
      <4>1. sent[i] \in {x \in {sent[m] : m \in DOMAIN sent} : x.from = sel}
        BY <2>1, <3>1, <1>6
      <4> QED
        BY <4>1, <1>2, <1>3, Zenon
    <3>3. Precedes(sent[i], p)
      BY <3>2, Zenon
    <3> QED
      BY <3>1, <3>3, <2>1, <1>4, Zenon DEF Precedes
  <2> QED
    BY <2>2, <2>3, <1>6
<1>9. ASSUME NEW s \in Sources
      PROVE  {x \in {sent'[i] : i \in DOMAIN sent'} : x.from = s} =
               {x \in Beats(s) : Precedes(x, todo'[s])}
  <2>1. {sent'[i] : i \in DOMAIN sent'} = {sent[i] : i \in DOMAIN sent} \cup {b}
    BY <1>6
  <2>2. CASE s = sel
    <3>1. {x \in {sent'[i] : i \in DOMAIN sent'} : x.from = s} =
            {x \in {sent[i] : i \in DOMAIN sent} : x.from = s} \cup {b}
      BY <2>1, <2>2, <1>4
    <3>2. \A x \in Beats(s) : Precedes(x, todo'[s]) <=> Precedes(x, todo[s]) \/ x = b
      <4>1. \A x \in Beats(sel) :
              Precedes(x, Following(sel, p)) <=> Precedes(x, p) \/ x = Beat(sel, p)
        BY <1>3, FollowingIs, Zenon
      <4> QED
        BY <4>1, <2>2, <1>3, Zenon
    <3>3. {x \in Beats(s) : Precedes(x, todo'[s])} =
            {x \in Beats(s) : Precedes(x, todo[s])} \cup {b}
      BY <3>2, <2>2, <1>3, Zenon
    <3> QED
      BY <3>1, <3>3, <1>2, Zenon
  <2>3. CASE s # sel
    <3>1. {x \in {sent'[i] : i \in DOMAIN sent'} : x.from = s} =
            {x \in {sent[i] : i \in DOMAIN sent} : x.from = s}
      BY <2>1, <2>3, <1>4
    <3>2. todo'[s] = todo[s]
      BY <2>3, <1>3, Zenon
    <3> QED
      BY <3>1, <3>2, <1>2, Zenon
  <2> QED
    BY <2>2, <2>3, Zenon
<1> QED
  BY <1>7, <1>8, <1>9, Zenon DEF FramesLeaveWhole

LEMMA StillWhole ==
  ASSUME FramesLeaveWhole, sent' = sent, todo' = todo
  PROVE  FramesLeaveWhole'
<1> DEFINE Whole(q, t) ==
      /\ \A i \in DOMAIN q : q[i].no > 1 =>
           /\ i > 1
           /\ q[i - 1] = [from |-> q[i].from, frame |-> q[i].frame,
                          no |-> q[i].no - 1, last |-> FALSE]
      /\ \A i, j \in DOMAIN q : i < j /\ q[i].from = q[j].from => Precedes(q[i], q[j])
      /\ \A s \in Sources :
           {b \in {q[i] : i \in DOMAIN q} : b.from = s} = {b \in Beats(s) : Precedes(b, t[s])}
<1>1. Whole(sent, todo)
  BY Zenon DEF FramesLeaveWhole
<1>2. Whole(sent', todo') => FramesLeaveWhole'
  BY Zenon DEF FramesLeaveWhole
<1> HIDE DEF Whole
<1> QED
  BY <1>1, <1>2, Zenon

\* The sender's part of the invariant is kept by every step.
LEMMA MuxInvKept ==
  ASSUME MuxInv, \/ \E s \in Sources : Offer(s)
                 \/ Idles
                 \/ Sends
                 \/ UNCHANGED muxVars
  PROVE  MuxInv'
<1>0. SourceInv /\ FramesLeaveWhole
  BY Zenon DEF MuxInv
<1>1. CASE UNCHANGED muxVars
  <2>1. /\ todo' = todo /\ tvalid' = tvalid /\ sel' = sel /\ sent' = sent
    BY <1>1, Zenon DEF muxVars
  <2>2. SourceInv'
    BY <1>0, <2>1, Zenon DEF SourceInv
  <2> QED
    BY <1>0, <2>1, <2>2, StillWhole, Zenon DEF MuxInv
<1>2. ASSUME NEW s \in Sources, Offer(s) PROVE MuxInv'
  <2>1. /\ todo' = todo /\ sel' = sel /\ sent' = sent
        /\ tvalid' = [tvalid EXCEPT ![s] = TRUE]
        /\ todo[s].frame <= FrameCount(s)
    BY <1>2, Zenon DEF Offer, FrameCount
  <2>2. tvalid \in [Sources -> BOOLEAN]
    BY <1>0, Zenon DEF SourceInv
  <2>3. tvalid' \in [Sources -> BOOLEAN]
    BY <2>1, <2>2
  <2>4. ASSUME NEW r \in Sources, tvalid'[r] PROVE todo[r].frame <= FrameCount(r)
    <3>1. r = s \/ tvalid[r]
      BY <2>1, <2>2, <2>4
    <3> QED
      BY <3>1, <2>1, <1>0, Zenon DEF SourceInv
  <2>5. SourceInv'
    BY <1>0, <2>1, <2>3, <2>4, Zenon DEF SourceInv
  <2> QED
    BY <1>0, <2>1, <2>5, StillWhole, Zenon DEF MuxInv
<1>3. CASE Idles
  <2>1. /\ todo' = todo /\ sent' = sent /\ tvalid' = tvalid
        /\ sel' \in Sources \cup {"none"} /\ (sel # "none" => sel' = sel)
    BY <1>3, Zenon DEF Idles
  <2>2. ASSUME NEW s \in Sources, todo[s].no > 1 PROVE sel' = s
    <3>1. sel = s
      BY <1>0, <2>2, Zenon DEF SourceInv
    <3>2. s # "none"
      BY DEF Sources
    <3> QED
      BY <2>1, <3>1, <3>2, Zenon
  <2>3. SourceInv'
    BY <1>0, <2>1, <2>2, Zenon DEF SourceInv
  <2> QED
    BY <1>0, <2>1, <2>3, StillWhole, Zenon DEF MuxInv
<1>4. CASE Sends
  BY <1>0, <1>4, SourceIsKept, FramesStayWhole, Zenon DEF MuxInv
<1> QED
  BY <1>1, <1>2, <1>3, <1>4, Zenon

-----------------------------------------------------------------------------
(* The completions *)

LEMMA EndedIs ==
  ASSUME NEW q \in Seq(BeatType), NEW s
  PROVE  \A k : k \in Ended(s, q) <=>
           \E i \in 1 .. Len(q) : q[i].from = s /\ q[i].last /\ q[i].frame = k
<1>1. DOMAIN q = 1 .. Len(q)
  OBVIOUS
<1> QED
  BY <1>1, Zenon DEF Ended

LEMMA CplSends ==
  ASSUME SourceInv, CplInv, Sends, UNCHANGED cpl
  PROVE  CplInv'
<1> DEFINE p == todo[sel]  b == Beat(sel, p)  n == Len(cpls)
<1>1. /\ cpls \in Seq(BeatType)
      /\ cpl \in [retired : Seq(Nat), count : Nat, ts : Nat]
      /\ \A i \in 1 .. n : cpls[i].last
      /\ \A i, j \in 1 .. n :
           i < j /\ cpls[i].from = cpls[j].from => cpls[i].frame < cpls[j].frame
      /\ \A s \in Sources :
           /\ Done(s) < todo[s].frame
           /\ Ended(s, cpls) = Done(s) + 1 .. todo[s].frame - 1
  BY Zenon DEF CplInv
<1>2. /\ sel \in Sources /\ p \in Places(sel) /\ p.frame <= FrameCount(sel)
      /\ b \in BeatType
      /\ b = [from |-> sel, frame |-> p.frame, no |-> p.no, last |-> IsLast(sel, p)]
      /\ todo'[sel] = Following(sel, p)
      /\ \A s \in Sources \ {sel} : todo'[s] = todo[s]
  BY SendsIs, Zenon
<1>3. /\ Following(sel, p) = IF IsLast(sel, p) THEN [frame |-> p.frame + 1, no |-> 1]
                             ELSE [frame |-> p.frame, no |-> p.no + 1]
      /\ p.frame \in Nat
  BY <1>2, FollowingIs, PlacesAre
<1>4. \A s \in Sources : Done(s) \in Nat /\ Done(s)' = Done(s)
  <2>1. cpl' = cpl
    OBVIOUS
  <2>2. \A s \in Sources : Done(s) \in Nat
    BY <1>1 DEF Done
  <2> QED
    BY <2>1, <2>2, Zenon DEF Done
<1>5. /\ \A i \in 1 .. Len(cpl.retired) : cpl.retired[i] = i
      /\ cpl.ts = cpl.count /\ cpl' = cpl
  BY Zenon DEF CplInv
<1>6. CASE ~IsLast(sel, p)
  <2>1. cpls' = cpls
    BY <1>6, Zenon DEF Sends
  <2>2. \A s \in Sources : todo'[s].frame = todo[s].frame
    <3>1. todo'[sel].frame = p.frame
      BY <1>2, <1>3, <1>6
    <3> QED
      BY <3>1, <1>2, Zenon
  <2> QED
    BY <1>1, <1>4, <1>5, <2>1, <2>2, Zenon DEF CplInv
<1>7. CASE IsLast(sel, p)
  <2>1. cpls' = cpls \o <<b>>
    BY <1>7, Zenon DEF Sends
  <2>2. /\ cpls' \in Seq(BeatType) /\ n \in Nat /\ Len(cpls') = n + 1
        /\ \A i \in 1 .. n : cpls'[i] = cpls[i]
        /\ cpls'[n + 1] = b
    BY <1>1, <1>2, <2>1, Appending
  <2>3. b.from = sel /\ b.frame = p.frame /\ b.last
    BY <1>2, <1>7
  <2>4. todo'[sel].frame = p.frame + 1
    BY <1>2, <1>3, <1>7
  <2>5. ASSUME NEW i \in 1 .. Len(cpls') PROVE cpls'[i].last
    <3>1. i \in 1 .. n \/ i = n + 1
      BY <2>2
    <3> QED
      BY <3>1, <1>1, <2>2, <2>3, Zenon
  <2>6. ASSUME NEW i \in 1 .. Len(cpls'), NEW j \in 1 .. Len(cpls'),
               i < j, cpls'[i].from = cpls'[j].from
        PROVE  cpls'[i].frame < cpls'[j].frame
    <3>1. i \in 1 .. n /\ cpls'[i] = cpls[i]
      BY <2>2, <2>6
    <3>2. CASE j \in 1 .. n
      BY <3>1, <3>2, <1>1, <2>2, <2>6, Zenon
    <3>3. CASE j = n + 1
      <4>1. cpls'[j] = b /\ cpls[i].from = sel
        BY <3>1, <3>3, <2>2, <2>3, <2>6, Zenon
      <4>2. cpls[i].frame \in Ended(sel, cpls)
        BY <3>1, <4>1, <1>1, EndedIs, Zenon
      <4>3. cpls[i].frame \in Done(sel) + 1 .. p.frame - 1
        BY <4>2, <1>1, <1>2, Zenon
      <4>4. cpls[i].frame < p.frame
        BY <4>3, <1>2, <1>3, <1>4
      <4> QED
        BY <3>1, <4>1, <4>4, <2>3, Zenon
    <3> QED
      BY <3>2, <3>3, <2>2
  <2>7. ASSUME NEW s \in Sources
        PROVE  Done(s) < todo'[s].frame /\ Ended(s, cpls') = Done(s) + 1 .. todo'[s].frame - 1
    <3>1. \A k : k \in Ended(s, cpls') <=> k \in Ended(s, cpls) \/ (s = sel /\ k = p.frame)
      <4>1. cpls \in Seq(BeatType) /\ cpls' \in Seq(BeatType)
        BY <1>1, <2>2, Zenon
      <4>2. \A k : k \in Ended(s, cpls') <=>
              \E i \in 1 .. Len(cpls') : cpls'[i].from = s /\ cpls'[i].last /\ cpls'[i].frame = k
        BY <4>1, EndedIs
      <4>3. \A k : k \in Ended(s, cpls) <=>
              \E i \in 1 .. n : cpls[i].from = s /\ cpls[i].last /\ cpls[i].frame = k
        BY <4>1, EndedIs
      <4>4. \A i : i \in 1 .. Len(cpls') <=> i \in 1 .. n \/ i = n + 1
        BY <2>2
      <4> QED
        <5> DEFINE Ends(c, k) == c.from = s /\ c.last /\ c.frame = k
        <5>1. \A k : Ends(b, k) <=> s = sel /\ k = p.frame
          BY <2>3, Zenon
        <5>2. \A k : k \in Ended(s, cpls') <=> \E i \in 1 .. Len(cpls') : Ends(cpls'[i], k)
          BY <4>2, Zenon
        <5>3. \A k : k \in Ended(s, cpls) <=> \E i \in 1 .. n : Ends(cpls[i], k)
          BY <4>3, Zenon
        <5> HIDE DEF Ends, b, n, p
        <5> QED
          BY <5>1, <5>2, <5>3, <4>4, <2>2, Zenon
    <3>2. CASE s = sel
      <4>1. Done(s) < p.frame /\ Ended(s, cpls) = Done(s) + 1 .. p.frame - 1
        BY <3>2, <1>1, <1>2, Zenon
      <4>2. Done(s) \in Nat /\ p.frame \in Nat /\ todo'[s].frame = p.frame + 1
        BY <1>3, <1>4, <2>4, <3>2, Zenon
      <4>3. \A k : k \in Done(s) + 1 .. p.frame <=> k \in Done(s) + 1 .. p.frame - 1 \/ k = p.frame
        BY <4>1, <4>2
      <4>4. Ended(s, cpls') = Done(s) + 1 .. p.frame
        BY <3>1, <3>2, <4>1, <4>3, Zenon
      <4>5. todo'[s].frame - 1 = p.frame /\ Done(s) < todo'[s].frame
        BY <4>1, <4>2
      <4> QED
        BY <4>2, <4>4, <4>5, Zenon
    <3>3. CASE s # sel
      <4>1. todo'[s] = todo[s]
        BY <3>3, <1>2, Zenon
      <4>2. Ended(s, cpls') = Ended(s, cpls)
        BY <3>1, <3>3, Zenon
      <4> QED
        BY <4>1, <4>2, <1>1, Zenon
    <3> QED
      BY <3>2, <3>3, Zenon
  <2>8. ASSUME NEW s \in Sources
        PROVE  /\ Done(s)' < todo'[s].frame
               /\ Ended(s, cpls') = Done(s)' + 1 .. todo'[s].frame - 1
    BY <1>4, <2>7, Zenon
  <2> QED
    BY <1>1, <1>5, <2>2, <2>5, <2>6, <2>8, Zenon DEF CplInv
<1> QED
  BY <1>6, <1>7, Zenon

\* The oldest completion is that of the first frame that has not come back.
LEMMA CplCompletes ==
  ASSUME SourceInv, CplInv, NEW ready \in BOOLEAN, Complete(ready)
  PROVE  CplInv'
<1> DEFINE c == Head(cpls)  n == Len(cpls)  taken == IsSsr(c) \/ ready
<1>1. /\ cpls \in Seq(BeatType) /\ cpls # <<>>
      /\ cpl \in [retired : Seq(Nat), count : Nat, ts : Nat]
      /\ \A i \in 1 .. n : cpls[i].last
      /\ \A i, j \in 1 .. n :
           i < j /\ cpls[i].from = cpls[j].from => cpls[i].frame < cpls[j].frame
      /\ \A s \in Sources :
           /\ Done(s) < todo[s].frame
           /\ Ended(s, cpls) = Done(s) + 1 .. todo[s].frame - 1
  BY Zenon DEF CplInv, Complete
<1>2. /\ \A i \in 1 .. Len(cpl.retired) : cpl.retired[i] = i
      /\ cpl.ts = cpl.count
      /\ todo' = todo
  BY Zenon DEF CplInv, Complete, muxVars
<1>3. cpls \in Seq(BeatType)
  BY <1>1, Zenon
<1>4. /\ Tail(cpls) \in Seq(BeatType) /\ c = cpls[1] /\ c \in BeatType
      /\ n \in Nat \ {0} /\ Len(Tail(cpls)) = n - 1
      /\ \A i \in 1 .. Len(Tail(cpls)) : Tail(cpls)[i] = cpls[i + 1]
  BY <1>1, Tailing
<1>5. c.from \in Sources /\ c.frame \in Nat
  BY <1>4 DEF BeatType
<1>6. /\ cpls' = IF taken THEN Tail(cpls) ELSE cpls
      /\ cpl' = [retired |-> IF ~IsSsr(c) /\ ready THEN Append(cpl.retired, c.frame) ELSE cpl.retired,
                 count   |-> IF IsSsr(c) THEN cpl.count + 1 ELSE cpl.count,
                 ts      |-> IF IsSsr(c) THEN c.frame ELSE cpl.ts]
  BY Zenon DEF Complete
<1>7. IsSsr(c) <=> c.from = "ssr"
  BY DEF IsSsr
<1>8. cpl.retired \in Seq(Nat) /\ Len(cpl.retired) \in Nat /\ cpl.count \in Nat /\ cpl.ts \in Nat
  BY <1>1
<1>9. \A s \in Sources : Done(s) \in Nat /\ todo[s].frame \in Nat
  BY <1>8, PlacesAre DEF Done, SourceInv
<1>10. CASE ~taken
  <2>1. cpls' = cpls
    BY <1>6, <1>10, Zenon
  <2>2. cpl' = [retired |-> cpl.retired, count |-> cpl.count, ts |-> cpl.ts]
    BY <1>6, <1>10, Zenon
  <2>3. cpl = [retired |-> cpl.retired, count |-> cpl.count, ts |-> cpl.ts]
    BY <1>1
  <2>4. cpl' = cpl
    BY <2>2, <2>3, Zenon
  <2>5. \A s \in Sources : Done(s)' = Done(s)
    BY <2>4, Zenon DEF Done
  <2> QED
    BY <1>1, <1>2, <2>1, <2>4, <2>5, Zenon DEF CplInv
<1>11. CASE taken
  <2>1. cpls' = Tail(cpls)
    BY <1>6, <1>11, Zenon
  <2>2. \A s \in Sources : \A k : k \in Ended(s, cpls) <=>
          \E i \in 1 .. n : cpls[i].from = s /\ cpls[i].last /\ cpls[i].frame = k
    BY <1>3, EndedIs
  <2>3. \A s \in Sources : \A k : k \in Ended(s, Tail(cpls)) <=>
          \E i \in 1 .. Len(Tail(cpls)) :
            Tail(cpls)[i].from = s /\ Tail(cpls)[i].last /\ Tail(cpls)[i].frame = k
    <3>1. DOMAIN Tail(cpls) = 1 .. Len(Tail(cpls))
      BY <1>4
    <3> QED
      BY <3>1, Zenon DEF Ended
  <2>4. \A i \in 1 .. Len(Tail(cpls)) : i + 1 \in 1 .. n /\ i + 1 > 1
    BY <1>4
  <2>5. \A i \in 1 .. n : i = 1 \/ (i - 1 \in 1 .. Len(Tail(cpls)) /\ Tail(cpls)[i - 1] = cpls[i])
    <3>1. ASSUME NEW i \in 1 .. n, i # 1
          PROVE  i - 1 \in 1 .. Len(Tail(cpls)) /\ i - 1 + 1 = i
      BY <3>1, <1>4
    <3> QED
      BY <3>1, <1>4, Zenon
  <2>6. ASSUME NEW i \in 1 .. n, i # 1, cpls[i].from = c.from
        PROVE  c.frame < cpls[i].frame
    <3>1. 1 \in 1 .. n /\ 1 < i
      BY <2>6, <1>4
    <3> QED
      BY <3>1, <2>6, <1>1, <1>4, Zenon
  <2>7. ASSUME NEW i \in 1 .. Len(Tail(cpls)) PROVE Tail(cpls)[i].last
    BY <2>4, <1>1, <1>4, Zenon
  <2>8. ASSUME NEW i \in 1 .. Len(Tail(cpls)), NEW j \in 1 .. Len(Tail(cpls)),
               i < j, Tail(cpls)[i].from = Tail(cpls)[j].from
        PROVE  Tail(cpls)[i].frame < Tail(cpls)[j].frame
    <3>1. i + 1 < j + 1
      BY <2>8, <1>4
    <3>2. i + 1 \in 1 .. n /\ j + 1 \in 1 .. n
      BY <2>4, Zenon
    <3>3. Tail(cpls)[i] = cpls[i + 1] /\ Tail(cpls)[j] = cpls[j + 1]
      BY <1>4, Zenon
    <3> QED
      BY <3>1, <3>2, <3>3, <2>8, <1>1, Zenon
  <2>9. \A k : k \in Ended(c.from, Tail(cpls)) <=> k \in Ended(c.from, cpls) /\ k # c.frame
    <3>1. ASSUME NEW k \in Ended(c.from, Tail(cpls))
          PROVE  k \in Ended(c.from, cpls) /\ k # c.frame
      <4>1. PICK i \in 1 .. Len(Tail(cpls)) :
              Tail(cpls)[i].from = c.from /\ Tail(cpls)[i].last /\ Tail(cpls)[i].frame = k
        BY <2>3, <3>1, <1>5, Zenon
      <4>2. /\ i + 1 \in 1 .. n /\ i + 1 # 1
            /\ cpls[i + 1].from = c.from /\ cpls[i + 1].last /\ cpls[i + 1].frame = k
        <5>1. i + 1 # 1
          BY <1>4
        <5> QED
          BY <4>1, <5>1, <2>4, <1>4, Zenon
      <4>3. k \in Ended(c.from, cpls)
        BY <4>2, <2>2, <1>5, Zenon
      <4>4. c.frame < k
        BY <4>2, <2>6, Zenon
      <4>5. k # c.frame
        BY <4>4, <1>5
      <4> QED
        BY <4>3, <4>5, Zenon
    <3>2. ASSUME NEW k \in Ended(c.from, cpls), k # c.frame
          PROVE  k \in Ended(c.from, Tail(cpls))
      <4>1. PICK i \in 1 .. n : cpls[i].from = c.from /\ cpls[i].last /\ cpls[i].frame = k
        BY <2>2, <1>5, Zenon
      <4>2. i # 1
        BY <4>1, <3>2, <1>4, Zenon
      <4>3. PICK j \in 1 .. Len(Tail(cpls)) : Tail(cpls)[j] = cpls[i]
        BY <4>2, <2>5, Zenon
      <4>4. Tail(cpls)[j].from = c.from /\ Tail(cpls)[j].last /\ Tail(cpls)[j].frame = k
        BY <4>1, <4>3, Zenon
      <4> QED
        BY <4>4, <2>3, <1>5, Zenon
    <3> QED
      BY <3>1, <3>2, Zenon
  <2>10. ASSUME NEW s \in Sources, s # c.from
         PROVE  Ended(s, Tail(cpls)) = Ended(s, cpls)
    <3>1. ASSUME NEW k \in Ended(s, Tail(cpls)) PROVE k \in Ended(s, cpls)
      <4>1. PICK i \in 1 .. Len(Tail(cpls)) :
              Tail(cpls)[i].from = s /\ Tail(cpls)[i].last /\ Tail(cpls)[i].frame = k
        BY <3>1, <2>3, Zenon
      <4>2. /\ i + 1 \in 1 .. n
            /\ cpls[i + 1].from = s /\ cpls[i + 1].last /\ cpls[i + 1].frame = k
        BY <4>1, <2>4, <1>4, Zenon
      <4> QED
        BY <4>2, <2>2, Zenon
    <3>2. ASSUME NEW k \in Ended(s, cpls) PROVE k \in Ended(s, Tail(cpls))
      <4>1. PICK i \in 1 .. n : cpls[i].from = s /\ cpls[i].last /\ cpls[i].frame = k
        BY <3>2, <2>2, Zenon
      <4>2. i # 1
        BY <4>1, <2>10, <1>4, Zenon
      <4>3. PICK j \in 1 .. Len(Tail(cpls)) : Tail(cpls)[j] = cpls[i]
        BY <4>2, <2>5, Zenon
      <4>4. Tail(cpls)[j].from = s /\ Tail(cpls)[j].last /\ Tail(cpls)[j].frame = k
        BY <4>1, <4>3, Zenon
      <4> QED
        BY <4>4, <2>3, Zenon
    <3> QED
      BY <3>1, <3>2, Zenon
  <2>11. c.frame = Done(c.from) + 1 /\ c.frame < todo[c.from].frame
    <3> DEFINE d == Done(c.from)  t == todo[c.from].frame
    <3>1. d \in Nat /\ t \in Nat /\ Ended(c.from, cpls) = d + 1 .. t - 1
      BY <1>1, <1>5, <1>9, Zenon
    <3>2. c.frame \in Ended(c.from, cpls)
      <4>1. 1 \in 1 .. n
        BY <1>4
      <4> QED
        BY <4>1, <2>2, <1>1, <1>4, <1>5, Zenon
    <3>3. c.frame \in d + 1 .. t - 1
      BY <3>1, <3>2, Zenon
    <3>4. ASSUME c.frame # d + 1 PROVE FALSE
      <4>1. d + 1 \in d + 1 .. t - 1
        BY <3>1, <3>3
      <4>2. PICK i \in 1 .. n : cpls[i].from = c.from /\ cpls[i].last /\ cpls[i].frame = d + 1
        BY <4>1, <3>1, <2>2, <1>5, Zenon
      <4>3. i # 1
        BY <4>2, <3>4, <1>4, Zenon
      <4>4. c.frame < d + 1
        BY <4>2, <4>3, <2>6, Zenon
      <4> QED
        BY <4>4, <3>1, <3>3, <1>5
    <3> QED
      BY <3>1, <3>3, <3>4, <1>5
  <2>12. ASSUME NEW s \in Sources
         PROVE  Done(s)' = IF s = c.from THEN Done(s) + 1 ELSE Done(s)
    <3>1. CASE c.from = "ssr"
      <4>1. cpl'.retired = cpl.retired /\ cpl'.count = cpl.count + 1
        BY <3>1, <1>6, <1>7
      <4> QED
        BY <4>1, <3>1 DEF Done, Sources
    <3>2. CASE c.from # "ssr"
      <4>1. cpl'.retired = Append(cpl.retired, c.frame) /\ cpl'.count = cpl.count
        BY <3>2, <1>6, <1>7, <1>11
      <4>2. Len(Append(cpl.retired, c.frame)) = Len(cpl.retired) + 1
        BY <1>5, <1>8
      <4> QED
        BY <4>1, <4>2, <3>2, <1>5 DEF Done, Sources
    <3> QED
      BY <3>1, <3>2, Zenon
  <2>13. ASSUME NEW s \in Sources
         PROVE  /\ Done(s)' < todo[s].frame
                /\ Ended(s, Tail(cpls)) = Done(s)' + 1 .. todo[s].frame - 1
    <3>1. CASE s = c.from
      <4> DEFINE d == Done(s)  t == todo[s].frame
      <4>1. /\ d \in Nat /\ t \in Nat /\ Ended(s, cpls) = d + 1 .. t - 1
            /\ c.frame = d + 1 /\ c.frame < t
        BY <3>1, <2>11, <1>1, <1>9, Zenon
      <4>2. \A k : k \in d + 1 + 1 .. t - 1 <=> k \in d + 1 .. t - 1 /\ k # d + 1
        BY <4>1
      <4>3. Ended(s, Tail(cpls)) = d + 1 + 1 .. t - 1
        BY <4>1, <4>2, <3>1, <2>9, Zenon
      <4>4. Done(s)' = d + 1
        BY <3>1, <2>12, Zenon
      <4> QED
        BY <4>1, <4>3, <4>4, Zenon
    <3>2. CASE s # c.from
      BY <3>2, <2>10, <2>12, <1>1, Zenon
    <3> QED
      BY <3>1, <3>2, Zenon
  <2>14. /\ cpl' \in [retired : Seq(Nat), count : Nat, ts : Nat]
         /\ \A i \in 1 .. Len(cpl'.retired) : cpl'.retired[i] = i
         /\ cpl'.ts = cpl'.count
    <3>1. CASE c.from = "ssr"
      <4>1. cpl' = [retired |-> cpl.retired, count |-> cpl.count + 1, ts |-> c.frame]
        BY <3>1, <1>6, <1>7, Zenon
      <4>2. cpl'.retired = cpl.retired /\ cpl'.count = cpl.count + 1 /\ cpl'.ts = c.frame
        BY <4>1
      <4>3. c.frame = cpl.count + 1
        BY <3>1, <2>11 DEF Done
      <4>4. cpl' \in [retired : Seq(Nat), count : Nat, ts : Nat]
        BY <4>1, <1>5, <1>8
      <4> QED
        BY <4>2, <4>3, <4>4, <1>2, Zenon
    <3>2. CASE c.from # "ssr"
      <4>1. cpl' = [retired |-> Append(cpl.retired, c.frame), count |-> cpl.count, ts |-> cpl.ts]
        BY <3>2, <1>6, <1>7, <1>11, Zenon
      <4>2. c.frame = Len(cpl.retired) + 1
        BY <3>2, <2>11, <1>5 DEF Done, Sources
      <4>3. PICK r \in Seq(Nat), m \in Nat : r = cpl.retired /\ m = Len(r)
        BY <1>8
      <4>4. /\ Append(r, m + 1) \in Seq(Nat)
            /\ \A i \in 1 .. Len(Append(r, m + 1)) : i \in 1 .. m \/ i = m + 1
            /\ \A i \in 1 .. m : Append(r, m + 1)[i] = r[i]
            /\ Append(r, m + 1)[m + 1] = m + 1
        BY <4>3
      <4>5. cpl' = [retired |-> Append(r, m + 1), count |-> cpl.count, ts |-> cpl.ts]
        BY <4>1, <4>2, <4>3, Zenon
      <4>6. cpl'.retired = Append(r, m + 1) /\ cpl'.count = cpl.count /\ cpl'.ts = cpl.ts
        BY <4>5
      <4>7. cpl' \in [retired : Seq(Nat), count : Nat, ts : Nat]
        BY <4>4, <4>5, <1>8
      <4> QED
        BY <4>3, <4>4, <4>6, <4>7, <1>2, Zenon
    <3> QED
      BY <3>1, <3>2, Zenon
  <2>15. \A s \in Sources : /\ Done(s)' < todo'[s].frame
                            /\ Ended(s, cpls') = Done(s)' + 1 .. todo'[s].frame - 1
    BY <2>1, <2>13, <1>2, Zenon
  <2> QED
    BY <1>4, <2>1, <2>7, <2>8, <2>14, <2>15, Zenon DEF CplInv
<1> QED
  BY <1>10, <1>11, Zenon

LEMMA CplInvKept ==
  ASSUME SourceInv, CplInv,
         \/ Idles /\ UNCHANGED cpl
         \/ Sends /\ UNCHANGED cpl
         \/ \E ready \in BOOLEAN : Complete(ready)
         \/ UNCHANGED <<todo, cpls, cpl>>
  PROVE  CplInv'
<1>1. CASE (Idles /\ UNCHANGED cpl) \/ UNCHANGED <<todo, cpls, cpl>>
  <2>1. todo' = todo /\ cpls' = cpls /\ cpl' = cpl
    BY <1>1, Zenon DEF Idles
  <2>2. \A s \in Sources : Done(s)' = Done(s)
    BY <2>1, Zenon DEF Done
  <2> QED
    BY <2>1, <2>2, Zenon DEF CplInv
<1> QED
  BY <1>1, CplSends, CplCompletes, Zenon

\* The frames whose last beat has left are those before the place.
LEMMA EndedFrames ==
  ASSUME MuxInv, NEW s \in Sources
  PROVE  Ended(s, sent) = 1 .. todo[s].frame - 1
<1> DEFINE p == todo[s]
<1>1. /\ p \in Places(s) /\ sent \in Seq(BeatType)
      /\ {b \in {sent[i] : i \in DOMAIN sent} : b.from = s} = {b \in Beats(s) : Precedes(b, p)}
  BY Zenon DEF MuxInv, SourceInv, FramesLeaveWhole
<1>2. /\ p.frame \in Nat \ {0} /\ p.no \in Nat \ {0} /\ p.frame <= FrameCount(s) + 1
      /\ p.frame <= FrameCount(s) => p.no <= FramesOf(s)[p.frame]
  BY <1>1, PlacesAre, Zenon
<1>3. FrameCount(s) \in Nat /\ \A k \in 1 .. FrameCount(s) : FramesOf(s)[k] \in Nat \ {0}
  BY FramesAre, Zenon
<1>4. \A k : k \in Ended(s, sent) <=> \E b \in Beats(s) : Precedes(b, p) /\ b.last /\ b.frame = k
  BY <1>1, Zenon DEF Ended
<1>5. ASSUME NEW b \in Beats(s), Precedes(b, p), b.last
      PROVE  b.frame \in 1 .. p.frame - 1
  <2>1. /\ b.frame \in 1 .. FrameCount(s) /\ b.no \in 1 .. FramesOf(s)[b.frame]
        /\ b = Beat(s, Place(b.frame, b.no))
    BY BeatsAre, Zenon
  <2>2. b.no = FramesOf(s)[b.frame]
    <3>1. b.last = (b.no = FramesOf(s)[b.frame])
      BY <2>1 DEF Beat, Place, IsLast
    <3> QED
      BY <3>1, <1>5
  <2>3. b.frame < p.frame
    BY <2>1, <2>2, <1>2, <1>3, <1>5 DEF Precedes
  <2> QED
    BY <2>1, <2>3, <1>2
<1>6. ASSUME NEW k \in 1 .. p.frame - 1
      PROVE  \E b \in Beats(s) : Precedes(b, p) /\ b.last /\ b.frame = k
  <2>1. k \in 1 .. FrameCount(s) /\ k < p.frame
    BY <1>2, <1>3
  <2>2. FramesOf(s)[k] \in 1 .. FramesOf(s)[k]
    BY <2>1, <1>3
  <2>3. Beat(s, Place(k, FramesOf(s)[k])) \in Beats(s)
    BY <2>1, <2>2, BeatsAre, Zenon
  <2>4. /\ Beat(s, Place(k, FramesOf(s)[k])).frame = k
        /\ Beat(s, Place(k, FramesOf(s)[k])).last
    BY DEF Beat, Place, IsLast
  <2> QED
    BY <2>1, <2>3, <2>4, Zenon DEF Precedes
<1> QED
  BY <1>4, <1>5, <1>6, Zenon

LEMMA ComeHome ==
  ASSUME MuxInv, CplInv
  PROVE  CompletionsGoHome
<1>1. /\ cpl \in [retired : Seq(Nat), count : Nat, ts : Nat]
      /\ \A s \in Sources :
           /\ Done(s) < todo[s].frame
           /\ Ended(s, cpls) = Done(s) + 1 .. todo[s].frame - 1
      /\ \A i \in 1 .. Len(cpl.retired) : cpl.retired[i] = i
      /\ cpl.ts = cpl.count
  BY Zenon DEF CplInv
<1>2. cpl.retired \in Seq(Nat) /\ cpl.count \in Nat
  BY <1>1
<1>3. "host" \in Sources /\ "ssr" \in Sources
  BY DEF Sources
<1>4. Done("host") = Len(cpl.retired) /\ Done("ssr") = cpl.count
  BY DEF Done
<1>5. ASSUME NEW s \in Sources
      PROVE  1 .. Done(s) = Ended(s, sent) \ Ended(s, cpls)
  <2>1. Done(s) \in Nat
    BY <1>2 DEF Done
  <2>2. todo[s].frame \in Nat
    BY PlacesAre DEF MuxInv, SourceInv
  <2>3. PICK d \in Nat, t \in Nat : d = Done(s) /\ t = todo[s].frame
    BY <2>1, <2>2, Zenon
  <2>4. d < t /\ Ended(s, cpls) = d + 1 .. t - 1 /\ Ended(s, sent) = 1 .. t - 1
    BY <1>1, <2>3, EndedFrames, Zenon
  <2>5. 1 .. d = (1 .. t - 1) \ (d + 1 .. t - 1)
    BY <2>4
  <2> QED
    BY <2>3, <2>4, <2>5, Zenon
<1>6. cpl.retired = [i \in 1 .. Len(cpl.retired) |-> i]
  BY <1>1, <1>2
<1> QED
  BY <1>1, <1>3, <1>4, <1>5, <1>6, Zenon DEF CompletionsGoHome

-----------------------------------------------------------------------------
(* The payload that waits *)

LEMMA EntryIs ==
  \A n, r : Entry(n, r) # None
<1>1. ASSUME NEW n, NEW r PROVE Entry(n, r) # None
  <2>1. DOMAIN Entry(n, r) = {"node", "round"} /\ DOMAIN None = {"none"}
    BY DEF Entry, None
  <2> QED
    BY <2>1
<1> QED
  BY <1>1, Zenon

LEMMA WireIsKept ==
  ASSUME wire \in Seq(BeatType),
         NEW arrives \in BOOLEAN, arrives => wire # <<>>,
         NEW bad, NEW accepted, NEW mine,
         RxCycle(IF arrives THEN <<Head(wire)>> ELSE <<>>, bad, accepted, mine)
  PROVE  wire' \in Seq(BeatType)
<1>1. CASE ~arrives
  <2>1. wire' = wire
    BY <1>1 DEF RxCycle
  <2> QED
    BY <2>1, Zenon
<1>2. CASE arrives
  <2>1. <<Head(wire)>> # <<>>
    OBVIOUS
  <2>2. wire' = Tail(wire)
    BY <1>2, <2>1, Zenon DEF RxCycle
  <2> QED
    BY <1>2, <2>2, Tailing
<1> QED
  BY <1>1, <1>2, Zenon

\* A payload is handed over when none waits.
LEMMA NoneWaits ==
  ASSUME WaitInv, NEW mine \in Mine, mine # None
  PROVE  since = OwnGap /\ pending = None
<1>1. since = OwnGap
  BY Zenon DEF Mine
<1>2. ASSUME pending # None PROVE FALSE
  <2>1. since <= shown /\ shown \in 0 .. Burst
    BY <1>2, Zenon DEF WaitInv
  <2>2. Burst \in Nat /\ OwnGap \in Nat /\ Burst < OwnGap
    BY FramesAssumption
  <2> QED
    BY <1>1, <2>1, <2>2
<1> QED
  BY <1>1, <1>2, Zenon

LEMMA WaitRx ==
  ASSUME WaitInv, NEW beats, NEW bad, NEW accepted, NEW mine \in Mine,
         RxCycle(beats, bad, accepted, mine), BurstIsOver => present' = None
  PROVE  WaitInv'
<1>1. /\ pending' = StillPending(accepted, mine)
      /\ since' = IF mine # None THEN 1 ELSE IF since < OwnGap THEN since + 1 ELSE since
      /\ shown' = IF since' = OwnGap THEN 0
                  ELSE (IF mine # None THEN 0 ELSE shown) + (IF present # None THEN 1 ELSE 0)
  BY Zenon DEF RxCycle
<1>2. /\ since \in 0 .. OwnGap /\ shown \in 0 .. Burst
      /\ present # None /\ since < OwnGap => shown < Burst
      /\ pending # None => since >= 1 /\ since <= shown
  BY Zenon DEF WaitInv
<1>3. OwnGap \in Nat /\ Burst \in Nat /\ Burst >= 1 /\ Burst < OwnGap
  BY FramesAssumption
<1>4. since' \in 0 .. OwnGap
  BY <1>1, <1>2, <1>3
<1>5. mine # None => since = OwnGap /\ pending = None
  BY NoneWaits, Zenon
<1>6. shown' \in 0 .. Burst
  <2>1. CASE since' = OwnGap
    <3>1. shown' = 0
      BY <2>1, <1>1, Zenon
    <3> QED
      BY <3>1, <1>3
  <2>2. CASE since' # OwnGap /\ mine # None
    BY <2>2, <1>1, <1>3
  <2>3. CASE since' # OwnGap /\ mine = None
    <3>1. since < OwnGap
      BY <2>3, <1>1, <1>2, <1>3
    <3>2. shown' = shown + (IF present # None THEN 1 ELSE 0)
      BY <2>3, <1>1, Zenon
    <3> QED
      BY <3>1, <3>2, <1>2, <1>3
  <2> QED
    BY <2>1, <2>2, <2>3, Zenon
<1>7. present' # None => shown' < Burst
  <2>1. present' # None => shown' # Burst
    BY Zenon DEF BurstIsOver
  <2> QED
    BY <2>1, <1>3, <1>6
<1>8. ASSUME pending' # None
      PROVE  since' >= 1 /\ since' <= shown'
  <2>1. CASE mine # None
    <3>1. RemoteWrites(accepted)
      BY <2>1, <1>1, <1>5, <1>8, Zenon DEF StillPending
    <3>2. present # None
      BY <3>1, Zenon DEF RemoteWrites
    <3> QED
      BY <2>1, <3>2, <1>1, <1>3
  <2>2. CASE mine = None
    <3>1. RemoteWrites(accepted) /\ pending # None
      BY <2>2, <1>1, <1>8, Zenon DEF StillPending
    <3>2. present # None
      BY <3>1, Zenon DEF RemoteWrites
    <3>3. since >= 1 /\ since <= shown /\ since < OwnGap /\ shown < Burst
      BY <3>1, <3>2, <1>2, <1>3
    <3>4. since' = since + 1 /\ since' < OwnGap /\ shown' = shown + 1
      BY <2>2, <3>2, <3>3, <1>1, <1>2, <1>3
    <3> QED
      BY <3>3, <3>4, <1>2, <1>3
  <2> QED
    BY <2>1, <2>2, Zenon
<1> QED
  BY <1>4, <1>6, <1>7, <1>8, Zenon DEF WaitInv

-----------------------------------------------------------------------------
(* The ring *)

LEMMA RingRx ==
  ASSUME WaitInv, RingGetsEveryPayload,
         NEW beats, NEW bad, NEW accepted \in BOOLEAN, NEW mine \in Mine,
         RxCycle(beats, bad, accepted, mine)
  PROVE  RingGetsEveryPayload'
<1>1. /\ write' = RingWrite(accepted, mine)
      /\ pending' = StillPending(accepted, mine)
      /\ ring' = ring \union ({write} \ {None})
      /\ due' = due \union ({mine} \ {None}) \union (IF RemoteWrites(accepted) THEN {present} ELSE {})
  BY Zenon DEF RxCycle
<1>2. due = ring \union ({write, pending} \ {None})
  BY Zenon DEF RingGetsEveryPayload
<1>3. CASE RemoteWrites(accepted) /\ mine # None
  <2>1. present # None
    BY <1>3, Zenon DEF RemoteWrites
  <2>2. pending = None
    BY <1>3, NoneWaits, Zenon
  <2>3. /\ write' = present /\ pending' = mine
        /\ due' = due \union ({mine} \ {None}) \union {present}
    BY <1>1, <1>3, Zenon DEF RingWrite, StillPending
  <2>4. due' = ring' \union ({write', pending'} \ {None})
    BY <1>1, <1>2, <1>3, <2>1, <2>2, <2>3, Zenon
  <2> QED
    BY <2>4, Zenon DEF RingGetsEveryPayload
<1>4. CASE RemoteWrites(accepted) /\ mine = None
  <2>1. /\ write' = present /\ pending' = pending /\ present # None
        /\ due' = due \union ({mine} \ {None}) \union {present}
    BY <1>1, <1>4, Zenon DEF RingWrite, StillPending, RemoteWrites
  <2>2. due' = ring' \union ({write', pending'} \ {None})
    BY <1>1, <1>2, <1>4, <2>1, Zenon
  <2> QED
    BY <2>2, Zenon DEF RingGetsEveryPayload
<1>5. CASE ~RemoteWrites(accepted) /\ mine # None
  <2>1. /\ write' = mine /\ pending' = pending
        /\ due' = due \union ({mine} \ {None}) \union {}
    BY <1>1, <1>5, Zenon DEF RingWrite, StillPending
  <2>2. due' = ring' \union ({write', pending'} \ {None})
    BY <1>1, <1>2, <1>5, <2>1, Zenon
  <2> QED
    BY <2>2, Zenon DEF RingGetsEveryPayload
<1>6. CASE ~RemoteWrites(accepted) /\ mine = None
  <2>1. /\ write' = pending /\ pending' = None
        /\ due' = due \union ({mine} \ {None}) \union {}
    BY <1>1, <1>6, Zenon DEF RingWrite, StillPending
  <2>2. due' = ring' \union ({write', pending'} \ {None})
    BY <1>1, <1>2, <1>6, <2>1, Zenon
  <2> QED
    BY <2>2, Zenon DEF RingGetsEveryPayload
<1> QED
  BY <1>3, <1>4, <1>5, <1>6, Zenon

-----------------------------------------------------------------------------
(* The theorems *)

LEMMA IInvInit ==
  ASSUME Init
  PROVE  IInv
<1> USE DEF Init
<1>0. "none" \notin Sources /\ Sources = {"ssr", "host"}
  BY DEF Sources
<1>1. /\ todo = [s \in Sources |-> [frame |-> 1, no |-> 1]]
      /\ tvalid = [s \in Sources |-> FALSE]
      /\ sel = "none" /\ sent = <<>> /\ wire = <<>> /\ cpls = <<>>
      /\ cpl = [retired |-> <<>>, count |-> 0, ts |-> 0]
      /\ present = None /\ pending = None /\ write = None
      /\ since = OwnGap /\ shown = 0 /\ ring = {} /\ due = {}
  BY Zenon DEF Place
<1>2. ASSUME NEW s \in Sources
      PROVE  /\ todo[s] = [frame |-> 1, no |-> 1] /\ tvalid[s] = FALSE
             /\ todo[s].frame = 1 /\ todo[s].no = 1
             /\ todo[s] \in Places(s)
  <2>1. todo[s] = [frame |-> 1, no |-> 1] /\ tvalid[s] = FALSE
    BY <1>1, Zenon
  <2>2. FrameCount(s) \in Nat /\ \A k \in 1 .. FrameCount(s) : FramesOf(s)[k] \in Nat \ {0}
    BY FramesAre, Zenon
  <2>3. 1 <= FrameCount(s) => 1 <= FramesOf(s)[1]
    BY <2>2
  <2>4. [frame |-> 1, no |-> 1] \in Places(s)
    BY <2>2, <2>3 DEF Places
  <2>5. [frame |-> 1, no |-> 1].frame = 1 /\ [frame |-> 1, no |-> 1].no = 1
    OBVIOUS
  <2> QED
    BY <2>1, <2>4, <2>5, Zenon
<1>3. SourceInv
  <2>1. todo \in [Sources -> [frame : Nat, no : Nat]]
    BY <1>1
  <2>2. tvalid \in [Sources -> BOOLEAN]
    BY <1>1
  <2>3. sent \in Seq(BeatType)
    BY <1>1
  <2>4. \A s \in Sources : ~ (todo[s].no > 1)
    BY <1>2
  <2> QED
    BY <1>1, <1>2, <2>1, <2>2, <2>3, <2>4, Zenon DEF SourceInv
<1>4. DOMAIN sent = {} /\ DOMAIN sent = 1 .. 0
  BY <1>1
<1>5. FramesLeaveWhole
  <2>1. ASSUME NEW s \in Sources, NEW b \in Beats(s) PROVE ~Precedes(b, todo[s])
    <3>1. /\ b.frame \in 1 .. FrameCount(s) /\ b.no \in 1 .. FramesOf(s)[b.frame]
      BY BeatsAre, Zenon
    <3>2. FrameCount(s) \in Nat /\ FramesOf(s)[b.frame] \in Nat
      BY <3>1, FramesAre
    <3> QED
      BY <3>1, <3>2, <1>2 DEF Precedes
  <2>2. \A s \in Sources : {b \in {sent[i] : i \in DOMAIN sent} : b.from = s} = {}
    BY <1>4, Zenon
  <2>3. \A s \in Sources : {b \in Beats(s) : Precedes(b, todo[s])} = {}
    BY <2>1, Zenon
  <2> QED
    BY <1>4, <2>2, <2>3, Zenon DEF FramesLeaveWhole
<1>6. CplInv
  <2>1. cpls \in Seq(BeatType) /\ Len(cpls) = 0 /\ 1 .. Len(cpls) = {}
    BY <1>1
  <2>2. cpl \in [retired : Seq(Nat), count : Nat, ts : Nat]
    BY <1>1
  <2>3. cpl.retired = <<>> /\ cpl.count = 0 /\ cpl.ts = 0
    BY <1>1
  <2>4. Len(cpl.retired) = 0 /\ 1 .. Len(cpl.retired) = {}
    BY <2>3
  <2>5. ASSUME NEW s \in Sources
        PROVE  Done(s) < todo[s].frame /\ Ended(s, cpls) = Done(s) + 1 .. todo[s].frame - 1
    <3>1. Done(s) = 0
      BY <2>3, <2>4 DEF Done
    <3>2. \A k : k \notin Ended(s, cpls)
      BY <2>1, EndedIs, Zenon
    <3>3. 0 + 1 .. 1 - 1 = {} /\ 0 < 1
      OBVIOUS
    <3> QED
      BY <3>1, <3>2, <3>3, <1>2, Zenon
  <2> QED
    BY <2>1, <2>2, <2>3, <2>4, <2>5, Zenon DEF CplInv
<1>7. wire \in Seq(BeatType)
  BY <1>1
<1>8. WaitInv
  <2>1. OwnGap \in 0 .. OwnGap /\ 0 \in 0 .. Burst /\ OwnGap \in Nat
    BY FramesAssumption
  <2> QED
    BY <1>1, <2>1, Zenon DEF WaitInv
<1>9. RingGetsEveryPayload
  BY <1>1 DEF RingGetsEveryPayload
<1> QED
  BY <1>3, <1>5, <1>6, <1>7, <1>8, <1>9, Zenon DEF IInv, MuxInv

\* The steps that leave the sender alone, and those that leave the receiver.
LEMMA IInvNext ==
  ASSUME IInv, [Next]_vars
  PROVE  IInv'
<1>0. /\ SourceInv /\ MuxInv /\ CplInv /\ wire \in Seq(BeatType)
      /\ WaitInv /\ RingGetsEveryPayload
  BY Zenon DEF IInv, MuxInv
<1>1. ASSUME UNCHANGED rxVars
      PROVE  WaitInv' /\ RingGetsEveryPayload'
  <2>1. /\ present' = present /\ pending' = pending /\ since' = since /\ shown' = shown
        /\ write' = write /\ ring' = ring /\ due' = due
    BY <1>1, Zenon DEF rxVars
  <2> QED
    BY <1>0, <2>1, Zenon DEF WaitInv, RingGetsEveryPayload
<1>2. ASSUME NEW s \in Sources, Offer(s) PROVE IInv'
  <2>1. wire' = wire /\ UNCHANGED rxVars /\ UNCHANGED <<todo, cpls, cpl>>
    BY <1>2, Zenon DEF Offer
  <2> QED
    BY <1>0, <1>1, <1>2, <2>1, MuxInvKept, CplInvKept, Zenon DEF IInv
<1>3. ASSUME NEW ready \in BOOLEAN, MuxCycle(ready) PROVE IInv'
  <2>1. (Idles \/ Sends) /\ UNCHANGED cpl /\ UNCHANGED rxVars
    BY <1>0, <1>3, MuxCycleIs, Zenon DEF CplInv
  <2>2. MuxInv' /\ CplInv'
    BY <1>0, <2>1, MuxInvKept, CplInvKept, Zenon
  <2>3. wire' \in Seq(BeatType)
    <3>1. CASE Idles
      BY <1>0, <3>1, Zenon DEF Idles
    <3>2. CASE Sends
      <4>1. Beat(sel, todo[sel]) \in BeatType
        BY <1>0, <3>2, SendsIs, Zenon
      <4>2. wire' = wire \o <<Beat(sel, todo[sel])>>
        BY <3>2, Zenon DEF Sends
      <4> QED
        BY <1>0, <4>1, <4>2, Appending
    <3> QED
      BY <2>1, <3>1, <3>2, Zenon
  <2> QED
    BY <2>1, <2>2, <2>3, <1>1, Zenon DEF IInv
<1>4. ASSUME NEW ready \in BOOLEAN, Complete(ready) PROVE IInv'
  <2>1. wire' = wire /\ UNCHANGED rxVars /\ UNCHANGED muxVars
    BY <1>4, Zenon DEF Complete
  <2> QED
    BY <1>0, <1>1, <1>4, <2>1, MuxInvKept, CplInvKept, Zenon DEF IInv
<1>5. ASSUME NEW arrives \in BOOLEAN, NEW bad \in BOOLEAN, NEW accepted \in BOOLEAN,
             NEW mine \in Mine, arrives => wire # <<>>,
             RxCycle(IF arrives THEN <<Head(wire)>> ELSE <<>>, bad, accepted, mine),
             BurstIsOver => present' = None
      PROVE  IInv'
  <2>1. UNCHANGED muxVars /\ UNCHANGED <<todo, cpls, cpl>>
    BY <1>5, Zenon DEF RxCycle, muxVars
  <2>2. MuxInv' /\ CplInv'
    BY <1>0, <2>1, MuxInvKept, CplInvKept, Zenon
  <2>3. wire' \in Seq(BeatType) /\ WaitInv' /\ RingGetsEveryPayload'
    BY <1>0, <1>5, WireIsKept, WaitRx, RingRx, Zenon
  <2> QED
    BY <2>2, <2>3, Zenon DEF IInv
<1>6. CASE UNCHANGED vars
  <2>1. /\ wire' = wire /\ UNCHANGED rxVars /\ UNCHANGED muxVars
        /\ UNCHANGED <<todo, cpls, cpl>>
    BY <1>6, Zenon DEF vars, rxVars, muxVars
  <2> QED
    BY <1>0, <1>1, <2>1, MuxInvKept, CplInvKept, Zenon DEF IInv
<1> QED
  BY <1>2, <1>3, <1>4, <1>5, <1>6, Zenon DEF Next

THEOREM Invariance == Spec => []IInv
<1>1. Init => IInv
  BY IInvInit
<1>2. IInv /\ [Next]_vars => IInv'
  BY IInvNext
<1> QED
  BY <1>1, <1>2, PTL DEF Spec

\* The port sees whole frames, each beat once, and no beat is lost there: for
\* any frames of any number of beats.
THEOREM FramesAreWhole == Spec => []FramesLeaveWhole
<1>1. IInv => FramesLeaveWhole
  BY Zenon DEF IInv, MuxInv
<1> QED
  BY <1>1, Invariance, PTL

\* Each completion reaches the one that sent the frame, in order, once.
THEOREM CompletionsComeHome == Spec => []CompletionsGoHome
<1>1. IInv => CompletionsGoHome
  BY ComeHome, Zenon DEF IInv
<1> QED
  BY <1>1, Invariance, PTL

\* One register is enough for the payloads that find the ring's port taken, over
\* any number of rounds, as long as in no round the peers' frames take up all the
\* cycles between two payloads of the node's own (rx_engine.v:139-145, 205-225).
THEOREM EveryPayloadIsWritten == Spec => []RingGetsEveryPayload
<1>1. IInv => RingGetsEveryPayload
  BY Zenon DEF IInv
<1> QED
  BY <1>1, Invariance, PTL
=============================================================================
