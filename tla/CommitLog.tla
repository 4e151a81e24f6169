------------------------------ MODULE CommitLog ------------------------------
(***************************************************************************)
(* What the fast path promises its application: one replicated log.        *)
(*                                                                         *)
(* `decision` is the sequence of committed rounds the cluster agrees on,   *)
(* and a node has applied a prefix of it.  Some node is the first to       *)
(* commit a round; everyone else who ever commits that round learns the    *)
(* same members with the same payloads.  A round is only committed with    *)
(* the proposals of a majority of the physical nodes.  The first two       *)
(* rounds of a run are collected before anything has been judged, so they  *)
(* are unrelated; from then on the members of a round are members of every *)
(* round before it: nobody comes back within a run.                        *)
(***************************************************************************)
EXTENDS Integers, Sequences, FiniteSets

CONSTANT Node

VARIABLES
  decision,   \* decision[r + 1] is the set of members committed for round r
  applied     \* applied[n]: how many rounds node n has committed

logVars == <<decision, applied>>

CommitQuorum == (Cardinality(Node) \div 2) + 1

Init ==
  /\ decision = <<>>
  /\ applied = [n \in Node |-> 0]

\* Node n is the first to commit the next round.
Decide(n) ==
  /\ applied[n] = Len(decision)
  /\ \E members \in SUBSET Node :
       /\ Cardinality(members) >= CommitQuorum
       /\ Len(decision) >= 2 =>
            \A k \in 1 .. Len(decision) : members \subseteq decision[k]
       /\ decision' = Append(decision, members)
  /\ applied' = [applied EXCEPT ![n] = @ + 1]

\* Node n commits a round that another node committed before.
Learn(n) ==
  /\ applied[n] < Len(decision)
  /\ applied' = [applied EXCEPT ![n] = @ + 1]
  /\ UNCHANGED decision

Next == \E n \in Node : Decide(n) \/ Learn(n)

Spec == Init /\ [][Next]_logVars
=============================================================================
