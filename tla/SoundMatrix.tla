----------------------------- MODULE SoundMatrix -----------------------------
(***************************************************************************)
(* The pure rules with which a node judges one round stage.                *)
(*                                                                         *)
(* A stage collects a square matrix: rows[m] is the observation node m     *)
(* advertised for the stage's round, "the peers I heard from", as the set  *)
(* of bits set in the bitmap; {} is the bitmap 0 and also the value of     *)
(* `stage.rows.get(member, 0)` for a member nothing was received from.     *)
(* proposals[m] is the payload received from m, or NoProposal.             *)
(*                                                                         *)
(* `members` is the stage's installed membership.  The quorum is never     *)
(* drawn from it: it is a majority of the PHYSICAL cluster, Node.          *)
(***************************************************************************)
EXTENDS Integers, FiniteSets

CONSTANT Node       \* the physical nodes, node.py's range(node_count)

ASSUME NodeAssumption == IsFiniteSet(Node)

NoProposal == -1    \* a member absent from stage.proposals

\* MUTANT: half of the nodes is taken for a majority.
QuorumIsHalf == Cardinality(Node) \div 2

\* MUTANT: every physical node has to agree.
QuorumIsAll == Cardinality(Node)

Quorum == (Cardinality(Node) \div 2) + 1

RowIsValid(src, row) == row = {} \/ src \in row

\* The members whose advertised row is the one `self` holds for itself.
Witnesses(self, members, rows) == {m \in members : rows[m] = rows[self]}

HasAgreedRow(self, members, rows) ==
  /\ \A m \in members : RowIsValid(m, rows[m])
  /\ self \in members
  /\ rows[self] # {}
  /\ Cardinality(Witnesses(self, members, rows)) >= Quorum

\* Given an agreed row, these are it and the two sets derived from it.
AgreedRow(self, rows) == rows[self]

SoundSet(self, members, rows) == Witnesses(self, members, rows)

CommitSetIsValid(self, rows, proposals) ==
  \A m \in AgreedRow(self, rows) : proposals[m] # NoProposal

\* The verdict on a stage, in the order in which the code tests the conditions.
\* `sound` is the node's sound set before this boundary.
Verdict(self, members, rows, proposals, sound) ==
  IF ~HasAgreedRow(self, members, rows) THEN "no_agreed_row"
  ELSE IF ~CommitSetIsValid(self, rows, proposals) THEN "commit_set_not_valid"
  ELSE IF self \notin SoundSet(self, members, rows)
       THEN "local_node_excluded_from_sound_set"
  ELSE IF ~(SoundSet(self, members, rows) \subseteq sound)
       THEN "sound_set_not_subset_of_previous_set"
  ELSE "commit"

Verdicts == {"no_agreed_row", "commit_set_not_valid",
             "local_node_excluded_from_sound_set",
             "sound_set_not_subset_of_previous_set", "commit"}
=============================================================================
