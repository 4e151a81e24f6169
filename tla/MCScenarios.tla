----------------------------- MODULE MCScenarios -----------------------------
(* The built-in scenarios for as many rounds as they document and for a few    *)
(* rounds more, and the campaign.                                              *)
EXTENDS Scenarios

MCRuns ==
  {[name |-> name, rounds |-> ReferenceRounds[name] + more] :
     name \in DOMAIN Expectation, more \in {-1, 0, 3}}
  \cup {[name |-> "random_campaign", rounds |-> 8]}
=============================================================================
