-------------------------- MODULE MCCollaboration --------------------------
(* Instances of Collaboration: casts in which every role has an agent of its
   own (one for the patterns whose roles it fills), a cast in which one agent plans and verifies, and the cast of a tenant
   with a single agent. *)
EXTENDS Collaboration

CONSTANTS r1, v1

ByRole(roles) == [r \in roles |-> r]
Needed == {RolesOf(PatternPhases[p]) : p \in Patterns}
OwnAgents == {ByRole(roles) : roles \in {R \in Needed : \A Q \in Needed : R \subseteq Q => R = Q}}
BothCasts == OwnAgents \cup
  {[cast EXCEPT !["verifier"] = "planner"] : cast \in {c \in OwnAgents : {"planner", "verifier"} \subseteq DOMAIN c}}
OneAgent == {[r \in RolesOf(PatternPhases[p]) |-> "planner"] : p \in Patterns}
AnyCast == OwnAgents \cup OneAgent

Clients == Permutations(Requests)

AllPatterns == DOMAIN PatternPhases
NoDebate == AllPatterns \ {"debate_resolve"}
Short == {"plan_verify"}
Debate == {"debate_resolve"}

(* Two rounds and a repeated entry; a shorter board where clients meet the workflow. *)
Bound == [p \in Patterns |-> IF p \in Joint THEN 3 ELSE 8]

(* What BoardFollowsPattern is proved from holds where it is checked. *)
ASSUME RefusedWhereChecked == "debate_resolve" \notin Driven => RetryIsRefused
=============================================================================
