------------------------- MODULE MCExternalAgents -------------------------
(* Instances of ExternalAgents: two agents, one of which falls back to the *)
(* other or to itself, and the other to nobody or to the first.            *)
EXTENDS ExternalAgents

CONSTANTS a, b, c1, c2

SomeGraphs == {g \in [Agents -> Agents \cup {NoAgent}] : g[a] # NoAgent /\ g[b] # b}
=============================================================================
