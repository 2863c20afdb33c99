---------------------------- MODULE MCAgentLink ----------------------------
(* Instances of AgentLink for TLC.                                         *)
EXTENDS AgentLink

CONSTANTS a1, a2, p1, p2, p3, c1, c2, c3, k1, k2

\* Every process presents the token of the one agent.
OneAgent == [p \in Clients |-> a1]

\* One agent has two processes, another one.
TwoAgents == [p \in Clients |-> IF p = p3 THEN a2 ELSE a1]
=============================================================================
