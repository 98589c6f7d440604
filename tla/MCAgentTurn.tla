----------------------------- MODULE MCAgentTurn -----------------------------
(* The instances of AgentTurn that TLC checks.                             *)
EXTENDS AgentTurnInvariant

MCRequest == Egress \X (1 .. MaxRounds)
=============================================================================
