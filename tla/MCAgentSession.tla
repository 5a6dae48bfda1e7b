--------------------------- MODULE MCAgentSession ---------------------------
(* AgentSession with model values for TLC. *)
EXTENDS AgentSession, TLC

CONSTANTS p1, p2, p3, p4, c1, c2, r1, r2

=============================================================================
