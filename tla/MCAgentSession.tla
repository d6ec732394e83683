--------------------------- MODULE MCAgentSession ---------------------------
(* Model-checking instance of AgentSession: a few streams of one Agent.    *)
EXTENDS AgentSession
=============================================================================
