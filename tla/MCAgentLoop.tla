---------------------------- MODULE MCAgentLoop -----------------------------
EXTENDS AgentLoop
=============================================================================
