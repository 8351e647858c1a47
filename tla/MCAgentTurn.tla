---- MODULE MCAgentTurn ----
\* Three rounds of up to three calls: the same call can be made nine times, and
\* compression meets requests of up to nine messages and more.
EXTENDS AgentTurn
============================
