---- MODULE MCAgentLoop ----
\* A queue of one, so that publishers wait; two tool calls in a turn, so that one
\* can send and the other wait for a subagent's lock; one turn beside Run.
EXTENDS AgentLoop
============================
