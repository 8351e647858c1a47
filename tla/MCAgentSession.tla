---- MODULE MCAgentSession ----
\* The code keeps 4 messages, starts above a configured threshold and splits
\* above 10; here 2, 3 and 4, so that a few short turns reach all three, and the
\* second message is oversized.
EXTENDS AgentSession
===============================
