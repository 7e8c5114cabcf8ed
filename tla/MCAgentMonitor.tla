--------------------------- MODULE MCAgentMonitor ---------------------------
\* AgentMonitor for TLC; the bounds are in the configurations.
EXTENDS AgentMonitor

=============================================================================
