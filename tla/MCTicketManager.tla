-------------------------- MODULE MCTicketManager --------------------------
\* TicketManager for TLC.
EXTENDS TicketManager

=============================================================================
