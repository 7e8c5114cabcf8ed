-------------------------- MODULE MCFollowupQueue --------------------------
\* FollowupQueue for TLC.  Texts are only compared for equality, so permuting
\* them is a symmetry of the safety runs.
EXTENDS FollowupQueue, TLC

TextSymmetry == Permutations(Texts)

\* The delivery run states nothing about acknowledgements: the history variable
\* acks influences no other variable, so states that differ in it only are one.
WithoutAcks == <<q, dirty, pc, wait, op, obs, writerVars, agentVars, crashes,
                 log, unsettled, pauseAcked>>

=============================================================================
