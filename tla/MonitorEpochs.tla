--------------------------- MODULE MonitorEpochs ---------------------------
(***************************************************************************)
(* What the agent monitor promises to those who compare two observations   *)
(* of it, above all the follow-up dispatcher: an epoch names one unbroken  *)
(* stretch of observation and is never used again, and within an epoch the *)
(* revision counts the working periods and never goes back.  Epoch 0 means *)
(* that the agent is not observed.                                         *)
(***************************************************************************)
EXTENDS Naturals

VARIABLES epoch, revision, issued, working

vars == <<epoch, revision, issued, working>>

Init == epoch = 0 /\ revision = 0 /\ issued = 0 /\ working = FALSE

\* Observation begins, or begins anew.
Begin ==
    /\ issued' > issued /\ epoch' = issued' /\ revision' = 0
    /\ working' \in BOOLEAN

\* The agent is seen to start working.
Work == ~working /\ working' /\ revision' = revision + 1 /\ UNCHANGED <<epoch, issued>>

Rest == working /\ ~working' /\ UNCHANGED <<epoch, revision, issued>>

Lose == epoch' = 0 /\ revision' = 0 /\ ~working' /\ UNCHANGED issued

Next == Begin \/ Work \/ Rest \/ Lose

Spec == Init /\ [][Next]_vars

=============================================================================
