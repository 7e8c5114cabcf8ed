--------------------------- MODULE MCPaneRegistry ---------------------------
\* PaneRegistry for TLC.  Callers are interchangeable.
EXTENDS PaneRegistry, TLC

CallerSymmetry == Permutations(Callers)

=============================================================================
