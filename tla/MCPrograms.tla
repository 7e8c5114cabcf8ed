----------------------------- MODULE MCPrograms -----------------------------
(***************************************************************************)
(* Programs beside the daemon, checked in one run: those that work through *)
(* a task and must come to an end (the debates, the symbol walk over a     *)
(* language server and the component tree printed from it), and two        *)
(* screens.  They share no state: a behaviour is about one part, and the   *)
(* others do not move.                                                     *)
(***************************************************************************)
EXTENDS Debate, BackgroundDebate, LspClient, ComponentTree, RequestTable, DashboardPopups

VARIABLE part

DebatersValue == <<"x", "y">>
UsesValue == <<"main", "a", "b", "a">>
NodesValue == {<<"main", 1>>, <<"main", 2>>, <<"lib", 1>>, <<"deep", 1>>}
BroadValue == <<"main", 1>>

Init ==
    /\ part \in {"debate", "background", "lsp", "tree", "table", "popups"}
    /\ DebateInit /\ BackgroundInit /\ LspInit /\ TableInit /\ PopupsInit
    /\ part # "background" => target = Absent /\ startCodex
    /\ IF part = "tree" THEN TreeInit ELSE given = [kind |-> "none"] /\ answer = <<>>
    /\ part # "table" => \A r \in RequestIDs : browser[r] = [state |-> "new", url |-> "u", redirects |-> 0]
    /\ part # "popups" => selected = ""

Next ==
    /\ UNCHANGED part
    /\ \/ part = "debate" /\ DebateNext /\ UNCHANGED <<backgroundVars, lspVars, treeVars, tableVars, popupVars>>
       \/ part = "background" /\ BackgroundNext /\ UNCHANGED <<debateVars, lspVars, treeVars, tableVars, popupVars>>
       \/ part = "lsp" /\ LspNext /\ UNCHANGED <<debateVars, backgroundVars, treeVars, tableVars, popupVars>>
       \/ part = "tree" /\ TreeNext /\ UNCHANGED <<debateVars, backgroundVars, lspVars, tableVars, popupVars>>
       \/ part = "table" /\ TableNext /\ UNCHANGED <<debateVars, backgroundVars, lspVars, treeVars, popupVars>>
       \/ part = "popups" /\ PopupsNext /\ UNCHANGED <<debateVars, backgroundVars, lspVars, treeVars, tableVars>>

\* The driver runs, and a timer that is set goes off: an event stream that never
\* falls silent does not keep it from doing so.
DebateFairness ==
    WF_debateVars(part = "debate" /\ DriverSteps) /\ WF_debateVars(part = "debate" /\ markTimeouts)

\* Deadlines pass, and what the command does by itself it goes on doing; roles and
\* Codex may take for ever.
BackgroundFairness ==
    /\ WF_backgroundVars(part = "background" /\ Expire) /\ WF_backgroundVars(part = "background" /\ AgentDeadline)
    /\ WF_backgroundVars(part = "background" /\ CommandStep)

\* Clocks run, writes that return are made, the reader reads (and answers the server's
\* requests), and a server that reads obeys the exit notification.
LspFairness ==
    /\ WF_lspVars(part = "lsp" /\ WritesReturn /\ ClientWrites)
    /\ WF_lspVars(part = "lsp" /\ ClientStep) /\ WF_lspVars(part = "lsp" /\ TimesOut)
    /\ WF_lspVars(part = "lsp" /\ pipe # <<>> /\ (WritesReturn \/ Head(pipe).kind # "request") /\ ReadMessage)
    /\ WF_lspVars(part = "lsp" /\ step = "wait" /\ reads /\ ServerGone)

Spec ==
    /\ Init /\ [][Next]_<<part, debateVars, backgroundVars, lspVars, treeVars, tableVars, popupVars>>
    /\ DebateFairness /\ BackgroundFairness /\ LspFairness

\* Every program that works through a task comes to its end, whatever agents, roles and Codex
\* do, and whatever a language server does but live on without reading its input: DebateEnds,
\* BackgroundEnds and LspRunEnds of a behaviour about each.
WorkComesToAnEnd ==
    /\ part = "debate" => DebateEnds
    /\ part = "background" => BackgroundEnds
    /\ part = "lsp" => LspRunEnds
=============================================================================
