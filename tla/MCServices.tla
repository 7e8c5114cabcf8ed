----------------------------- MODULE MCServices -----------------------------
(***************************************************************************)
(* Services that go on for ever, checked in one run, with the execution    *)
(* plan of one request.  They share no state: a behaviour is about one     *)
(* part, and the others do not move.                                       *)
(***************************************************************************)
EXTENDS VoiceNotifications, AgentService, AgentFocus, ExecutionPlan, TabPanes, RuntimeDashboard

VARIABLE part

NodeOrderValue == <<"g", "p", "h", "q">>
GroupOfValue == [n \in {"p", "q"} |-> IF n = "q" THEN "h" ELSE "g"]
PlanTabsValue == << <<1>>, <<2, 3, 4>> >>

Init ==
    /\ part \in {"voice", "agents", "focus", "plan", "tabs", "dashboard"}
    /\ VoiceInit /\ ServiceInit /\ FocusInit /\ PlanInit /\ TabInit /\ RuntimeInit
    /\ part # "voice" => \A a \in VoiceAgents : agent[a].notify
    /\ part # "tabs" => \A t \in Tabs : tabs[t] = "open"

Next ==
    /\ UNCHANGED part
    /\ \/ part = "voice" /\ VoiceNext /\ UNCHANGED <<serviceVars, focusVars, planVars, tabVars, runtimeVars>>
       \/ part = "agents" /\ ServiceNext /\ UNCHANGED <<vars, focusVars, planVars, tabVars, runtimeVars>>
       \/ part = "focus" /\ FocusNext /\ UNCHANGED <<vars, serviceVars, planVars, tabVars, runtimeVars>>
       \/ part = "plan" /\ PlanNext /\ UNCHANGED <<vars, serviceVars, focusVars, tabVars, runtimeVars>>
       \/ part = "tabs" /\ TabNext /\ UNCHANGED <<vars, serviceVars, focusVars, planVars, runtimeVars>>
       \/ part = "dashboard" /\ RuntimeNext /\ UNCHANGED <<vars, serviceVars, focusVars, planVars, tabVars>>

\* One goroutine speaks, and a speech ends: its context is cancelled by Close.
VoiceFairness == WF_vars(part = "voice" /\ SpeakNext) /\ WF_vars(part = "voice" /\ Finish)

\* Requests run to their end, and dashboards list the agents again and again.
ServiceFairness ==
    /\ \A a \in Agents : WF_serviceVars(part = "agents" /\ StartStep(a)) /\ WF_serviceVars(part = "agents" /\ DeleteClosed(a))
    /\ \A l \in Listers : WF_serviceVars(part = "agents" /\ ListStep(l))

\* Spawner and trackers poll for ever, and the daemon decides what it is asked.
TabFairness ==
    /\ WF_tabVars(part = "tabs" /\ SpawnerStep) /\ WF_tabVars(part = "tabs" /\ TrackerQuits)
    /\ \A t \in Tabs : WF_tabVars(part = "tabs" /\ ChildEnds(t))
    /\ WF_tabVars(part = "tabs" /\ \E r \in asked : DaemonCreates(r))

\* The tick comes again and again, requests end, and bubbletea handles what arrives.
DashboardFairness ==
    /\ WF_runtimeVars(part = "dashboard" /\ requestRefresh)
    /\ WF_runtimeVars(part = "dashboard" /\ \E ps \in SUBSET Panes : HandleRefresh(ps))
    /\ WF_runtimeVars(part = "dashboard" /\ \E ok \in BOOLEAN : HandleSnapshot(ok))

\* What these services owe is done in the end: accepted requests are spoken, records of
\* agents whose panes went silently disappear, the trackers of closed tabs end and are
\* forgotten, and the selected pane has its output shown.
ServicesKeepUp ==
    AcceptedIsSpoken /\ OrphansRemoved /\ TrackerEndsWithTab /\ ClosedTabForgotten /\ SelectedPaneGetsOutput

Spec ==
    /\ Init /\ [][Next]_<<part, vars, serviceVars, focusVars, planVars, tabVars, runtimeVars>>
    /\ VoiceFairness /\ ServiceFairness /\ TabFairness /\ DashboardFairness
=============================================================================
