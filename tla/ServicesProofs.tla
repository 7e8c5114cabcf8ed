--------------------------- MODULE ServicesProofs ---------------------------
(***************************************************************************)
(* The proofs about six parts of the daemon and its programs that share    *)
(* no state.  StartAgent (codingagent/service.go) and ApplyExecutionPlan   *)
(* (runtime/execution_plan.go) change several stores in several steps      *)
(* while others look on: all or nothing.  The keys for the next and the    *)
(* previous agent (codingagent/service.go) go round all agents.  The       *)
(* panes of browser tabs (agent-role/tabnetwork) last as long as their     *)
(* tabs.  The runtime dashboard (dashboard/model.go) keeps its selection.  *)
(* What the voice service (internal/voice) says is said once.              *)
(***************************************************************************)
EXTENDS AgentService, ExecutionPlan, AgentFocus, TabPanes, RuntimeDashboard,
    VoiceNotifications, SequenceTheorems, FiniteSetTheorems, WellFoundedInduction, TLAPS

-----------------------------------------------------------------------------
(* StartAgent.                                                             *)

\* The agent service by itself.
ServiceSpec == ServiceInit /\ [][ServiceNext]_serviceVars

OwnerState == {"none", "provisioning", "active"}
StartState == {"new", "registered", "watched", "unwatchable", "unplaced", "placed", "done", "failed"}
PaneState == {"none", "open", "terminal", "removed"}

\* What a ListAgents request holds: the snapshot's agents with their owners, and the
\* panes it found.
Listing == [at: {"idle", "snapshot", "panes"},
            seen: UNION {[S -> OwnerState] : S \in SUBSET Agents},
            panes: SUBSET Agents]

\* The variables of the agent service keep their types.
ServiceTypeOK ==
    /\ stored \subseteq Agents /\ watched \subseteq Agents /\ leaving \subseteq Agents
    /\ owner \in [Agents -> OwnerState]
    /\ start \in [Agents -> StartState]
    /\ pane \in [Agents -> PaneState]
    /\ lister \in [Listers -> Listing]

\* While StartAgent runs it owns the record; that is what cleanupOrphan asks for.
StartOwns ==
    \A a \in Agents :
       start[a] \in {"registered", "watched", "unwatchable", "unplaced", "placed"}
          => owner[a] = "provisioning"

\* An agent has a pane, of whatever state, exactly when its start got that far.
PanesArePlaced == \A a \in Agents : pane[a] # "none" <=> start[a] \in {"placed", "done"}

\* Only an agent that was registered has a record, and only one whose pane has gone
\* is about to lose it to PaneClosed.
RecordsAreStarted ==
    /\ \A a \in Agents : start[a] = "new" => a \notin stored
    /\ \A a \in Agents : start[a] \in {"unwatchable", "unplaced"} => a \in stored
    /\ \A a \in Agents : start[a] \in {"new", "registered", "unwatchable"} => a \notin watched
    /\ \A a \in leaving : pane[a] \in {"terminal", "removed"}

\* What a snapshot says of an agent it saw without a start under way stays true: the
\* start has succeeded, so a pane that is missing from the later listing is gone for good.
SnapshotsHold ==
    \A l \in Listers : \A a \in DOMAIN lister[l].seen :
       lister[l].seen[a] # "provisioning" =>
          /\ start[a] = "done"
          /\ lister[l].at = "panes" /\ a \notin lister[l].panes => pane[a] = "removed"

\* The inductive invariant of the agent service.
ServiceInv ==
    /\ ServiceTypeOK /\ StartOwns /\ PanesArePlaced /\ RecordsAreStarted /\ SnapshotsHold
    /\ StartIsAllOrNothing

LEMMA ServiceInitInv ==
    ASSUME ServiceInit, ServiceAssumption
    PROVE  ServiceInv
<1> USE DEF ServiceInit, Idle
<1>1. [a \in {} |-> "none"] \in UNION {[S -> OwnerState] : S \in SUBSET Agents}
  <2>1. [a \in {} |-> "none"] \in [{} -> OwnerState]
    OBVIOUS
  <2> QED BY <2>1
<1>2. Idle \in Listing
  BY <1>1 DEF Listing
<1>3. ServiceTypeOK
  BY <1>2, ServiceAssumption DEF ServiceTypeOK, OwnerState, StartState, PaneState
<1>4. StartOwns /\ PanesArePlaced /\ RecordsAreStarted
  BY ServiceAssumption DEF StartOwns, PanesArePlaced, RecordsAreStarted
<1>5. SnapshotsHold
  BY DEF SnapshotsHold
<1>6. StartIsAllOrNothing
  BY ServiceAssumption DEF StartIsAllOrNothing, RunningAgentKept, FailedStartLeavesNothing
<1> QED BY <1>3, <1>4, <1>5, <1>6 DEF ServiceInv

\* Sweeping the owners touches none that is provisioning.
LEMMA SweptOwners ==
    ASSUME owner \in [Agents -> OwnerState]
    PROVE  /\ Swept(owner) \in [Agents -> OwnerState]
           /\ \A a \in Agents : (Swept(owner)[a] = "provisioning") <=> (owner[a] = "provisioning")
           /\ \A a \in Agents : owner[a] = "none" => Swept(owner)[a] = "none"
  BY DEF Swept, OwnerState

\* A step of StartAgent, or of the agent's pane.
LEMMA AgentStepInv ==
    ASSUME ServiceInv, NEW a \in Agents,
           registerStart(a) \/ StartStep(a) \/ PaneClosed(a) \/ DeleteClosed(a) \/ Cleanup(a)
    PROVE  ServiceInv'
<1> USE DEF ServiceInv, ServiceTypeOK
<1>0. lister' = lister
  BY DEF registerStart, StartStep, StartMonitor, ObtainPane, cleanupOwnedRecord,
         markOwnerState, PaneClosed, DeleteClosed, Cleanup
<1>1. CASE registerStart(a)
  <2>1. /\ owner' \in [Agents -> OwnerState] /\ owner'[a] = "provisioning"
        /\ \A b \in Agents \ {a} : (owner'[b] = "provisioning") <=> (owner[b] = "provisioning")
        /\ \A b \in Agents \ {a} : owner[b] = "none" => owner'[b] = "none"
    BY <1>1, SweptOwners DEF registerStart, OwnerState
  <2>2. /\ start' \in [Agents -> StartState] /\ start'[a] = "registered" /\ start[a] = "new"
        /\ \A b \in Agents \ {a} : start'[b] = start[b]
        /\ stored' = stored \union {a} /\ UNCHANGED <<watched, pane, leaving, lister>>
    BY <1>1 DEF registerStart, StartState
  <2>3. ServiceTypeOK'
    BY <2>1, <2>2
  <2>4. StartOwns' /\ PanesArePlaced'
    BY <2>1, <2>2 DEF StartOwns, PanesArePlaced
  <2>5. RecordsAreStarted'
    BY <2>2 DEF RecordsAreStarted
  <2>6. SnapshotsHold'
    BY <2>2 DEF SnapshotsHold, Listing
  <2>7. StartIsAllOrNothing'
    BY <2>1, <2>2, <2>3 DEF StartIsAllOrNothing, RunningAgentKept, FailedStartLeavesNothing
  <2> QED BY <2>3, <2>4, <2>5, <2>6, <2>7
<1>2. CASE StartMonitor(a)
  <2>1. ServiceTypeOK'
    BY <1>2 DEF StartMonitor, StartState
  <2>2. StartOwns' /\ PanesArePlaced'
    BY <1>2 DEF StartMonitor, StartOwns, PanesArePlaced, StartState
  <2>3. RecordsAreStarted'
    BY <1>2 DEF StartMonitor, RecordsAreStarted, StartIsAllOrNothing, RunningAgentKept, PanesArePlaced
  <2>4. SnapshotsHold'
    BY <1>2 DEF StartMonitor, SnapshotsHold, Listing
  <2>5. StartIsAllOrNothing'
    BY <1>2 DEF StartMonitor, StartIsAllOrNothing, RunningAgentKept, FailedStartLeavesNothing
  <2> QED BY <2>1, <2>2, <2>3, <2>4, <2>5
<1>3. CASE ObtainPane(a)
  <2>1. ServiceTypeOK'
    BY <1>3 DEF ObtainPane, StartState, PaneState
  <2>2. StartOwns' /\ PanesArePlaced'
    BY <1>3 DEF ObtainPane, StartOwns, PanesArePlaced
  <2>3. RecordsAreStarted'
    BY <1>3 DEF ObtainPane, RecordsAreStarted, PanesArePlaced, StartIsAllOrNothing, RunningAgentKept
  <2>4. SnapshotsHold'
    BY <1>3 DEF ObtainPane, SnapshotsHold, Listing
  <2>5. StartIsAllOrNothing'
    BY <1>3 DEF ObtainPane, StartIsAllOrNothing, RunningAgentKept, FailedStartLeavesNothing, PanesArePlaced
  <2> QED BY <2>1, <2>2, <2>3, <2>4, <2>5
<1>4. CASE cleanupOwnedRecord(a)
  <2>1. ServiceTypeOK'
    BY <1>4 DEF cleanupOwnedRecord, StartState, OwnerState
  <2>2. StartOwns' /\ PanesArePlaced'
    BY <1>4 DEF cleanupOwnedRecord, StartOwns, PanesArePlaced
  <2>3. RecordsAreStarted'
    BY <1>4 DEF cleanupOwnedRecord, RecordsAreStarted
  <2>4. SnapshotsHold'
    BY <1>4 DEF cleanupOwnedRecord, SnapshotsHold, Listing
  <2>5. a \notin stored' /\ a \notin watched' /\ owner'[a] = "none"
    BY <1>4 DEF cleanupOwnedRecord, RecordsAreStarted, StartOwns
  <2>6. StartIsAllOrNothing'
    BY <1>4, <2>5 DEF cleanupOwnedRecord, StartIsAllOrNothing, RunningAgentKept, FailedStartLeavesNothing
  <2> QED BY <2>1, <2>2, <2>3, <2>4, <2>6
<1>5. CASE markOwnerState(a)
  <2>1. ServiceTypeOK'
    BY <1>5 DEF markOwnerState, StartState, OwnerState
  <2>2. StartOwns' /\ PanesArePlaced'
    BY <1>5 DEF markOwnerState, StartOwns, PanesArePlaced
  <2>3. RecordsAreStarted'
    BY <1>5 DEF markOwnerState, RecordsAreStarted
  <2>4. SnapshotsHold'
    BY <1>5 DEF markOwnerState, SnapshotsHold, Listing
  <2>5. StartIsAllOrNothing'
    BY <1>5 DEF markOwnerState, StartIsAllOrNothing, RunningAgentKept, FailedStartLeavesNothing
  <2> QED BY <2>1, <2>2, <2>3, <2>4, <2>5
<1>6. CASE PaneClosed(a)
  <2>1. ServiceTypeOK'
    BY <1>6 DEF PaneClosed, PaneState
  <2>2. StartOwns' /\ PanesArePlaced'
    BY <1>6 DEF PaneClosed, StartOwns, PanesArePlaced
  <2>3. RecordsAreStarted'
    BY <1>6 DEF PaneClosed, RecordsAreStarted
  <2>4. SnapshotsHold'
    BY <1>6 DEF PaneClosed, SnapshotsHold, Listing
  <2>5. StartIsAllOrNothing'
    BY <1>6 DEF PaneClosed, StartIsAllOrNothing, RunningAgentKept, FailedStartLeavesNothing
  <2> QED BY <2>1, <2>2, <2>3, <2>4, <2>5
<1>7. CASE DeleteClosed(a)
  <2>1. ServiceTypeOK'
    BY <1>7 DEF DeleteClosed
  <2>2. StartOwns' /\ PanesArePlaced'
    BY <1>7 DEF DeleteClosed, StartOwns, PanesArePlaced
  <2>3. RecordsAreStarted'
    BY <1>7 DEF DeleteClosed, RecordsAreStarted, PanesArePlaced
  <2>4. SnapshotsHold'
    BY <1>7 DEF DeleteClosed, SnapshotsHold, Listing
  <2>5. StartIsAllOrNothing'
    BY <1>7 DEF DeleteClosed, RecordsAreStarted, StartIsAllOrNothing, RunningAgentKept, FailedStartLeavesNothing
  <2> QED BY <2>1, <2>2, <2>3, <2>4, <2>5
<1>8. CASE Cleanup(a)
  <2>1. ServiceTypeOK'
    BY <1>8 DEF Cleanup, PaneState
  <2>2. StartOwns' /\ PanesArePlaced'
    BY <1>8 DEF Cleanup, StartOwns, PanesArePlaced
  <2>3. RecordsAreStarted'
    BY <1>8 DEF Cleanup, RecordsAreStarted
  <2>4. SnapshotsHold'
    BY <1>8 DEF Cleanup, SnapshotsHold, Listing
  <2>5. StartIsAllOrNothing'
    BY <1>8 DEF Cleanup, StartIsAllOrNothing, RunningAgentKept, FailedStartLeavesNothing
  <2> QED BY <2>1, <2>2, <2>3, <2>4, <2>5
<1> QED BY <1>1, <1>2, <1>3, <1>4, <1>5, <1>6, <1>7, <1>8 DEF StartStep

\* ListAgents: the snapshot, the panes, the agents one by one.
LEMMA ListStepInv ==
    ASSUME ServiceInv, NEW l \in Listers, ListStep(l)
    PROVE  ServiceInv'
<1> USE DEF ServiceInv, ServiceTypeOK
<1>t. lister[l] \in Listing
  OBVIOUS
<1>1. CASE snapshotAgents(l)
  <2>1. /\ owner' \in [Agents -> OwnerState]
        /\ \A b \in Agents : (owner'[b] = "provisioning") <=> (owner[b] = "provisioning")
        /\ \A b \in Agents : owner[b] = "none" => owner'[b] = "none"
    BY <1>1, SweptOwners DEF snapshotAgents
  <2>2. PICK g : g = [a \in stored |-> owner[a]]
    OBVIOUS
  <2>3. DOMAIN g = stored /\ g \in [stored -> OwnerState] /\ \A a \in stored : g[a] = owner[a]
    BY <2>2
  <2>4. g \in UNION {[S -> OwnerState] : S \in SUBSET Agents}
    BY <2>3
  <2>5. lister' = [lister EXCEPT ![l] = [at |-> "snapshot", seen |-> g, panes |-> {}]]
    <3>1. lister' = [lister EXCEPT ![l] = [Idle EXCEPT !.at = "snapshot", !.seen = g]]
      BY <1>1, <2>2, Zenon DEF snapshotAgents
    <3>2. PICK none : none = [a \in {} |-> "none"]
      OBVIOUS
    <3>3. Idle = [at |-> "idle", seen |-> none, panes |-> {}]
      BY <3>2, Zenon DEF Idle
    <3>4. [Idle EXCEPT !.at = "snapshot", !.seen = g] = [at |-> "snapshot", seen |-> g, panes |-> {}]
      <4>1. PICK mid : mid = [Idle EXCEPT !.at = "snapshot"]
        OBVIOUS
      <4>2. mid = [at |-> "snapshot", seen |-> none, panes |-> {}]
        BY <3>3, <4>1
      <4>3. PICK e : e = {}
        OBVIOUS
      <4>4. mid = [at |-> "snapshot", seen |-> none, panes |-> e]
        BY <4>2, <4>3, Zenon
      <4>5. [mid EXCEPT !.seen = g] = [at |-> "snapshot", seen |-> g, panes |-> e]
        BY <4>4
      <4> QED BY <4>1, <4>3, <4>5, Zenon
    <3> QED BY <3>1, <3>4, Zenon
  <2>6. UNCHANGED <<stored, start, watched, pane, leaving>>
    BY <1>1 DEF snapshotAgents
  <2>7. ServiceTypeOK'
    <3>1. [at |-> "snapshot", seen |-> g, panes |-> {}] \in Listing
      BY <2>4 DEF Listing
    <3> QED BY <2>1, <2>5, <2>6, <3>1
  <2>8. StartOwns' /\ PanesArePlaced' /\ RecordsAreStarted'
    BY <2>1, <2>6 DEF StartOwns, PanesArePlaced, RecordsAreStarted
  <2>9. \A a \in stored : owner[a] # "provisioning" => start[a] = "done"
    BY DEF StartOwns, RecordsAreStarted, StartIsAllOrNothing, FailedStartLeavesNothing, StartState
  <2>10. SnapshotsHold'
    BY <2>3, <2>5, <2>6, <2>9 DEF SnapshotsHold
  <2>11. StartIsAllOrNothing'
    BY <2>1, <2>6 DEF StartIsAllOrNothing, RunningAgentKept, FailedStartLeavesNothing
  <2> QED BY <2>7, <2>8, <2>10, <2>11
<1>2. CASE ListPanes(l)
  <2>1. PICK found : found = {a \in Agents : pane[a] \in {"open", "terminal"}}
    OBVIOUS
  <2>2. lister' = [lister EXCEPT ![l] = [at |-> "panes", seen |-> lister[l].seen, panes |-> found]]
    <3>1. lister' = [lister EXCEPT ![l].at = "panes", ![l].panes = found]
      BY <1>2, <2>1, Zenon DEF ListPanes
    <3>2. lister' = [lister EXCEPT ![l] = [lister[l] EXCEPT !.at = "panes", !.panes = found]]
      BY <3>1
    <3>3. [lister[l] EXCEPT !.at = "panes", !.panes = found]
            = [at |-> "panes", seen |-> lister[l].seen, panes |-> found]
      <4>1. PICK mid : mid = [lister[l] EXCEPT !.at = "panes"]
        OBVIOUS
      <4>2. mid = [at |-> "panes", seen |-> lister[l].seen, panes |-> lister[l].panes]
        BY <1>t, <4>1 DEF Listing
      <4>3. [mid EXCEPT !.panes = found] = [at |-> "panes", seen |-> lister[l].seen, panes |-> found]
        BY <4>2
      <4> QED BY <4>1, <4>3, Zenon
    <3> QED BY <3>2, <3>3, Zenon
  <2>3. UNCHANGED <<stored, owner, start, watched, pane, leaving>>
    BY <1>2 DEF ListPanes
  <2>4. ServiceTypeOK'
    <3>1. [at |-> "panes", seen |-> lister[l].seen, panes |-> found] \in Listing
      BY <1>t, <2>1 DEF Listing
    <3> QED BY <2>2, <2>3, <3>1
  <2>5. StartOwns' /\ PanesArePlaced' /\ RecordsAreStarted' /\ StartIsAllOrNothing'
    BY <2>3 DEF StartOwns, PanesArePlaced, RecordsAreStarted, StartIsAllOrNothing,
                RunningAgentKept, FailedStartLeavesNothing
  <2>6. DOMAIN lister[l].seen \subseteq Agents
    BY <1>t DEF Listing
  <2>7. \A a \in Agents \ found : start[a] = "done" => pane[a] = "removed"
    BY <2>1 DEF PanesArePlaced, PaneState
  <2>8. SnapshotsHold'
    BY <2>2, <2>3, <2>6, <2>7 DEF SnapshotsHold
  <2> QED BY <2>4, <2>5, <2>8
<1>3. CASE ListAgentsDone(l)
  <2>1. PICK g : g = [a \in {} |-> "none"]
    OBVIOUS
  <2>2. lister' = [lister EXCEPT ![l] = [at |-> "idle", seen |-> g, panes |-> {}]] /\ DOMAIN g = {}
    BY <1>3, <2>1 DEF ListAgentsDone, Idle
  <2>3. UNCHANGED <<stored, owner, start, watched, pane, leaving>>
    BY <1>3 DEF ListAgentsDone
  <2>4. g \in UNION {[S -> OwnerState] : S \in SUBSET Agents}
    <3>1. g \in [{} -> OwnerState]
      BY <2>1
    <3> QED BY <3>1
  <2>5. ServiceTypeOK'
    BY <2>2, <2>3, <2>4 DEF Listing
  <2>6. StartOwns' /\ PanesArePlaced' /\ RecordsAreStarted' /\ StartIsAllOrNothing'
    BY <2>3 DEF StartOwns, PanesArePlaced, RecordsAreStarted, StartIsAllOrNothing,
                RunningAgentKept, FailedStartLeavesNothing
  <2>7. SnapshotsHold'
    BY <2>2, <2>3 DEF SnapshotsHold
  <2> QED BY <2>5, <2>6, <2>7
<1>4. ASSUME NEW a \in Agents, ListAgent(l, a)
      PROVE  ServiceInv'
  <2>1. PICK g : g = [b \in DOMAIN lister[l].seen \ {a} |-> lister[l].seen[b]]
    OBVIOUS
  <2>2. /\ DOMAIN g = DOMAIN lister[l].seen \ {a}
        /\ \A b \in DOMAIN g : g[b] = lister[l].seen[b]
    BY <2>1
  <2>3. /\ lister' = [lister EXCEPT ![l] = [at |-> "panes", seen |-> g, panes |-> lister[l].panes]]
        /\ lister[l].at = "panes" /\ a \in DOMAIN lister[l].seen
        /\ UNCHANGED <<start, pane, leaving>>
    <3>1. /\ lister' = [lister EXCEPT ![l].seen = g]
          /\ lister[l].at = "panes" /\ a \in DOMAIN lister[l].seen
          /\ UNCHANGED <<start, pane, leaving>>
      BY <1>4, <2>1 DEF ListAgent
    <3>2. lister' = [lister EXCEPT ![l] = [lister[l] EXCEPT !.seen = g]]
      BY <3>1
    <3>3. [lister[l] EXCEPT !.seen = g] = [at |-> "panes", seen |-> g, panes |-> lister[l].panes]
      BY <1>t, <3>1 DEF Listing
    <3> QED BY <3>1, <3>2, <3>3, Zenon
  <2>4. g \in UNION {[S -> OwnerState] : S \in SUBSET Agents}
    <3>1. PICK S \in SUBSET Agents : lister[l].seen \in [S -> OwnerState]
      BY <1>t DEF Listing
    <3>2. g \in [S \ {a} -> OwnerState]
      BY <2>1, <3>1
    <3> QED BY <3>2
  <2>5. SnapshotsHold'
    BY <2>2, <2>3 DEF SnapshotsHold
  <2>6. CASE ~IsOrphan(l, a)
    <3>1. UNCHANGED <<stored, watched, owner>>
      BY <1>4, <2>6 DEF ListAgent
    <3>2. ServiceTypeOK'
      BY <1>t, <2>3, <2>4, <3>1 DEF Listing
    <3>3. StartOwns' /\ PanesArePlaced' /\ RecordsAreStarted' /\ StartIsAllOrNothing'
      BY <2>3, <3>1 DEF StartOwns, PanesArePlaced, RecordsAreStarted, StartIsAllOrNothing,
                        RunningAgentKept, FailedStartLeavesNothing
    <3> QED BY <2>5, <3>2, <3>3
  <2>7. CASE IsOrphan(l, a)
    <3>1. start[a] = "done" /\ pane[a] = "removed"
      BY <2>3, <2>7 DEF IsOrphan, SnapshotsHold
    <3>2. /\ stored' = stored \ {a} /\ watched' \in {watched, watched \ {a}}
          /\ owner' = [owner EXCEPT ![a] = "none"]
      BY <1>4, <2>7 DEF ListAgent
    <3>3. ServiceTypeOK'
      BY <1>t, <2>3, <2>4, <3>2 DEF Listing, OwnerState
    <3>4. StartOwns' /\ PanesArePlaced' /\ RecordsAreStarted'
      BY <2>3, <3>1, <3>2 DEF StartOwns, PanesArePlaced, RecordsAreStarted
    <3>5. StartIsAllOrNothing'
      BY <2>3, <3>1, <3>2 DEF StartIsAllOrNothing, RunningAgentKept, FailedStartLeavesNothing
    <3> QED BY <2>5, <3>3, <3>4, <3>5
  <2> QED BY <2>6, <2>7
<1> QED BY <1>1, <1>2, <1>3, <1>4 DEF ListStep

\* The invariant of the agent service holds in every reachable state.
THEOREM ServiceInductive == ServiceSpec => []ServiceInv
<1>1. ServiceInit => ServiceInv
  BY ServiceInitInv, ServiceAssumption
<1>2. ServiceInv /\ [ServiceNext]_serviceVars => ServiceInv'
  <2> SUFFICES ASSUME ServiceInv, [ServiceNext]_serviceVars PROVE ServiceInv'
    OBVIOUS
  <2>1. CASE UNCHANGED serviceVars
    BY <2>1 DEF serviceVars, ServiceInv, ServiceTypeOK, StartOwns, PanesArePlaced,
               RecordsAreStarted, SnapshotsHold, StartIsAllOrNothing, RunningAgentKept,
               FailedStartLeavesNothing
  <2> QED BY <2>1, AgentStepInv, ListStepInv DEF ServiceNext
<1> QED BY <1>1, <1>2, PTL DEF ServiceSpec

\* StartAgent is all or nothing for any number of agents, of which any may be restored
\* or untracked, and any number of concurrent ListAgents requests: a running agent
\* keeps its record and its monitor entry, and a start that failed leaves nothing.
THEOREM StartAllOrNothing == ServiceSpec => []StartIsAllOrNothing
<1>1. ServiceInv => StartIsAllOrNothing
  BY DEF ServiceInv
<1> QED BY <1>1, ServiceInductive, PTL

-----------------------------------------------------------------------------
(* ApplyExecutionPlan.                                                     *)

\* The execution of one plan by itself.
PlanSpec == PlanInit /\ [][PlanNext]_planVars

\* The variables of a plan keep their types.
PlanTypeOK ==
    /\ planStage \in {"first", "rest", "rollback", "success", "failed"}
    /\ tab \in DOMAIN PlanTabs
    /\ create \in [PlanPanes -> {"none", "made", "registered", "done", "refused", "failed"}]
    /\ zellijPane \in [PlanPanes -> BOOLEAN] /\ registered \in [PlanPanes -> BOOLEAN]
    /\ created \subseteq PlanPanes /\ exited \subseteq PlanPanes
    /\ cancelled \in BOOLEAN /\ partial \in BOOLEAN

\* A creation under way belongs to the step the plan is at: no goroutine outlives it.
NoneOutlivesItsStep ==
    \A p \in PlanPanes : create[p] \in {"made", "registered"} => Working(p)

\* What each creation has left behind, by its step.
TracesOfCreation ==
    \A p \in PlanPanes :
       /\ create[p] = "none" => ~zellijPane[p] /\ ~registered[p]
       /\ p \in created => create[p] = "done"
       /\ registered[p] /\ ~partial => create[p] = "registered" \/ p \in created
       /\ zellijPane[p] /\ ~registered[p] /\ ~partial
             => create[p] \in {"made", "refused"}
       /\ create[p] \in {"made", "registered"} => zellijPane[p] \/ p \in exited
       /\ create[p] = "registered" => registered[p] \/ p \in exited
       /\ p \in exited => ~zellijPane[p]
       /\ p \in exited => create[p] # "none"

\* Until it rolls back the plan keeps what it created, and everything in front of the
\* step it is at has been created.
CreatedSoFar ==
    planStage \in {"first", "rest", "success"} =>
       /\ \A p \in PlanPanes : create[p] = "done" => p \in created /\ ((zellijPane[p] /\ registered[p]) \/ p \in exited)
       /\ \A t \in DOMAIN PlanTabs : t < tab => \A p \in ToSet(PlanTabs[t]) : create[p] = "done"
       /\ planStage = "rest" => create[PlanTabs[tab][1]] = "done"
       /\ planStage = "success" => \A p \in PlanPanes : create[p] = "done"

\* The inductive invariant of a plan.
PlanInv ==
    /\ PlanTypeOK /\ NoneOutlivesItsStep /\ TracesOfCreation /\ CreatedSoFar
    /\ planStage = "failed" => created = {}

\* The panes of a tab are its first and the rest, and all are panes of the plan.
LEMMA TabPanesSplit ==
    ASSUME PlanAssumption, NEW t \in DOMAIN PlanTabs
    PROVE  /\ PlanTabs[t] \in Seq(Nat) /\ PlanTabs[t] # <<>> /\ Len(PlanTabs[t]) >= 1
           /\ PlanTabs[t][1] \in PlanPanes
           /\ ToSet(Tail(PlanTabs[t])) \subseteq PlanPanes
           /\ ToSet(PlanTabs[t]) = {PlanTabs[t][1]} \union ToSet(Tail(PlanTabs[t]))
<1>1. PICK s : s = PlanTabs[t]
  OBVIOUS
<1>2. s \in Seq(Nat) /\ s # <<>> /\ Len(s) \in Nat /\ Len(s) >= 1
  BY <1>1 DEF PlanAssumption
<1>3. ToSet(s) \subseteq PlanPanes
  BY <1>1 DEF PlanPanes
<1>4. ToSet(s) = {s[1]} \union ToSet(Tail(s))
  <2>1. ASSUME NEW x \in ToSet(s) PROVE x \in {s[1]} \union ToSet(Tail(s))
    <3>1. PICK i \in 1 .. Len(s) : s[i] = x
      BY <2>1, <1>2 DEF ToSet
    <3>2. CASE i = 1
      BY <3>1, <3>2
    <3>3. CASE i > 1
      <4>1. i - 1 \in 1 .. Len(Tail(s)) /\ Tail(s)[i - 1] = s[i]
        BY <1>2, <3>1, <3>3
      <4>2. i - 1 \in DOMAIN Tail(s)
        BY <1>2, <4>1
      <4> QED BY <3>1, <4>1, <4>2 DEF ToSet
    <3> QED BY <3>1, <3>2, <3>3
  <2>2. s[1] \in ToSet(s)
    BY <1>2 DEF ToSet
  <2>3. ASSUME NEW x \in ToSet(Tail(s)) PROVE x \in ToSet(s)
    <3>1. PICK i \in 1 .. Len(Tail(s)) : Tail(s)[i] = x
      <4>1. Tail(s) \in Seq(Nat)
        BY <1>2, HeadTailProperties, Zenon
      <4>2. DOMAIN Tail(s) = 1 .. Len(Tail(s))
        BY <4>1, LenProperties, Zenon
      <4>3. PICK i \in DOMAIN Tail(s) : Tail(s)[i] = x
        BY <2>3, Zenon DEF ToSet
      <4> QED BY <4>2, <4>3, Zenon
    <3>2. i + 1 \in 1 .. Len(s) /\ s[i + 1] = x
      BY <1>2, <3>1
    <3> QED BY <1>2, <3>2 DEF ToSet
  <2> QED BY <2>1, <2>2, <2>3
<1> QED BY <1>1, <1>2, <1>3, <1>4

\* A tab of one pane has no others.
LEMMA SingleHasNoTail ==
    ASSUME NEW s \in Seq(Nat), s # <<>>, Len(s) >= 1, ~(Len(s) > 1)
    PROVE  ToSet(Tail(s)) = {}
<1>1. PICK n \in Nat : n = Len(s)
  BY LenProperties
<1>2. Tail(s) \in Seq(Nat) /\ Len(Tail(s)) = n - 1 /\ n >= 1 /\ ~(n > 1)
  BY <1>1, HeadTailProperties, Zenon
<1>n. n = 1
  BY <1>2
<1>3. DOMAIN Tail(s) = {}
  BY <1>2, <1>n
<1> QED BY <1>3 DEF ToSet

LEMMA PlanInitInv ==
    ASSUME PlanInit, PlanAssumption
    PROVE  PlanInv
<1>1. 1 \in DOMAIN PlanTabs /\ \A t \in DOMAIN PlanTabs : ~(t < 1)
  BY DEF PlanAssumption
<1>2. PlanTypeOK
  BY <1>1 DEF PlanInit, PlanTypeOK
<1> QED BY <1>1, <1>2 DEF PlanInit, PlanInv, NoneOutlivesItsStep, TracesOfCreation, CreatedSoFar

\* A step of one pane's creation, or of its clean-up in the rollback.
LEMMA PaneStepInv ==
    ASSUME PlanInv, PlanAssumption, NEW p \in PlanPanes,
           \/ BackendCreates(p) \/ BackendFails(p) \/ RegisterPane(p) \/ RegisterFails(p)
           \/ Initialized(p) \/ InitializeFails(p) \/ RollbackPane(p) \/ PaneExits(p) \/ ClosedPaneForgotten(p)
    PROVE  PlanInv'
<1> USE DEF PlanInv
<1>w. planStage' = planStage /\ tab' = tab => \A q \in PlanPanes : Working(q)' = Working(q)
  BY DEF Working
<1>1. planStage' = planStage /\ tab' = tab
  BY DEF BackendCreates, BackendFails, RegisterPane, RegisterFails, Initialized,
         InitializeFails, RollbackPane, CreateFails, PaneExits, ClosedPaneForgotten
<1>2. Working(p) => planStage \in {"first", "rest"}
  BY DEF Working
<1>3. CASE BackendCreates(p)
  <2>1. PlanTypeOK'
    BY <1>3 DEF BackendCreates, PlanTypeOK
  <2>2. NoneOutlivesItsStep'
    BY <1>1, <1>w, <1>3 DEF BackendCreates, PlanTypeOK, NoneOutlivesItsStep
  <2>3. TracesOfCreation'
    BY <1>3 DEF BackendCreates, PlanTypeOK, TracesOfCreation
  <2>4. CreatedSoFar'
    BY <1>1, <1>3, TabPanesSplit DEF BackendCreates, PlanTypeOK, CreatedSoFar
  <2> QED BY <1>1, <1>2, <1>3, <2>1, <2>2, <2>3, <2>4 DEF BackendCreates
<1>4. CASE BackendFails(p)
  <2>1. PlanTypeOK'
    BY <1>4 DEF BackendFails, CreateFails, PlanTypeOK
  <2>2. NoneOutlivesItsStep'
    BY <1>1, <1>w, <1>4 DEF BackendFails, CreateFails, PlanTypeOK, NoneOutlivesItsStep
  <2>3. TracesOfCreation'
    BY <1>4 DEF BackendFails, CreateFails, PlanTypeOK, TracesOfCreation
  <2>4. CreatedSoFar'
    BY <1>1, <1>4, TabPanesSplit DEF BackendFails, CreateFails, PlanTypeOK, CreatedSoFar
  <2> QED BY <1>1, <1>2, <1>4, <2>1, <2>2, <2>3, <2>4 DEF BackendFails
<1>5. CASE RegisterPane(p)
  <2>1. PlanTypeOK'
    BY <1>5 DEF RegisterPane, PlanTypeOK
  <2>2. NoneOutlivesItsStep'
    BY <1>1, <1>w, <1>5 DEF RegisterPane, PlanTypeOK, NoneOutlivesItsStep
  <2>3. TracesOfCreation'
    BY <1>5 DEF RegisterPane, PlanTypeOK, TracesOfCreation
  <2>4. CreatedSoFar'
    BY <1>1, <1>5, TabPanesSplit DEF RegisterPane, PlanTypeOK, CreatedSoFar
  <2> QED BY <1>1, <1>2, <1>5, <2>1, <2>2, <2>3, <2>4 DEF RegisterPane
<1>6. CASE RegisterFails(p)
  <2>1. PlanTypeOK'
    BY <1>6 DEF RegisterFails, CreateFails, PlanTypeOK
  <2>2. NoneOutlivesItsStep'
    BY <1>1, <1>w, <1>6 DEF RegisterFails, CreateFails, PlanTypeOK, NoneOutlivesItsStep
  <2>3. TracesOfCreation'
    BY <1>6 DEF RegisterFails, CreateFails, PlanTypeOK, TracesOfCreation
  <2>4. CreatedSoFar'
    BY <1>1, <1>6, TabPanesSplit DEF RegisterFails, CreateFails, PlanTypeOK, CreatedSoFar
  <2> QED BY <1>1, <1>2, <1>6, <2>1, <2>2, <2>3, <2>4 DEF RegisterFails
<1>7. CASE Initialized(p)
  <2>1. PlanTypeOK'
    BY <1>7 DEF Initialized, PlanTypeOK
  <2>2. NoneOutlivesItsStep'
    BY <1>1, <1>w, <1>7 DEF Initialized, PlanTypeOK, NoneOutlivesItsStep
  <2>3. TracesOfCreation'
    BY <1>7 DEF Initialized, PlanTypeOK, TracesOfCreation
  <2>4. CreatedSoFar'
    BY <1>1, <1>7, TabPanesSplit DEF Initialized, PlanTypeOK, CreatedSoFar, TracesOfCreation
  <2> QED BY <1>1, <1>2, <1>7, <2>1, <2>2, <2>3, <2>4 DEF Initialized
<1>8. CASE InitializeFails(p)
  <2>1. PlanTypeOK'
    BY <1>8 DEF InitializeFails, CreateFails, CloseAndForget, PlanTypeOK
  <2>2. NoneOutlivesItsStep'
    BY <1>1, <1>w, <1>8 DEF InitializeFails, CreateFails, PlanTypeOK, NoneOutlivesItsStep
  <2>3. TracesOfCreation'
    BY <1>8 DEF InitializeFails, CreateFails, CloseAndForget, PlanTypeOK, TracesOfCreation
  <2>4. CreatedSoFar'
    BY <1>1, <1>8, TabPanesSplit DEF InitializeFails, CreateFails, CloseAndForget, PlanTypeOK, CreatedSoFar
  <2> QED BY <1>1, <1>2, <1>8, <2>1, <2>2, <2>3, <2>4 DEF InitializeFails
<1>9. CASE RollbackPane(p)
  <2>1. PlanTypeOK'
    BY <1>9 DEF RollbackPane, CloseAndForget, PlanTypeOK
  <2>2. NoneOutlivesItsStep'
    BY <1>1, <1>w, <1>9 DEF RollbackPane, NoneOutlivesItsStep
  <2>3. TracesOfCreation'
    BY <1>9 DEF RollbackPane, CloseAndForget, PlanTypeOK, TracesOfCreation
  <2>4. CreatedSoFar'
    BY <1>1, <1>9 DEF RollbackPane, CreatedSoFar
  <2> QED BY <1>1, <1>9, <2>1, <2>2, <2>3, <2>4 DEF RollbackPane
<1>10. CASE PaneExits(p)
  <2>1. PlanTypeOK'
    BY <1>10 DEF PaneExits, PlanTypeOK
  <2>2. NoneOutlivesItsStep'
    BY <1>1, <1>w, <1>10 DEF PaneExits, NoneOutlivesItsStep
  <2>3. TracesOfCreation'
    BY <1>10 DEF PaneExits, PlanTypeOK, TracesOfCreation
  <2>4. CreatedSoFar'
    BY <1>1, <1>10 DEF PaneExits, PlanTypeOK, CreatedSoFar
  <2> QED BY <1>1, <1>10, <2>1, <2>2, <2>3, <2>4 DEF PaneExits
<1>11. CASE ClosedPaneForgotten(p)
  <2>1. PlanTypeOK'
    BY <1>11 DEF ClosedPaneForgotten, PlanTypeOK
  <2>2. NoneOutlivesItsStep'
    BY <1>1, <1>w, <1>11 DEF ClosedPaneForgotten, NoneOutlivesItsStep
  <2>3. TracesOfCreation'
    BY <1>11 DEF ClosedPaneForgotten, PlanTypeOK, TracesOfCreation
  <2>4. CreatedSoFar'
    BY <1>1, <1>11 DEF ClosedPaneForgotten, PlanTypeOK, CreatedSoFar
  <2> QED BY <1>1, <1>11, <2>1, <2>2, <2>3, <2>4 DEF ClosedPaneForgotten
<1> QED BY <1>3, <1>4, <1>5, <1>6, <1>7, <1>8, <1>9, <1>10, <1>11

\* The plan goes on to the next tab, or has succeeded.
LEMMA NextTabInv ==
    ASSUME PlanInv, PlanAssumption, NextTab, planStage \in {"first", "rest"},
           \A p \in ToSet(PlanTabs[tab]) : create[p] = "done",
           \A p \in PlanPanes : create[p] \notin {"made", "registered"},
           UNCHANGED <<create, zellijPane, registered, created, cancelled, partial, exited>>
    PROVE  PlanInv'
<1> USE DEF PlanInv
<1>1. tab \in Nat /\ DOMAIN PlanTabs = 1 .. Len(PlanTabs) /\ Len(PlanTabs) \in Nat
  BY DEF PlanTypeOK, PlanAssumption
<1>2. /\ planStage' \in {"first", "success"} /\ tab' \in DOMAIN PlanTabs
      /\ \A t \in DOMAIN PlanTabs : t < tab' => t < tab \/ t = tab
      /\ planStage' = "success" => \A t \in DOMAIN PlanTabs : t < tab \/ t = tab
  <2>1. PICK n \in Nat : n = Len(PlanTabs) /\ DOMAIN PlanTabs = 1 .. n /\ tab \in 1 .. n
    BY <1>1 DEF PlanTypeOK
  <2>2. CASE tab < n
    <3>1. planStage' = "first" /\ tab' = tab + 1
      BY <2>1, <2>2 DEF NextTab
    <3> QED BY <2>1, <2>2, <3>1
  <2>3. CASE ~(tab < n)
    <3>1. planStage' = "success" /\ tab' = tab
      BY <2>1, <2>3 DEF NextTab
    <3> QED BY <2>1, <2>3, <3>1
  <2> QED BY <2>2, <2>3
<1>3. PlanTypeOK'
  BY <1>2 DEF PlanTypeOK
<1>4. NoneOutlivesItsStep' /\ TracesOfCreation'
  BY DEF NoneOutlivesItsStep, TracesOfCreation
<1>5. \A t \in DOMAIN PlanTabs : t < tab \/ t = tab => \A p \in ToSet(PlanTabs[t]) : create[p] = "done"
  BY DEF CreatedSoFar
<1>6. planStage' = "success" => \A p \in PlanPanes : create[p] = "done"
  BY <1>2, <1>5 DEF PlanPanes
<1>7. CreatedSoFar'
  BY <1>2, <1>5, <1>6 DEF CreatedSoFar
<1> QED BY <1>2, <1>3, <1>4, <1>7

\* The steps of the plan itself.
LEMMA StageStepInv ==
    ASSUME PlanInv, PlanAssumption, FirstDone \/ RestDone \/ RolledBack \/ RequestCancelled
    PROVE  PlanInv'
<1> USE DEF PlanInv
<1>t. tab \in DOMAIN PlanTabs
  BY DEF PlanTypeOK
<1>s. /\ ToSet(PlanTabs[tab]) = {PlanTabs[tab][1]} \union ToSet(Tail(PlanTabs[tab]))
      /\ PlanTabs[tab][1] \in PlanPanes /\ ToSet(Tail(PlanTabs[tab])) \subseteq PlanPanes
      /\ PlanTabs[tab] \in Seq(Nat) /\ PlanTabs[tab] # <<>> /\ Len(PlanTabs[tab]) >= 1
  BY <1>t, TabPanesSplit
<1>1. CASE FirstDone
  <2>1. /\ planStage = "first" /\ (create[PlanTabs[tab][1]] = "done" \/ Failed(PlanTabs[tab][1]))
        /\ UNCHANGED <<create, zellijPane, registered, created, cancelled, partial, exited>>
    BY <1>1 DEF FirstDone
  <2>2. \A p \in PlanPanes : create[p] \notin {"made", "registered"}
    BY <2>1 DEF NoneOutlivesItsStep, Working, Failed
  <2>3. CASE create[PlanTabs[tab][1]] = "done" /\ Len(PlanTabs[tab]) > 1
    <3>1. planStage' = "rest" /\ tab' = tab
      BY <1>1, <2>3 DEF FirstDone, Failed
    <3> QED BY <2>1, <2>2, <2>3, <3>1 DEF PlanTypeOK, NoneOutlivesItsStep, TracesOfCreation, CreatedSoFar
  <2>4. CASE create[PlanTabs[tab][1]] = "done" /\ ~(Len(PlanTabs[tab]) > 1)
    <3>1. NextTab
      BY <1>1, <2>4 DEF FirstDone, Failed
    <3>2. ToSet(Tail(PlanTabs[tab])) = {}
      BY <1>s, <2>4, SingleHasNoTail
    <3> QED BY <1>s, <2>1, <2>2, <2>4, <3>1, <3>2, NextTabInv
  <2>5. CASE Failed(PlanTabs[tab][1])
    <3>1. planStage' = "rollback" /\ tab' = tab
      BY <1>1, <2>5 DEF FirstDone, Failed
    <3> QED BY <2>1, <2>2, <3>1 DEF PlanTypeOK, NoneOutlivesItsStep, TracesOfCreation, CreatedSoFar
  <2> QED BY <2>1, <2>3, <2>4, <2>5
<1>2. CASE RestDone
  <2>1. /\ planStage = "rest"
        /\ \A p \in ToSet(Tail(PlanTabs[tab])) : create[p] = "done" \/ Failed(p)
        /\ UNCHANGED <<create, zellijPane, registered, created, cancelled, partial, exited>>
    BY <1>2 DEF RestDone
  <2>2. \A p \in PlanPanes : create[p] \notin {"made", "registered"}
    BY <2>1 DEF NoneOutlivesItsStep, Working, Failed
  <2>3. CASE \E p \in ToSet(Tail(PlanTabs[tab])) : Failed(p)
    <3>1. planStage' = "rollback" /\ tab' = tab
      BY <1>2, <2>3 DEF RestDone
    <3> QED BY <2>1, <2>2, <3>1 DEF PlanTypeOK, NoneOutlivesItsStep, TracesOfCreation, CreatedSoFar
  <2>4. CASE ~\E p \in ToSet(Tail(PlanTabs[tab])) : Failed(p)
    <3>1. NextTab
      BY <1>2, <2>4 DEF RestDone
    <3>2. \A p \in ToSet(PlanTabs[tab]) : create[p] = "done"
      BY <1>s, <2>1, <2>4 DEF CreatedSoFar
    <3> QED BY <2>1, <2>2, <3>1, <3>2, NextTabInv
  <2> QED BY <2>3, <2>4
<1>3. CASE RolledBack
  <2>1. \A p \in PlanPanes : create[p] \notin {"made", "registered"}
    BY <1>3 DEF RolledBack, NoneOutlivesItsStep, Working
  <2> QED BY <1>3, <2>1 DEF RolledBack, PlanTypeOK, NoneOutlivesItsStep, TracesOfCreation, CreatedSoFar
<1>4. CASE RequestCancelled
  BY <1>4 DEF RequestCancelled, PlanTypeOK, NoneOutlivesItsStep, Working, TracesOfCreation, CreatedSoFar
<1> QED BY <1>1, <1>2, <1>3, <1>4

\* The invariant of a plan holds in every reachable state.
THEOREM PlanInductive == PlanSpec => []PlanInv
<1>1. PlanInit => PlanInv
  BY PlanInitInv, PlanAssumption
<1>2. PlanInv /\ [PlanNext]_planVars => PlanInv'
  <2> SUFFICES ASSUME PlanInv, [PlanNext]_planVars PROVE PlanInv'
    OBVIOUS
  <2>1. CASE UNCHANGED planVars
    BY <2>1 DEF planVars, PlanInv, PlanTypeOK, NoneOutlivesItsStep, Working, TracesOfCreation, CreatedSoFar
  <2> QED BY <2>1, PlanAssumption, PaneStepInv, StageStepInv DEF PlanNext
<1> QED BY <1>1, <1>2, PTL DEF PlanSpec

\* A plan of any number of tabs and panes is applied as a whole or not at all: whichever
\* of its concurrent creations fails or is cancelled, at whatever step the others are, a
\* failed plan leaves no record, every pane zellij acknowledged is closed again, unless the
\* answer says that clean-up was incomplete, and a successful plan has every pane that did
\* not end by itself.
THEOREM PlanAllOrNothing == PlanSpec => []PlanIsAllOrNothing
<1>1. PlanInv => PlanIsAllOrNothing
  <2> SUFFICES ASSUME PlanInv PROVE PlanIsAllOrNothing
    OBVIOUS
  <2>1. planStage \in {"success", "failed"} =>
           \A p \in PlanPanes : create[p] \notin {"made", "registered"}
    BY DEF PlanInv, NoneOutlivesItsStep, Working
  <2> QED BY <2>1 DEF PlanInv, PlanTypeOK, TracesOfCreation, CreatedSoFar, PlanIsAllOrNothing,
                      FailedPlanLeavesNoRecord, StrayOnlyWhenRefused, SuccessHasEveryPane
<1> QED BY <1>1, PlanInductive, PTL

-----------------------------------------------------------------------------
(* Next and previous agent.                                                *)

\* The records and the cursor, by themselves.
FocusSpec == FocusInit /\ [][FocusNext]_focusVars

RecordType == [there: BOOLEAN, idle: BOOLEAN, pinned: BOOLEAN, changed: Nat]

\* The variables of the focus keep their types.
FocusTypeOK ==
    /\ record \in [Numbers -> RecordType] /\ changes \in Nat /\ last \in Numbers \union {0} /\ seenIdle \in Nat

\* A set of natural numbers has a least one.
LEMMA LeastOf ==
    ASSUME NEW T \in SUBSET Nat, T # {}
    PROVE  \E n \in T : \A m \in T : n <= m
<1>1. PICK n \in T : \A m \in T : ~(<<m, n>> \in OpToRel(<, Nat))
  BY NatLessThanWellFounded, WFMin, Zenon
<1>2. \A m \in T : <<m, n>> \in Nat \X Nat
  OBVIOUS
<1>3. \A m \in T : m < n => <<m, n>> \in OpToRel(<, Nat)
  BY <1>2 DEF OpToRel
<1>4. ASSUME NEW m \in T PROVE n <= m
  <2>1. ~(m < n)
    BY <1>1, <1>3
  <2>2. m \in Nat /\ n \in Nat
    OBVIOUS
  <2> QED BY <2>1, <2>2
<1> QED BY <1>4

\* The agents of a filter are in order.
LEMMA AgentsInOrder ==
    ASSUME FocusTypeOK, NEW filter \in Filters, NEW a \in Numbers, NEW b \in Numbers, NEW c \in Numbers
    PROVE  /\ ~Before(filter, a, a)
           /\ a # b => Before(filter, a, b) \/ Before(filter, b, a)
           /\ Before(filter, a, b) /\ Before(filter, b, c) => Before(filter, a, c)
<1>1. a \in Nat /\ b \in Nat /\ c \in Nat
  BY FocusAssumption DEF Numbers
<1>2. record[a].changed \in Nat /\ record[b].changed \in Nat /\ record[c].changed \in Nat
  BY DEF FocusTypeOK, RecordType
<1>3. PICK x \in Nat, y \in Nat, z \in Nat : x = record[a].changed /\ y = record[b].changed /\ z = record[c].changed
  BY <1>2, Zenon
<1>4. CASE ~filter.idleOnly
  <2>1. /\ Before(filter, a, a) = (a < a) /\ Before(filter, a, b) = (a < b) /\ Before(filter, b, a) = (b < a)
        /\ Before(filter, b, c) = (b < c) /\ Before(filter, a, c) = (a < c)
    BY <1>4, Zenon DEF Before
  <2>2. /\ ~(a < a) /\ (a # b => (a < b) \/ (b < a)) /\ ((a < b) /\ (b < c) => (a < c))
    BY <1>1
  <2> QED BY <2>1, <2>2, Zenon
<1>5. CASE filter.idleOnly
  <2>1. /\ Before(filter, a, a) = (IF x # x THEN x > x ELSE a < a)
        /\ Before(filter, a, b) = (IF x # y THEN x > y ELSE a < b)
        /\ Before(filter, b, a) = (IF y # x THEN y > x ELSE b < a)
        /\ Before(filter, b, c) = (IF y # z THEN y > z ELSE b < c)
        /\ Before(filter, a, c) = (IF x # z THEN x > z ELSE a < c)
    BY <1>3, <1>5, Zenon DEF Before
  <2>2. /\ ~(IF x # x THEN x > x ELSE a < a)
        /\ a # b => (IF x # y THEN x > y ELSE a < b) \/ (IF y # x THEN y > x ELSE b < a)
        /\ (IF x # y THEN x > y ELSE a < b) /\ (IF y # z THEN y > z ELSE b < c) => (IF x # z THEN x > z ELSE a < c)
    BY <1>1, <1>3
  <2> QED BY <2>1, <2>2, Zenon
<1> QED BY <1>4, <1>5

\* The agents of a filter before agent a.
Ahead(filter, a) == {b \in Eligible(filter) : Before(filter, b, a)}

LEMMA EligibleIs ==
    ASSUME NEW filter
    PROVE  /\ Eligible(filter) \subseteq Numbers /\ IsFiniteSet(Eligible(filter))
           /\ Cardinality(Eligible(filter)) \in Nat /\ Cardinality(Eligible(filter)) <= Count
<1>1. Eligible(filter) \subseteq Numbers
  BY DEF Eligible
<1>2. IsFiniteSet(Numbers) /\ Cardinality(Numbers) = Count
  <2>1. 1 \in Int /\ Count \in Int /\ Count \in Nat /\ Count # 0
    BY FocusAssumption
  <2>2. IsFiniteSet(1 .. Count) /\ Cardinality(1 .. Count) = IF 1 > Count THEN 0 ELSE Count - 1 + 1
    BY <2>1, FS_Interval, Zenon
  <2> QED BY <2>1, <2>2 DEF Numbers
<1>3. IsFiniteSet(Eligible(filter)) /\ Cardinality(Eligible(filter)) <= Count
  BY <1>1, <1>2, FS_Subset
<1> QED BY <1>1, <1>3, FS_CardinalityType

\* seq is the ring of the agents of a filter: each one, once, in order.
Ring(filter, seq) ==
    /\ seq \in Seq(Numbers) /\ Len(seq) = Cardinality(Eligible(filter))
    /\ \A a : a \in Eligible(filter) <=> \E i \in 1 .. Len(seq) : seq[i] = a
    /\ \A i, j \in 1 .. Len(seq) : seq[i] = seq[j] => i = j
    /\ \A i, j \in 1 .. Len(seq) : i < j => Before(filter, seq[i], seq[j])

LEMMA OrderedIsRing ==
    ASSUME FocusTypeOK, NEW filter \in Filters
    PROVE  Ring(filter, Ordered(filter))
<1> DEFINE S == Eligible(filter)
           c == Cardinality(Eligible(filter))
<1>1. S = Eligible(filter) /\ c = Cardinality(S) /\ c \in Nat
  BY EligibleIs, Zenon
<1>0. Ordered(filter) = [n \in 1 .. c |-> CHOOSE a \in S : Cardinality(Ahead(filter, a)) = n - 1]
  BY Zenon DEF Ordered, Ahead
<1> HIDE DEF S, c
<1>2. S \subseteq Numbers /\ IsFiniteSet(S)
  BY <1>1, EligibleIs
<1>3. ASSUME NEW a \in S
      PROVE  /\ Ahead(filter, a) \subseteq S /\ a \notin Ahead(filter, a) /\ IsFiniteSet(Ahead(filter, a))
             /\ Cardinality(Ahead(filter, a)) \in Nat /\ Cardinality(Ahead(filter, a)) < c
  <2>1. Ahead(filter, a) \subseteq S /\ a \notin Ahead(filter, a)
    BY <1>1, <1>2, AgentsInOrder DEF Ahead
  <2>2. IsFiniteSet(Ahead(filter, a)) /\ Cardinality(Ahead(filter, a)) \in Nat
    BY <1>2, <2>1, FS_Subset, FS_CardinalityType
  <2>3. Cardinality(Ahead(filter, a)) <= c /\ Cardinality(Ahead(filter, a)) # c
    BY <1>1, <1>2, <2>1, FS_Subset
  <2> QED BY <1>1, <2>1, <2>2, <2>3
<1>4. ASSUME NEW a \in S, NEW b \in S, Before(filter, a, b)
      PROVE  Cardinality(Ahead(filter, a)) < Cardinality(Ahead(filter, b))
  <2>1. Ahead(filter, a) \subseteq Ahead(filter, b) /\ a \in Ahead(filter, b)
    BY <1>1, <1>2, <1>4, AgentsInOrder DEF Ahead
  <2>2. Ahead(filter, a) # Ahead(filter, b)
    BY <1>3, <2>1
  <2>3. /\ Cardinality(Ahead(filter, a)) <= Cardinality(Ahead(filter, b))
        /\ Cardinality(Ahead(filter, a)) # Cardinality(Ahead(filter, b))
    BY <1>3, <2>1, <2>2, FS_Subset
  <2> QED BY <1>3, <2>3
<1>5. ASSUME NEW a \in S, NEW b \in S, a # b PROVE Before(filter, a, b) \/ Before(filter, b, a)
  BY <1>2, <1>5, AgentsInOrder
<1>6. PICK rank : rank = [a \in S |-> Cardinality(Ahead(filter, a)) + 1]
  BY Zenon
<1>7. rank \in [S -> 1 .. c] /\ \A a \in S : rank[a] = Cardinality(Ahead(filter, a)) + 1
  <2>1. \A a \in S : Cardinality(Ahead(filter, a)) + 1 \in 1 .. c
    BY <1>1, <1>3
  <2> QED BY <1>6, <2>1
<1>8. rank \in Injection(S, 1 .. c)
  <2>1. ASSUME NEW a \in S, NEW b \in S, rank[a] = rank[b] PROVE a = b
    <3>1. Cardinality(Ahead(filter, a)) = Cardinality(Ahead(filter, b))
      BY <1>3, <1>7, <2>1
    <3> QED BY <1>3, <1>4, <1>5, <3>1
  <2> QED BY <1>7, <2>1 DEF Injection, IsInjective
<1>9. IsFiniteSet(1 .. c) /\ Cardinality(1 .. c) = c
  <2>1. 1 \in Int /\ c \in Int
    BY <1>1
  <2>2. IsFiniteSet(1 .. c) /\ Cardinality(1 .. c) = IF 1 > c THEN 0 ELSE c - 1 + 1
    BY <2>1, FS_Interval, Zenon
  <2> QED BY <1>1, <2>2
<1>10. rank \in Surjection(S, 1 .. c)
  BY <1>1, <1>8, <1>9, FS_Injection
<1>11. PICK seq : seq = Ordered(filter)
  BY Zenon
<1>12. seq = [n \in 1 .. c |-> CHOOSE a \in S : Cardinality(Ahead(filter, a)) = n - 1]
  BY <1>0, <1>11, Zenon
<1>13. ASSUME NEW n \in 1 .. c PROVE seq[n] \in S /\ Cardinality(Ahead(filter, seq[n])) = n - 1
  <2>1. \E a \in S : Cardinality(Ahead(filter, a)) = n - 1
    <3>1. PICK a \in S : rank[a] = n
      BY <1>10 DEF Surjection
    <3> QED BY <1>1, <1>3, <1>7, <3>1
  <2>2. seq[n] = CHOOSE a \in S : Cardinality(Ahead(filter, a)) = n - 1
    BY <1>12, Zenon
  <2> QED BY <2>1, <2>2, Zenon
<1>14. seq \in Seq(Numbers) /\ Len(seq) = c
  <2>1. seq = [n \in 1 .. c |-> seq[n]]
    BY <1>12
  <2>2. \A n \in 1 .. c : seq[n] \in Numbers
    BY <1>2, <1>13
  <2> QED BY <1>1, <2>1, <2>2
<1>15. ASSUME NEW i \in 1 .. c, NEW j \in 1 .. c, seq[i] = seq[j] PROVE i = j
  BY <1>1, <1>13, <1>15
<1>16. ASSUME NEW a \in S PROVE \E i \in 1 .. c : seq[i] = a
  <2>1. PICK i \in 1 .. c : i = Cardinality(Ahead(filter, a)) + 1
    BY <1>7
  <2>2. seq[i] \in S /\ Cardinality(Ahead(filter, seq[i])) = Cardinality(Ahead(filter, a))
    BY <1>3, <1>13, <2>1
  <2>3. seq[i] = a
    BY <1>3, <1>4, <1>5, <2>2
  <2> QED BY <2>1, <2>3
<1>17. ASSUME NEW i \in 1 .. c, NEW j \in 1 .. c, i < j PROVE Before(filter, seq[i], seq[j])
  <2>1. seq[i] \in S /\ seq[j] \in S /\ seq[i] # seq[j]
    BY <1>1, <1>13, <1>15, <1>17
  <2>2. ~Before(filter, seq[j], seq[i])
    BY <1>1, <1>4, <1>13, <1>17, <2>1
  <2> QED BY <1>5, <2>1, <2>2
<1>18. \A a : a \in S <=> \E i \in 1 .. c : seq[i] = a
  BY <1>13, <1>16
<1> QED BY <1>1, <1>11, <1>14, <1>15, <1>17, <1>18, Zenon DEF Ring

-----------------------------------------------------------------------------
\* The place a step away from place p on a ring of c, and the place of the n-th of the presses
\* whose first one comes to s.
Beside(c, step, p) ==
    IF step = 1 THEN IF p = c THEN 1 ELSE p + 1 ELSE IF p = 1 THEN c ELSE p - 1

Place(c, step, s, n) ==
    IF step = 1
    THEN IF s + n - 1 <= c THEN s + n - 1 ELSE s + n - 1 - c
    ELSE IF s - n + 1 >= 1 THEN s - n + 1 ELSE s - n + 1 + c

\* c presses go round a ring of c.
GoesRound(c, step, s) ==
    /\ Place(c, step, s, 1) = s
    /\ \A n \in 1 .. c : Place(c, step, s, n) \in 1 .. c
    /\ \A n \in 1 .. c : n # 1 => Place(c, step, s, n) = Beside(c, step, Place(c, step, s, n - 1))
    /\ \A p \in 1 .. c : \E n \in 1 .. c : Place(c, step, s, n) = p

LEMMA RoundTheRing ==
    ASSUME NEW c \in Nat, NEW step \in {-1, 1}, NEW s \in 1 .. c
    PROVE  GoesRound(c, step, s)
<1>1. CASE step = 1
  <2>1. \A n \in Int : Place(c, step, s, n) = IF s + n - 1 <= c THEN s + n - 1 ELSE s + n - 1 - c
    BY <1>1, Zenon DEF Place
  <2>2. \A p \in Int : Beside(c, step, p) = IF p = c THEN 1 ELSE p + 1
    BY <1>1, Zenon DEF Beside
  <2>3. ASSUME NEW p \in 1 .. c PROVE \E n \in 1 .. c : Place(c, step, s, n) = p
    <3>1. CASE p >= s
      <4>1. p - s + 1 \in 1 .. c /\ Place(c, step, s, p - s + 1) = p
        BY <2>1, <3>1
      <4> QED BY <4>1
    <3>2. CASE ~(p >= s)
      <4>1. p - s + 1 + c \in 1 .. c /\ Place(c, step, s, p - s + 1 + c) = p
        BY <2>1, <3>2
      <4> QED BY <4>1
    <3> QED BY <3>1, <3>2
  <2>4. Place(c, step, s, 1) = s /\ \A n \in 1 .. c : Place(c, step, s, n) \in 1 .. c
    BY <2>1
  <2>5. ASSUME NEW n \in 1 .. c, n # 1 PROVE Place(c, step, s, n) = Beside(c, step, Place(c, step, s, n - 1))
    <3>1. PICK m \in 1 .. c : m = n - 1
      BY <2>5
    <3>2. PICK q \in 1 .. c : q = Place(c, step, s, m)
      BY <2>4
    <3>3. q = IF s + m - 1 <= c THEN s + m - 1 ELSE s + m - 1 - c
      BY <2>1, <3>1, <3>2
    <3>4. Place(c, step, s, n) = (IF s + n - 1 <= c THEN s + n - 1 ELSE s + n - 1 - c)
          /\ Beside(c, step, q) = (IF q = c THEN 1 ELSE q + 1)
      BY <2>1, <2>2
    <3>5. (IF s + n - 1 <= c THEN s + n - 1 ELSE s + n - 1 - c) = (IF q = c THEN 1 ELSE q + 1)
      BY <3>1, <3>3
    <3> QED BY <3>1, <3>2, <3>4, <3>5, Zenon
  <2> QED BY <2>3, <2>4, <2>5, Zenon DEF GoesRound
<1>2. CASE step = -1
  <2>0. step # 1
    BY <1>2
  <2>1. \A n \in Int : Place(c, step, s, n) = IF s - n + 1 >= 1 THEN s - n + 1 ELSE s - n + 1 + c
    BY <2>0, Zenon DEF Place
  <2>2. \A p \in Int : Beside(c, step, p) = IF p = 1 THEN c ELSE p - 1
    BY <2>0, Zenon DEF Beside
  <2>3. ASSUME NEW p \in 1 .. c PROVE \E n \in 1 .. c : Place(c, step, s, n) = p
    <3>1. CASE p <= s
      <4>1. s - p + 1 \in 1 .. c /\ Place(c, step, s, s - p + 1) = p
        BY <2>1, <3>1
      <4> QED BY <4>1
    <3>2. CASE ~(p <= s)
      <4>1. s - p + 1 + c \in 1 .. c /\ Place(c, step, s, s - p + 1 + c) = p
        BY <2>1, <3>2
      <4> QED BY <4>1
    <3> QED BY <3>1, <3>2
  <2>4. Place(c, step, s, 1) = s /\ \A n \in 1 .. c : Place(c, step, s, n) \in 1 .. c
    BY <2>1
  <2>5. ASSUME NEW n \in 1 .. c, n # 1 PROVE Place(c, step, s, n) = Beside(c, step, Place(c, step, s, n - 1))
    <3>1. PICK m \in 1 .. c : m = n - 1
      BY <2>5
    <3>2. PICK q \in 1 .. c : q = Place(c, step, s, m)
      BY <2>4
    <3>3. q = IF s - m + 1 >= 1 THEN s - m + 1 ELSE s - m + 1 + c
      BY <2>1, <3>1, <3>2
    <3>4. Place(c, step, s, n) = (IF s - n + 1 >= 1 THEN s - n + 1 ELSE s - n + 1 + c)
          /\ Beside(c, step, q) = (IF q = 1 THEN c ELSE q - 1)
      BY <2>1, <2>2
    <3>5. (IF s - n + 1 >= 1 THEN s - n + 1 ELSE s - n + 1 + c) = (IF q = 1 THEN c ELSE q - 1)
      BY <3>1, <3>3
    <3> QED BY <3>1, <3>2, <3>4, <3>5, Zenon
  <2> QED BY <2>3, <2>4, <2>5, Zenon DEF GoesRound
<1> QED BY <1>1, <1>2

\* Adjacent goes a step on the ring.
LEMMA AdjacentIsBeside ==
    ASSUME NEW seq \in Seq(Numbers), NEW step \in {-1, 1}, NEW p \in 1 .. Len(seq)
    PROVE  /\ Beside(Len(seq), step, p) \in 1 .. Len(seq)
           /\ Adjacent(seq, p, step) = seq[Beside(Len(seq), step, p)]
<1>1. PICK c \in Nat : c = Len(seq)
  OBVIOUS
<1>2. p \in 1 .. c /\ c > 0
  BY <1>1
<1>3. Adjacent(seq, p, step) = seq[((p - 1 + step + c) % c) + 1]
  BY <1>1, Zenon DEF Adjacent
<1>4. Beside(c, step, p) \in 1 .. c /\ ((p - 1 + step + c) % c) + 1 = Beside(c, step, p)
  <2>1. CASE step = 1
    <3>1. Beside(c, step, p) = IF p = c THEN 1 ELSE p + 1
      BY <2>1, Zenon DEF Beside
    <3>2. CASE p = c
      <4>1. (c - 1 + 1 + c) % c = 0
        BY <1>2
      <4> QED BY <1>2, <2>1, <3>1, <3>2, <4>1
    <3>3. CASE p # c
      <4>1. (p - 1 + 1 + c) % c = p
        BY <1>2, <3>3
      <4> QED BY <1>2, <2>1, <3>1, <3>3, <4>1
    <3> QED BY <3>2, <3>3
  <2>2. CASE step = -1
    <3>0. step # 1
      BY <2>2
    <3>1. Beside(c, step, p) = IF p = 1 THEN c ELSE p - 1
      BY <3>0, Zenon DEF Beside
    <3>2. CASE p = 1
      <4>1. (1 - 1 + -1 + c) % c = c - 1
        BY <1>2
      <4> QED BY <1>2, <2>2, <3>1, <3>2, <4>1
    <3>3. CASE p # 1
      <4>1. (p - 1 + -1 + c) % c = p - 2
        BY <1>2, <3>3
      <4> QED BY <1>2, <2>2, <3>1, <3>3, <4>1
    <3> QED BY <3>2, <3>3
  <2> QED BY <2>1, <2>2
<1> QED BY <1>1, <1>3, <1>4, Zenon

-----------------------------------------------------------------------------
\* The agent a press comes to is one of the ring; once a press has come to an agent, no agent is
\* newly idle.
LEMMA SeenGrows ==
    ASSUME FocusTypeOK, NEW filter \in Filters, NEW seq \in Seq(Numbers), seq # <<>>,
           NEW a \in Numbers, NEW seen \in Nat, JumpsToNewest(filter, seq, seen) => a = seq[1]
    PROVE  SeenAfter(filter, a, seen) \in Nat /\ ~JumpsToNewest(filter, seq, SeenAfter(filter, a, seen))
<1>1. seq[1] \in Numbers
  OBVIOUS
<1>2. PICK x \in Nat, y \in Nat : x = record[seq[1]].changed /\ y = record[a].changed
  <2>1. record[seq[1]].changed \in Nat /\ record[a].changed \in Nat
    BY <1>1 DEF FocusTypeOK, RecordType
  <2> QED BY <2>1, Zenon
<1>3. filter.idleOnly \in BOOLEAN
  BY DEF Filters
<1>4. CASE ~filter.idleOnly
  BY <1>4 DEF SeenAfter, JumpsToNewest
<1>5. CASE filter.idleOnly
  <2>1. JumpsToNewest(filter, seq, seen) <=> x > seen
    BY <1>2, <1>5, Zenon DEF JumpsToNewest
  <2>2. PICK z : z = SeenAfter(filter, a, seen)
    BY Zenon
  <2>3. z = IF y > seen THEN y ELSE seen
    BY <1>2, <1>5, <2>2, Zenon DEF SeenAfter
  <2>4. x > seen => x = y
    BY <1>2, <2>1, Zenon
  <2>5. z \in Nat /\ ~(x > z)
    BY <1>2, <2>3, <2>4
  <2>6. JumpsToNewest(filter, seq, z) <=> x > z
    BY <1>2, <1>5, Zenon DEF JumpsToNewest
  <2> QED BY <2>2, <2>5, <2>6, Zenon
<1> QED BY <1>3, <1>4, <1>5

\* Where a press comes to, on the ring seq, from the agent current.
ComesTo(filter, step, seq, current, seen, a) ==
    /\ seq # <<>> /\ seq \in Seq(Numbers)
    /\ \E p \in 1 .. Len(seq) : a = seq[p]
    /\ JumpsToNewest(filter, seq, seen) => a = seq[1]
    /\ \A p \in 1 .. Len(seq) :
          current = seq[p] /\ ~JumpsToNewest(filter, seq, seen) => a = seq[Beside(Len(seq), step, p)]

LEMMA PressComesTo ==
    ASSUME FocusTypeOK, NEW filter \in Filters, NEW step \in {-1, 1}, NEW current, NEW seen \in Nat,
           Eligible(filter) # {}
    PROVE  ComesTo(filter, step, Ordered(filter), current, seen, adjacentAgentRecord(filter, step, current, seen))
<1> DEFINE seq == Ordered(filter)
<1>0. adjacentAgentRecord(filter, step, current, seen)
      = IF seq = <<>> THEN 0
        ELSE IF JumpsToNewest(filter, seq, seen) THEN seq[1]
        ELSE IF current \in ToSet(seq)
             THEN Adjacent(seq, CHOOSE i \in DOMAIN seq : seq[i] = current, step)
             ELSE IF step < 0 THEN seq[Len(seq)] ELSE seq[1]
  BY Zenon DEF adjacentAgentRecord
<1>1. seq = Ordered(filter)
  OBVIOUS
<1> HIDE DEF seq
<1>2. Ring(filter, seq)
  BY <1>1, OrderedIsRing, Zenon
<1>3. /\ seq \in Seq(Numbers) /\ Len(seq) \in Nat /\ DOMAIN seq = 1 .. Len(seq)
      /\ \A i, j \in 1 .. Len(seq) : seq[i] = seq[j] => i = j
  BY <1>2 DEF Ring
<1>4. seq # <<>> /\ 1 \in 1 .. Len(seq) /\ Len(seq) \in 1 .. Len(seq)
  <2>1. PICK a : a \in Eligible(filter)
    OBVIOUS
  <2>2. \E i \in 1 .. Len(seq) : seq[i] = a
    BY <1>2, <2>1 DEF Ring
  <2> QED BY <1>3, <2>2
<1>5. PICK r : r = adjacentAgentRecord(filter, step, current, seen)
  BY Zenon
<1>6. r = IF JumpsToNewest(filter, seq, seen) THEN seq[1]
          ELSE IF current \in ToSet(seq)
               THEN Adjacent(seq, CHOOSE i \in DOMAIN seq : seq[i] = current, step)
               ELSE IF step < 0 THEN seq[Len(seq)] ELSE seq[1]
  BY <1>0, <1>4, <1>5, Zenon
<1>7. ASSUME NEW p \in 1 .. Len(seq), current = seq[p], ~JumpsToNewest(filter, seq, seen)
      PROVE  r = seq[Beside(Len(seq), step, p)]
  <2>1. current \in ToSet(seq)
    BY <1>3, <1>7 DEF ToSet
  <2>2. PICK q : q = CHOOSE i \in DOMAIN seq : seq[i] = current
    BY Zenon
  <2>3. q \in DOMAIN seq /\ seq[q] = current
    BY <1>3, <1>7, <2>2, Zenon
  <2>4. q = p
    BY <1>3, <1>7, <2>3
  <2>5. r = Adjacent(seq, p, step)
    BY <1>6, <1>7, <2>1, <2>2, <2>4, Zenon
  <2> QED BY <1>3, <2>5, AdjacentIsBeside
<1>8. JumpsToNewest(filter, seq, seen) => r = seq[1]
  BY <1>6, Zenon
<1>9. \E p \in 1 .. Len(seq) : r = seq[p]
  <2>1. CASE JumpsToNewest(filter, seq, seen)
    BY <1>4, <1>8, <2>1
  <2>2. CASE ~JumpsToNewest(filter, seq, seen) /\ current \in ToSet(seq)
    <3>1. PICK p \in 1 .. Len(seq) : current = seq[p]
      BY <1>3, <2>2 DEF ToSet
    <3>2. r = seq[Beside(Len(seq), step, p)]
      BY <1>7, <2>2, <3>1
    <3> QED BY <1>3, <3>2, AdjacentIsBeside
  <2>3. CASE ~JumpsToNewest(filter, seq, seen) /\ current \notin ToSet(seq)
    <3>1. r = seq[Len(seq)] \/ r = seq[1]
      BY <1>6, <2>3, Zenon
    <3> QED BY <1>4, <3>1
  <2> QED BY <2>1, <2>2, <2>3
<1>10. ComesTo(filter, step, seq, current, seen, r)
  BY <1>3, <1>4, <1>7, <1>8, <1>9, Zenon DEF ComesTo
<1> QED BY <1>1, <1>5, <1>10, Zenon

-----------------------------------------------------------------------------
\* The state of the cursor after the n-th press, from the presses so far.
Press(filter, step, press, n) ==
    IF n = 0 THEN [at |-> last, seen |-> seenIdle]
    ELSE LET a == adjacentAgentRecord(filter, step, press[n - 1].at, press[n - 1].seen)
         IN  [at |-> a, seen |-> SeenAfter(filter, a, press[n - 1].seen)]

\* The first k presses.
IsPresses(filter, step, k, press) ==
    /\ press = [n \in 0 .. k |-> press[n]]
    /\ \A n \in 0 .. k : press[n] = Press(filter, step, press, n)

LEMMA PressAgrees ==
    ASSUME NEW filter, NEW step, NEW f, NEW g, NEW n, n = 0 \/ f[n - 1] = g[n - 1]
    PROVE  Press(filter, step, f, n) = Press(filter, step, g, n)
BY Zenon DEF Press

\* The presses are defined, however many.
LEMMA PressesExist ==
    ASSUME NEW filter, NEW step, NEW k \in Nat
    PROVE  \E press : IsPresses(filter, step, k, press)
<1> DEFINE T == {m \in Nat : ~\E press : IsPresses(filter, step, m, press)}
<1>1. SUFFICES ASSUME T # {} PROVE FALSE
  BY <1>1, Zenon
<1>2. PICK m \in T : \A j \in T : m <= j
  BY <1>1, LeastOf
<1>3. m \in Nat /\ ~\E press : IsPresses(filter, step, m, press)
  BY <1>2
<1>4. CASE m = 0
  <2>1. PICK f : f = [n \in 0 .. 0 |-> [at |-> last, seen |-> seenIdle]]
    BY Zenon
  <2>2. f = [n \in 0 .. 0 |-> f[n]] /\ \A n \in 0 .. 0 : n = 0 /\ f[n] = [at |-> last, seen |-> seenIdle]
    BY <2>1
  <2>3. \A n \in 0 .. 0 : f[n] = Press(filter, step, f, n)
    BY <2>2, Zenon DEF Press
  <2> QED BY <1>3, <1>4, <2>2, <2>3, Zenon DEF IsPresses
<1>5. CASE m # 0
  <2>1. m - 1 \in Nat /\ m - 1 \notin T
    BY <1>2, <1>3, <1>5
  <2>2. PICK f : IsPresses(filter, step, m - 1, f)
    BY <2>1, Zenon
  <2>3. PICK g : g = [n \in 0 .. m |-> IF n = m THEN Press(filter, step, f, m) ELSE f[n]]
    BY Zenon
  <2>4. /\ g = [n \in 0 .. m |-> g[n]]
        /\ g[m] = Press(filter, step, f, m)
        /\ \A n \in 0 .. (m - 1) : g[n] = f[n]
    BY <1>3, <2>3
  <2>5. ASSUME NEW n \in 0 .. m PROVE g[n] = Press(filter, step, g, n)
    <3>1. n = 0 \/ f[n - 1] = g[n - 1]
      <4>1. n # 0 => n - 1 \in 0 .. (m - 1)
        BY <1>3
      <4> QED BY <2>4, <4>1, Zenon
    <3>2. g[n] = Press(filter, step, f, n)
      <4>1. CASE n = m
        BY <2>4, <4>1, Zenon
      <4>2. CASE n # m
        <5>1. n \in 0 .. (m - 1)
          BY <1>3, <4>2
        <5> QED BY <2>2, <2>4, <5>1, Zenon DEF IsPresses
      <4> QED BY <4>1, <4>2
    <3> QED BY <3>1, <3>2, PressAgrees, Zenon
  <2> QED BY <1>3, <2>4, <2>5, Zenon DEF IsPresses
<1> QED BY <1>4, <1>5

LEMMA PressesAre ==
    ASSUME NEW filter, NEW step
    PROVE  IsPresses(filter, step, Count, Presses(filter, step))
<1>1. Presses(filter, step) = CHOOSE press : press = [n \in 0 .. Count |-> Press(filter, step, press, n)]
  BY Zenon DEF Presses, Press
<1>2. \E press : press = [n \in 0 .. Count |-> Press(filter, step, press, n)]
  <2>1. PICK f : IsPresses(filter, step, Count, f)
    BY PressesExist, FocusAssumption
  <2>2. f = [n \in 0 .. Count |-> Press(filter, step, f, n)]
    BY <2>1 DEF IsPresses
  <2> QED BY <2>2, Zenon
<1>3. PICK p : p = Presses(filter, step)
  BY Zenon
<1>4. p = [n \in 0 .. Count |-> Press(filter, step, p, n)]
  BY <1>1, <1>2, <1>3, Zenon
<1>5. \A n \in 0 .. Count : p[n] = Press(filter, step, p, n)
  BY <1>4, Zenon
<1>6. p = [n \in 0 .. Count |-> p[n]]
  BY <1>4
<1> QED BY <1>3, <1>5, <1>6, Zenon DEF IsPresses

-----------------------------------------------------------------------------
\* After n presses the cursor is n - 1 places from where the first one came to, and nobody is
\* newly idle.
PressesAlong(seq, step, press) ==
    \E s \in 1 .. Len(seq) :
       \A n \in 1 .. Len(seq) : press[n].at = seq[Place(Len(seq), step, s, n)]

LEMMA PressesGoRound ==
    ASSUME FocusTypeOK, NEW filter \in Filters, NEW step \in {-1, 1}, Eligible(filter) # {}
    PROVE  PressesAlong(Ordered(filter), step, Presses(filter, step))
<1>1. PICK press : press = Presses(filter, step)
  BY Zenon
<1>2. PICK seq : seq = Ordered(filter)
  BY Zenon
<1>3. PICK c : c = Len(seq)
  BY Zenon
<1>4. /\ seq \in Seq(Numbers) /\ seq # <<>> /\ Ring(filter, seq)
  <2>1. 1 \in {-1, 1} /\ 0 \in Nat
    OBVIOUS
  <2>2. ComesTo(filter, 1, seq, 0, 0, adjacentAgentRecord(filter, 1, 0, 0))
    BY <1>2, <2>1, PressComesTo, Zenon
  <2> QED BY <1>2, <2>2, OrderedIsRing, Zenon DEF ComesTo
<1>5. c \in Nat /\ c >= 1 /\ c <= Count /\ Count \in Nat
  <2>1. Len(seq) = Cardinality(Eligible(filter))
    BY <1>4 DEF Ring
  <2> QED BY <1>3, <1>4, <2>1, EligibleIs, FocusAssumption
<1>6. \A n \in 0 .. Count : press[n] = Press(filter, step, press, n)
  BY <1>1, PressesAre, Zenon DEF IsPresses
<1>7. press[0].seen = seenIdle /\ seenIdle \in Nat
  <2>1. press[0] = [at |-> last, seen |-> seenIdle]
    <3>1. 0 \in 0 .. Count
      BY <1>5
    <3> QED BY <1>6, <3>1, Zenon DEF Press
  <2> QED BY <2>1 DEF FocusTypeOK
<1>8. ASSUME NEW n \in 1 .. c, press[n - 1].seen \in Nat
      PROVE  /\ press[n].seen \in Nat /\ ~JumpsToNewest(filter, seq, press[n].seen)
             /\ \E p \in 1 .. c : press[n].at = seq[p]
             /\ \A p \in 1 .. c : press[n - 1].at = seq[p] /\ ~JumpsToNewest(filter, seq, press[n - 1].seen) =>
                   press[n].at = seq[Beside(c, step, p)]
  <2>0. PICK cur, seen : cur = press[n - 1].at /\ seen = press[n - 1].seen
    BY Zenon
  <2>1. PICK a : a = adjacentAgentRecord(filter, step, cur, seen)
    BY Zenon
  <2>8. seen \in Nat
    BY <1>8, <2>0
  <2>2. n \in 0 .. Count /\ n # 0
    BY <1>5
  <2>3. press[n] = [at |-> a, seen |-> SeenAfter(filter, a, seen)]
    BY <1>6, <2>0, <2>1, <2>2, Zenon DEF Press
  <2>4. press[n].at = a /\ press[n].seen = SeenAfter(filter, a, seen)
    BY <2>3
  <2>5. /\ \E p \in 1 .. c : a = seq[p]
        /\ JumpsToNewest(filter, seq, seen) => a = seq[1]
        /\ \A p \in 1 .. c : cur = seq[p] /\ ~JumpsToNewest(filter, seq, seen) => a = seq[Beside(c, step, p)]
    <3>1. ComesTo(filter, step, seq, cur, seen, a)
      BY <1>2, <2>1, <2>8, PressComesTo, Zenon
    <3> QED BY <1>3, <3>1, Zenon DEF ComesTo
  <2>6. a \in Numbers
    BY <1>3, <1>4, <2>5
  <2>7. SeenAfter(filter, a, seen) \in Nat /\ ~JumpsToNewest(filter, seq, SeenAfter(filter, a, seen))
    BY <1>4, <2>5, <2>6, <2>8, SeenGrows, Zenon
  <2> QED BY <2>0, <2>4, <2>5, <2>7, Zenon
<1>9. PICK s \in 1 .. c : press[1].at = seq[s]
  <2>1. 1 \in 1 .. c /\ 1 - 1 = 0
    BY <1>5
  <2> QED BY <1>7, <1>8, <2>1, Zenon
<1>10. press[1].seen \in Nat /\ ~JumpsToNewest(filter, seq, press[1].seen)
  <2>1. 1 \in 1 .. c /\ 1 - 1 = 0
    BY <1>5
  <2> QED BY <1>7, <1>8, <2>1, Zenon
<1>13. GoesRound(c, step, s)
  BY <1>5, <1>9, RoundTheRing
<1> DEFINE Good(n) == /\ press[n].at = seq[Place(c, step, s, n)]
                      /\ press[n].seen \in Nat /\ ~JumpsToNewest(filter, seq, press[n].seen)
           T == {n \in 1 .. c : ~Good(n)}
<1>11. T = {}
  <2>1. SUFFICES ASSUME T # {} PROVE FALSE
    OBVIOUS
  <2>2. PICK m \in T : \A j \in T : m <= j
    <3>1. T \in SUBSET Nat
      BY <1>5
    <3> HIDE DEF T
    <3> QED BY <2>1, <3>1, LeastOf, Zenon
  <2>3. m \in 1 .. c /\ ~Good(m)
    BY <2>2
  <2>4. Good(1)
    BY <1>13, <1>9, <1>10, Zenon DEF GoesRound
  <2>5. m # 1
    BY <2>3, <2>4, Zenon
  <2>6. m - 1 \in 1 .. c /\ m - 1 \notin T
    BY <1>5, <2>2, <2>3, <2>5
  <2>7. Good(m - 1)
    BY <2>6, Zenon
  <2>8. PICK p : p = Place(c, step, s, m - 1)
    BY Zenon
  <2>9. p \in 1 .. c /\ Place(c, step, s, m) = Beside(c, step, p)
    BY <1>13, <2>3, <2>5, <2>6, <2>8, Zenon DEF GoesRound
  <2>10. press[m].at = seq[Beside(c, step, p)] /\ press[m].seen \in Nat
         /\ ~JumpsToNewest(filter, seq, press[m].seen)
    <3>1. press[m - 1].seen \in Nat /\ press[m - 1].at = seq[p] /\ ~JumpsToNewest(filter, seq, press[m - 1].seen)
      BY <2>7, <2>8, Zenon
    <3> HIDE DEF Good, T
    <3> QED BY <1>8, <2>3, <2>9, <3>1, Zenon
  <2> QED BY <2>3, <2>9, <2>10, Zenon
<1>12. \A n \in 1 .. c : press[n].at = seq[Place(c, step, s, n)]
  BY <1>11, Zenon
<1>14. PressesAlong(seq, step, press)
  BY <1>3, <1>9, <1>12, Zenon DEF PressesAlong
<1> QED BY <1>1, <1>2, <1>14, Zenon

LEMMA AllAreVisited ==
    ASSUME FocusTypeOK
    PROVE  EveryAgentVisited
<1>1. ASSUME NEW filter \in Filters, NEW step \in {-1, 1}
      PROVE  {Presses(filter, step)[i].at : i \in 1 .. Cardinality(Eligible(filter))} = Eligible(filter)
  <2>1. PICK press : press = Presses(filter, step)
    BY Zenon
  <2>2. PICK c \in Nat : c = Cardinality(Eligible(filter))
    BY EligibleIs
  <2>3. CASE Eligible(filter) = {}
    <3>1. c = 0
      BY <2>2, <2>3, FS_EmptySet
    <3>2. 1 .. c = {}
      BY <3>1
    <3>3. {press[i].at : i \in 1 .. c} = {}
      BY <3>2, Zenon
    <3> QED BY <2>1, <2>2, <2>3, <3>3, Zenon
  <2>4. CASE Eligible(filter) # {}
    <3>1. PICK seq : seq = Ordered(filter)
      BY Zenon
    <3>2. Ring(filter, seq)
      BY <3>1, OrderedIsRing, Zenon
    <3>3. /\ Len(seq) = c
          /\ \A a : a \in Eligible(filter) <=> \E i \in 1 .. c : seq[i] = a
      BY <2>2, <3>2, Zenon DEF Ring
    <3>4. PICK s \in 1 .. c : \A n \in 1 .. c : press[n].at = seq[Place(c, step, s, n)]
      <4>1. PressesAlong(seq, step, press)
        BY <2>1, <2>4, <3>1, PressesGoRound, Zenon
      <4> QED BY <3>3, <4>1, Zenon DEF PressesAlong
    <3>5. /\ \A n \in 1 .. c : Place(c, step, s, n) \in 1 .. c
          /\ \A p \in 1 .. c : \E n \in 1 .. c : Place(c, step, s, n) = p
      <4>1. GoesRound(c, step, s)
        BY <2>2, <3>4, RoundTheRing
      <4> QED BY <4>1, Zenon DEF GoesRound
    <3>6. ASSUME NEW a \in Eligible(filter) PROVE a \in {press[i].at : i \in 1 .. c}
      <4>1. PICK p \in 1 .. c : seq[p] = a
        BY <3>3
      <4>2. PICK n \in 1 .. c : Place(c, step, s, n) = p
        BY <3>5
      <4>3. press[n].at = a
        BY <3>4, <4>1, <4>2, Zenon
      <4> QED BY <4>3, Zenon
    <3>7. ASSUME NEW n \in 1 .. c PROVE press[n].at \in Eligible(filter)
      BY <3>3, <3>4, <3>5, Zenon
    <3>8. {press[i].at : i \in 1 .. c} = Eligible(filter)
      BY <3>6, <3>7
    <3> QED BY <2>1, <2>2, <3>8, Zenon
  <2> QED BY <2>3, <2>4
<1> QED BY <1>1, Zenon DEF EveryAgentVisited

LEMMA PreviousReturns ==
    ASSUME FocusTypeOK
    PROVE  PreviousUndoesNext
<1>1. ASSUME NEW filter \in Filters, last \in Eligible(filter), ~JumpsToNewest(filter, Ordered(filter), seenIdle)
      PROVE  adjacentAgentRecord(filter, -1, adjacentAgentRecord(filter, 1, last, seenIdle), seenIdle) = last
  <2>1. PICK seq : seq = Ordered(filter)
    BY Zenon
  <2>2. PICK c : c = Len(seq)
    BY Zenon
  <2>3. Ring(filter, seq) /\ seenIdle \in Nat
    BY <2>1, OrderedIsRing, Zenon DEF FocusTypeOK
  <2>4. c \in Nat
    BY <2>2, <2>3 DEF Ring
  <2>5. PICK p \in 1 .. c : last = seq[p]
    BY <1>1, <2>2, <2>3, Zenon DEF Ring
  <2>6. /\ Beside(c, 1, p) = IF p = c THEN 1 ELSE p + 1
        /\ \A q : Beside(c, -1, q) = IF q = 1 THEN c ELSE q - 1
    <3>1. -1 # 1
      OBVIOUS
    <3> QED BY <3>1, Zenon DEF Beside
  <2>7. Beside(c, 1, p) \in 1 .. c /\ Beside(c, -1, Beside(c, 1, p)) = p
    BY <2>4, <2>6
  <2>8. PICK a : a = adjacentAgentRecord(filter, 1, last, seenIdle)
    BY Zenon
  <2>9. Eligible(filter) # {} /\ 1 \in {-1, 1} /\ -1 \in {-1, 1}
    BY <1>1
  <2>10. a = seq[Beside(c, 1, p)]
    <3>1. ComesTo(filter, 1, seq, last, seenIdle, a)
      BY <2>1, <2>3, <2>8, <2>9, PressComesTo, Zenon
    <3> QED BY <1>1, <2>1, <2>2, <2>5, <3>1, Zenon DEF ComesTo
  <2>11. adjacentAgentRecord(filter, -1, a, seenIdle) = seq[Beside(c, -1, Beside(c, 1, p))]
    <3>1. PICK b : b = adjacentAgentRecord(filter, -1, a, seenIdle)
      BY Zenon
    <3>2. ComesTo(filter, -1, seq, a, seenIdle, b)
      BY <2>1, <2>3, <2>9, <3>1, PressComesTo, Zenon
    <3>3. b = seq[Beside(c, -1, Beside(c, 1, p))]
      BY <1>1, <2>1, <2>2, <2>7, <2>10, <3>2, Zenon DEF ComesTo
    <3> QED BY <3>1, <3>3, Zenon
  <2> QED BY <2>5, <2>7, <2>8, <2>11, Zenon
<1> QED BY <1>1, Zenon DEF PreviousUndoesNext

-----------------------------------------------------------------------------
\* Between two requests agents come, go and change state; records and cursor keep their types.
LEMMA FocusTypeStep ==
    ASSUME FocusTypeOK, [FocusNext]_focusVars
    PROVE  FocusTypeOK'
<1>1. CASE UNCHANGED focusVars
  BY <1>1 DEF FocusTypeOK, focusVars
<1>2. ASSUME NEW filter \in Filters, NEW step \in {-1, 1}, FocusAdjacent(filter, step) PROVE FocusTypeOK'
  <2>1. PICK a : a = adjacentAgentRecord(filter, step, last, seenIdle)
    BY Zenon
  <2>2. /\ a # 0 /\ UNCHANGED <<record, changes>>
        /\ \/ last' = a /\ seenIdle' = SeenAfter(filter, a, seenIdle)
           \/ UNCHANGED <<last, seenIdle>>
    BY <1>2, <2>1, Zenon DEF FocusAdjacent
  <2>3. CASE UNCHANGED <<last, seenIdle>>
    BY <2>2, <2>3 DEF FocusTypeOK
  <2>4. CASE last' = a /\ seenIdle' = SeenAfter(filter, a, seenIdle)
    <3>1. Eligible(filter) # {}
      <4>1. SUFFICES ASSUME Eligible(filter) = {} PROVE FALSE
        OBVIOUS
      <4>2. PICK seq : seq = Ordered(filter)
        BY Zenon
      <4>3. seq \in Seq(Numbers) /\ Len(seq) = 0
        BY <4>1, <4>2, OrderedIsRing, FS_EmptySet DEF Ring
      <4>4. seq = <<>>
        BY <4>3
      <4>5. adjacentAgentRecord(filter, step, last, seenIdle) = 0
        BY <4>2, <4>4, Zenon DEF adjacentAgentRecord
      <4> QED BY <2>1, <2>2, <4>5
    <3>2. seenIdle \in Nat
      BY DEF FocusTypeOK
    <3>3. PICK seq : seq = Ordered(filter)
      BY Zenon
    <3>4. /\ seq \in Seq(Numbers) /\ seq # <<>> /\ \E p \in 1 .. Len(seq) : a = seq[p]
          /\ JumpsToNewest(filter, seq, seenIdle) => a = seq[1]
      <4>1. ComesTo(filter, step, seq, last, seenIdle, a)
        BY <2>1, <3>1, <3>2, <3>3, PressComesTo, Zenon
      <4> QED BY <4>1, Zenon DEF ComesTo
    <3>5. a \in Numbers
      BY <3>4
    <3>6. SeenAfter(filter, a, seenIdle) \in Nat
      BY <3>2, <3>4, <3>5, SeenGrows, Zenon
    <3> QED BY <2>2, <2>4, <3>5, <3>6 DEF FocusTypeOK
  <2> QED BY <2>2, <2>3, <2>4
<1>3. ASSUME NEW a \in Numbers, FocusAgent(a) PROVE FocusTypeOK'
  BY <1>3 DEF FocusAgent, FocusTypeOK
<1>4. ASSUME NEW a \in Numbers, SetPinned(a) PROVE FocusTypeOK'
  BY <1>4 DEF SetPinned, FocusTypeOK, RecordType
<1>5. ASSUME NEW a \in Numbers, AgentChanges(a) PROVE FocusTypeOK'
  <2>1. PICK k \in Nat : k = changes + 1
    BY DEF FocusTypeOK
  <2>2. /\ record' = [record EXCEPT ![a].idle = ~@, ![a].changed = k] /\ changes' = k
        /\ UNCHANGED <<last, seenIdle>>
    BY <1>5, <2>1, Zenon DEF AgentChanges
  <2>3. record \in [Numbers -> RecordType] /\ record[a].idle \in BOOLEAN
    BY DEF FocusTypeOK, RecordType
  <2>4. record' \in [Numbers -> RecordType]
    <3>1. record[a] \in RecordType
      BY <2>3
    <3>2. PICK next : next = [record[a] EXCEPT !.idle = ~@, !.changed = k]
      BY Zenon
    <3>3. next \in RecordType
      BY <2>1, <3>1, <3>2 DEF RecordType
    <3>4. record' = [record EXCEPT ![a] = next]
      BY <2>2, <2>3, <3>2
    <3> QED BY <2>3, <3>3, <3>4
  <2> QED BY <2>1, <2>2, <2>4 DEF FocusTypeOK
<1>6. ASSUME NEW a \in Numbers, AgentLeaves(a) PROVE FocusTypeOK'
  BY <1>6 DEF AgentLeaves, FocusTypeOK, RecordType
<1> QED BY <1>1, <1>2, <1>3, <1>4, <1>5, <1>6, Zenon DEF FocusNext

\* From any state the service can be in, pressing the key for the next agent, or the one for the
\* previous agent, as often as there are eligible agents visits each of them, whoever became idle
\* in the meantime (focusAdjacentAgent); and previous undoes next.
THEOREM FocusRound == FocusSpec => []FocusGoesRound
<1>1. FocusInit => FocusTypeOK
  BY FocusAssumption DEF FocusInit, FocusTypeOK, RecordType
<1>2. FocusTypeOK /\ [FocusNext]_focusVars => FocusTypeOK'
  BY FocusTypeStep
<1>3. FocusTypeOK => FocusGoesRound
  BY AllAreVisited, PreviousReturns DEF FocusGoesRound
<1> QED BY <1>1, <1>2, <1>3, PTL DEF FocusSpec

-----------------------------------------------------------------------------
(* The panes of browser tabs.                                              *)

\* Chrome, the tracker with its spawner, the watcher and the daemon, by themselves.
TabSpec == TabInit /\ [][TabNext]_tabVars

Request == [by: {"spawner", "watcher"}, tab: Tabs]
Mine(t) == [by |-> "spawner", tab |-> t]
PaneRecord == [record: {"absent", "running", "error", "ended"}, by: {"none", "spawner", "watcher"}]

\* The variables keep their types.
TabTypeOK ==
    /\ tabs \in [Tabs -> {"unborn", "open", "closed"}]
    /\ own \in Tabs \union {NoTab} /\ phase \in {"select", "start", "run", "alone", "over"}
    /\ scan \in [todo: SUBSET Tabs, current: SUBSET Tabs, busy: BOOLEAN] /\ scan.todo \subseteq scan.current
    /\ waiting \in Tabs \union {NoTab}
    /\ known \in [{"spawner", "watcher"} -> SUBSET Tabs]
    /\ active \subseteq Tabs /\ child \subseteq Tabs /\ quit \subseteq Tabs /\ faults \in Nat
    /\ asked \subseteq Request /\ made \subseteq Request
    /\ panes \in [Tabs -> PaneRecord]

\* Only a tab that has been open is known to anyone.
BornFirst ==
    /\ \A r \in asked \union made : tabs[r.tab] # "unborn"
    /\ \A t \in scan.current : tabs[t] # "unborn"

\* A scan is in use while the spawner runs, and the tab that is waited for is in it.
ScanInUse ==
    /\ scan.busy => phase = "run"
    /\ waiting # NoTab => scan.busy /\ waiting \in scan.current

\* What the spawner looks after was made for it.
ActiveIsMade == \A t \in active : Mine(t) \in made

\* A pane made for the spawner is there, and its tracker runs, until the tab is closed or the
\* tracker quit.
MadeIsThere ==
    \A t \in Tabs : Mine(t) \in made /\ tabs[t] # "closed" /\ t \notin quit =>
       t \in child /\ panes[t].by = "spawner" /\ panes[t].record # "absent"

\* Whatever the spawner looks after is in the scan it works on, or closed.
ScanCoversActive == scan.busy => \A t \in active : t \in scan.current \/ tabs[t] = "closed"

\* Before the baseline nothing has been asked for by the spawner.
NothingBefore ==
    phase \in {"select", "start"} =>
       active = {} /\ scan = NoScan /\ \A t \in Tabs : Mine(t) \notin asked /\ Mine(t) \notin made /\ panes[t].by # "spawner"

\* The tracker's own tab is known to the spawner, or was closed before the baseline and is in no scan.
OwnIsKnown ==
    /\ phase = "select" => own = NoTab
    /\ own = NoTab => phase \in {"select", "over"}
    /\ own # NoTab => tabs[own] # "unborn"
    /\ phase = "run" => own \in known["spawner"] \/ (tabs[own] = "closed" /\ own \notin scan.current)

\* So no pane is asked for on its account.
OwnIsNotAsked ==
    \A t \in Tabs : t = own =>
       Mine(t) \notin asked /\ Mine(t) \notin made /\ panes[t].by # "spawner" /\ t \notin active

\* A tracker that runs has a record, so no second pane is made for its tab.
ChildHasRecord == \A t \in child : panes[t].record # "absent"

TabInv ==
    /\ TabTypeOK /\ BornFirst /\ ScanInUse /\ ActiveIsMade /\ MadeIsThere /\ ScanCoversActive
    /\ NothingBefore /\ OwnIsKnown /\ OwnIsNotAsked /\ ChildHasRecord

LEMMA MineIs ==
    /\ \A t \in Tabs : Mine(t) \in Request /\ Mine(t).tab = t /\ Mine(t).by = "spawner"
    /\ \A r \in Request : r.tab \in Tabs /\ r.by \in {"spawner", "watcher"} /\ (r.by = "spawner" => r = Mine(r.tab))
BY DEF Mine, Request

LEMMA NoScanIs ==
    NoScan \in [todo: SUBSET Tabs, current: SUBSET Tabs, busy: BOOLEAN] /\ ~NoScan.busy /\ NoScan.todo = {} /\ NoScan.current = {}
BY DEF NoScan

LEMMA StepOpenTab ==
    ASSUME TabInv, NEW t \in Tabs, OpenTab(t)
    PROVE  TabInv'
<1>1. TabTypeOK'
  BY DEF TabInv, TabTypeOK, OpenTab
<1>2. BornFirst'
  BY DEF TabInv, BornFirst, OpenTab
<1>3. ScanInUse'
  BY DEF TabInv, ScanInUse, OpenTab
<1>4. ActiveIsMade'
  BY DEF TabInv, ActiveIsMade, OpenTab
<1>5. MadeIsThere'
  BY DEF TabInv, MadeIsThere, OpenTab
<1>6. ScanCoversActive'
  BY DEF TabInv, ScanCoversActive, OpenTab
<1>7. NothingBefore'
  BY DEF TabInv, NothingBefore, OpenTab
<1>8. OwnIsKnown'
  BY DEF TabInv, OwnIsKnown, OpenTab
<1>9. OwnIsNotAsked'
  BY DEF TabInv, OwnIsNotAsked, OpenTab
<1>10. ChildHasRecord'
  BY DEF TabInv, TabTypeOK, ChildHasRecord, OpenTab
<1> QED BY <1>1, <1>2, <1>3, <1>4, <1>5, <1>6, <1>7, <1>8, <1>9, <1>10, Zenon DEF TabInv

LEMMA StepCloseTab ==
    ASSUME TabInv, NEW t \in Tabs, CloseTab(t)
    PROVE  TabInv'
<1>1. TabTypeOK'
  BY DEF TabInv, TabTypeOK, CloseTab
<1>2. BornFirst'
  BY DEF TabInv, BornFirst, CloseTab
<1>3. ScanInUse'
  BY DEF TabInv, ScanInUse, CloseTab
<1>4. ActiveIsMade'
  BY DEF TabInv, ActiveIsMade, CloseTab
<1>5. MadeIsThere'
  BY DEF TabInv, MadeIsThere, CloseTab
<1>6. ScanCoversActive'
  BY DEF TabInv, ScanCoversActive, CloseTab
<1>7. NothingBefore'
  BY DEF TabInv, NothingBefore, CloseTab
<1>8. OwnIsKnown'
  BY DEF TabInv, OwnIsKnown, CloseTab
<1>9. OwnIsNotAsked'
  BY DEF TabInv, OwnIsNotAsked, CloseTab
<1>10. ChildHasRecord'
  BY DEF TabInv, TabTypeOK, ChildHasRecord, CloseTab
<1> QED BY <1>1, <1>2, <1>3, <1>4, <1>5, <1>6, <1>7, <1>8, <1>9, <1>10, Zenon DEF TabInv

LEMMA StepSelectTarget ==
    ASSUME TabInv, NEW t \in Tabs, SelectTarget(t)
    PROVE  TabInv'
<1>1. TabTypeOK'
  BY DEF TabInv, TabTypeOK, SelectTarget
<1>2. BornFirst'
  BY DEF TabInv, BornFirst, SelectTarget
<1>3. ScanInUse'
  BY DEF TabInv, ScanInUse, SelectTarget
<1>4. ActiveIsMade'
  BY DEF TabInv, ActiveIsMade, SelectTarget
<1>5. MadeIsThere'
  BY DEF TabInv, MadeIsThere, SelectTarget
<1>6. ScanCoversActive'
  BY DEF TabInv, ScanCoversActive, SelectTarget
<1>7. NothingBefore'
  BY DEF TabInv, NothingBefore, SelectTarget
<1>8. OwnIsKnown'
  BY TabAssumption DEF TabInv, TabTypeOK, OwnIsKnown, SelectTarget
<1>9. OwnIsNotAsked'
  BY DEF TabInv, NothingBefore, OwnIsNotAsked, SelectTarget
<1>10. ChildHasRecord'
  BY DEF TabInv, TabTypeOK, ChildHasRecord, SelectTarget
<1> QED BY <1>1, <1>2, <1>3, <1>4, <1>5, <1>6, <1>7, <1>8, <1>9, <1>10, Zenon DEF TabInv

LEMMA StepMarkBaseline ==
    ASSUME TabInv, MarkBaseline
    PROVE  TabInv'
<1>1. TabTypeOK'
  BY DEF TabInv, TabTypeOK, MarkBaseline, Open
<1>2. BornFirst'
  BY DEF TabInv, BornFirst, MarkBaseline
<1>3. ScanInUse'
  BY DEF TabInv, ScanInUse, MarkBaseline
<1>4. ActiveIsMade'
  BY DEF TabInv, ActiveIsMade, MarkBaseline
<1>5. MadeIsThere'
  BY DEF TabInv, MadeIsThere, MarkBaseline
<1>6. ScanCoversActive'
  BY DEF TabInv, ScanCoversActive, MarkBaseline
<1>7. NothingBefore'
  BY DEF NothingBefore, MarkBaseline
<1>8. OwnIsKnown'
  BY NoScanIs DEF TabInv, TabTypeOK, NothingBefore, OwnIsKnown, MarkBaseline, Open
<1>9. OwnIsNotAsked'
  BY DEF TabInv, OwnIsNotAsked, MarkBaseline
<1>10. ChildHasRecord'
  BY DEF TabInv, TabTypeOK, ChildHasRecord, MarkBaseline
<1> QED BY <1>1, <1>2, <1>3, <1>4, <1>5, <1>6, <1>7, <1>8, <1>9, <1>10, Zenon DEF TabInv

LEMMA StepSpawnerDisabled ==
    ASSUME TabInv, SpawnerDisabled
    PROVE  TabInv'
<1>1. TabTypeOK'
  BY DEF TabInv, TabTypeOK, SpawnerDisabled, Fault
<1>2. BornFirst'
  BY DEF TabInv, BornFirst, SpawnerDisabled
<1>3. ScanInUse'
  BY DEF TabInv, ScanInUse, SpawnerDisabled
<1>4. ActiveIsMade'
  BY DEF TabInv, ActiveIsMade, SpawnerDisabled
<1>5. MadeIsThere'
  BY DEF TabInv, MadeIsThere, SpawnerDisabled
<1>6. ScanCoversActive'
  BY DEF TabInv, ScanCoversActive, SpawnerDisabled
<1>7. NothingBefore'
  BY DEF NothingBefore, SpawnerDisabled
<1>8. OwnIsKnown'
  BY DEF TabInv, OwnIsKnown, SpawnerDisabled
<1>9. OwnIsNotAsked'
  BY DEF TabInv, OwnIsNotAsked, SpawnerDisabled
<1>10. ChildHasRecord'
  BY DEF TabInv, TabTypeOK, ChildHasRecord, SpawnerDisabled
<1> QED BY <1>1, <1>2, <1>3, <1>4, <1>5, <1>6, <1>7, <1>8, <1>9, <1>10, Zenon DEF TabInv

LEMMA StepTrackerQuits ==
    ASSUME TabInv, TrackerQuits
    PROVE  TabInv'
<1>1. TabTypeOK'
  BY NoScanIs DEF TabInv, TabTypeOK, TrackerQuits
<1>2. BornFirst'
  BY NoScanIs DEF TabInv, BornFirst, TrackerQuits
<1>3. ScanInUse'
  BY NoScanIs DEF ScanInUse, TrackerQuits
<1>4. ActiveIsMade'
  BY DEF TabInv, ActiveIsMade, TrackerQuits
<1>5. MadeIsThere'
  BY DEF TabInv, MadeIsThere, TrackerQuits
<1>6. ScanCoversActive'
  BY NoScanIs DEF ScanCoversActive, TrackerQuits
<1>7. NothingBefore'
  BY DEF NothingBefore, TrackerQuits
<1>8. OwnIsKnown'
  BY DEF TabInv, OwnIsKnown, TrackerQuits
<1>9. OwnIsNotAsked'
  BY DEF TabInv, OwnIsNotAsked, TrackerQuits
<1>10. ChildHasRecord'
  BY DEF TabInv, TabTypeOK, ChildHasRecord, TrackerQuits
<1> QED BY <1>1, <1>2, <1>3, <1>4, <1>5, <1>6, <1>7, <1>8, <1>9, <1>10, Zenon DEF TabInv

LEMMA StepUserQuits ==
    ASSUME TabInv, UserQuits
    PROVE  TabInv'
<1>1. TabTypeOK'
  BY NoScanIs DEF TabInv, TabTypeOK, UserQuits
<1>2. BornFirst'
  BY NoScanIs DEF TabInv, BornFirst, UserQuits
<1>3. ScanInUse'
  BY NoScanIs DEF ScanInUse, UserQuits
<1>4. ActiveIsMade'
  BY DEF TabInv, ActiveIsMade, UserQuits
<1>5. MadeIsThere'
  BY DEF TabInv, MadeIsThere, UserQuits
<1>6. ScanCoversActive'
  BY NoScanIs DEF ScanCoversActive, UserQuits
<1>7. NothingBefore'
  BY DEF NothingBefore, UserQuits
<1>8. OwnIsKnown'
  BY DEF TabInv, OwnIsKnown, UserQuits
<1>9. OwnIsNotAsked'
  BY DEF TabInv, OwnIsNotAsked, UserQuits
<1>10. ChildHasRecord'
  BY DEF TabInv, TabTypeOK, ChildHasRecord, UserQuits
<1> QED BY <1>1, <1>2, <1>3, <1>4, <1>5, <1>6, <1>7, <1>8, <1>9, <1>10, Zenon DEF TabInv

LEMMA StepTick ==
    ASSUME TabInv, Tick
    PROVE  TabInv'
<1>1. TabTypeOK'
  BY DEF TabInv, TabTypeOK, Tick, Open
<1>2. BornFirst'
  BY DEF TabInv, BornFirst, Tick, Open
<1>3. ScanInUse'
  BY DEF TabInv, ScanInUse, Tick
<1>4. ActiveIsMade'
  BY DEF TabInv, ActiveIsMade, Tick
<1>5. MadeIsThere'
  BY DEF TabInv, MadeIsThere, Tick
<1>6. ScanCoversActive'
  BY MineIs DEF TabInv, TabTypeOK, BornFirst, ActiveIsMade, ScanCoversActive, Tick, Open
<1>7. NothingBefore'
  BY DEF NothingBefore, Tick
<1>8. OwnIsKnown'
  BY DEF TabInv, OwnIsKnown, Tick, Open
<1>9. OwnIsNotAsked'
  BY DEF TabInv, OwnIsNotAsked, Tick
<1>10. ChildHasRecord'
  BY DEF TabInv, TabTypeOK, ChildHasRecord, Tick
<1> QED BY <1>1, <1>2, <1>3, <1>4, <1>5, <1>6, <1>7, <1>8, <1>9, <1>10, Zenon DEF TabInv

LEMMA StepAskForPane ==
    ASSUME TabInv, NEW t \in Tabs, AskForPane(t)
    PROVE  TabInv'
<1>0. [by |-> "spawner", tab |-> t] \in Request
  BY DEF Request
<1>1. TabTypeOK'
  BY <1>0 DEF TabInv, TabTypeOK, AskForPane
<1>2. BornFirst'
  BY DEF TabInv, TabTypeOK, BornFirst, AskForPane
<1>3. ScanInUse'
  BY DEF TabInv, TabTypeOK, ScanInUse, AskForPane
<1>4. ActiveIsMade'
  BY DEF TabInv, ActiveIsMade, AskForPane
<1>5. MadeIsThere'
  BY DEF TabInv, MadeIsThere, AskForPane
<1>6. ScanCoversActive'
  BY DEF TabInv, ScanCoversActive, AskForPane
<1>7. NothingBefore'
  BY DEF TabInv, ScanInUse, NothingBefore, AskForPane
<1>8. OwnIsKnown'
  BY DEF TabInv, OwnIsKnown, AskForPane
<1>9. OwnIsNotAsked'
  BY MineIs DEF TabInv, TabTypeOK, ScanInUse, OwnIsKnown, OwnIsNotAsked, AskForPane
<1>10. ChildHasRecord'
  BY DEF TabInv, TabTypeOK, ChildHasRecord, AskForPane
<1> QED BY <1>1, <1>2, <1>3, <1>4, <1>5, <1>6, <1>7, <1>8, <1>9, <1>10, Zenon DEF TabInv

LEMMA StepPaneAnswered ==
    ASSUME TabInv, PaneAnswered
    PROVE  TabInv'
<1>1. TabTypeOK'
  BY DEF TabInv, TabTypeOK, PaneAnswered
<1>2. BornFirst'
  BY DEF TabInv, BornFirst, PaneAnswered
<1>3. ScanInUse'
  BY DEF TabInv, ScanInUse, PaneAnswered
<1>4. ActiveIsMade'
  BY MineIs DEF TabInv, TabTypeOK, ActiveIsMade, PaneAnswered
<1>5. MadeIsThere'
  BY DEF TabInv, MadeIsThere, PaneAnswered
<1>6. ScanCoversActive'
  BY DEF TabInv, ScanInUse, ScanCoversActive, PaneAnswered
<1>7. NothingBefore'
  BY DEF TabInv, ScanInUse, NothingBefore, PaneAnswered
<1>8. OwnIsKnown'
  BY DEF TabInv, OwnIsKnown, PaneAnswered
<1>9. OwnIsNotAsked'
  BY MineIs DEF TabInv, TabTypeOK, OwnIsNotAsked, PaneAnswered
<1>10. ChildHasRecord'
  BY DEF TabInv, TabTypeOK, ChildHasRecord, PaneAnswered
<1> QED BY <1>1, <1>2, <1>3, <1>4, <1>5, <1>6, <1>7, <1>8, <1>9, <1>10, Zenon DEF TabInv

LEMMA StepPaneFailed ==
    ASSUME TabInv, PaneFailed
    PROVE  TabInv'
<1>1. TabTypeOK'
  BY DEF TabInv, TabTypeOK, PaneFailed, Fault
<1>2. BornFirst'
  BY DEF TabInv, BornFirst, PaneFailed
<1>3. ScanInUse'
  BY DEF TabInv, ScanInUse, PaneFailed
<1>4. ActiveIsMade'
  BY DEF TabInv, ActiveIsMade, PaneFailed
<1>5. MadeIsThere'
  BY DEF TabInv, MadeIsThere, PaneFailed
<1>6. ScanCoversActive'
  BY DEF TabInv, ScanCoversActive, PaneFailed
<1>7. NothingBefore'
  BY DEF TabInv, NothingBefore, PaneFailed
<1>8. OwnIsKnown'
  BY DEF TabInv, OwnIsKnown, PaneFailed
<1>9. OwnIsNotAsked'
  BY DEF TabInv, OwnIsNotAsked, PaneFailed
<1>10. ChildHasRecord'
  BY DEF TabInv, TabTypeOK, ChildHasRecord, PaneFailed
<1> QED BY <1>1, <1>2, <1>3, <1>4, <1>5, <1>6, <1>7, <1>8, <1>9, <1>10, Zenon DEF TabInv

LEMMA StepCleanUp ==
    ASSUME TabInv, NEW t \in Tabs, CleanUp(t)
    PROVE  TabInv'
<1>1. TabTypeOK'
  BY DEF TabInv, TabTypeOK, CleanUp, NoPane, PaneRecord
<1>2. BornFirst'
  BY DEF TabInv, BornFirst, CleanUp
<1>3. ScanInUse'
  BY DEF TabInv, ScanInUse, CleanUp
<1>4. ActiveIsMade'
  BY DEF TabInv, ActiveIsMade, CleanUp
<1>5. MadeIsThere'
  BY DEF TabInv, MadeIsThere, ScanCoversActive, CleanUp, StaleTabs
<1>6. ScanCoversActive'
  BY DEF TabInv, ScanCoversActive, CleanUp
<1>7. NothingBefore'
  BY DEF TabInv, NothingBefore, CleanUp, NoPane
<1>8. OwnIsKnown'
  BY DEF TabInv, OwnIsKnown, CleanUp
<1>9. OwnIsNotAsked'
  BY DEF TabInv, OwnIsNotAsked, CleanUp, NoPane
<1>10. ChildHasRecord'
  BY DEF TabInv, TabTypeOK, ChildHasRecord, CleanUp
<1> QED BY <1>1, <1>2, <1>3, <1>4, <1>5, <1>6, <1>7, <1>8, <1>9, <1>10, Zenon DEF TabInv

LEMMA StepScanDone ==
    ASSUME TabInv, ScanDone
    PROVE  TabInv'
<1>1. TabTypeOK'
  BY NoScanIs DEF TabInv, TabTypeOK, ScanDone
<1>2. BornFirst'
  BY NoScanIs DEF TabInv, BornFirst, ScanDone
<1>3. ScanInUse'
  BY DEF TabInv, ScanInUse, ScanDone
<1>4. ActiveIsMade'
  BY DEF TabInv, ActiveIsMade, ScanDone
<1>5. MadeIsThere'
  BY DEF TabInv, MadeIsThere, ScanDone
<1>6. ScanCoversActive'
  BY NoScanIs DEF ScanCoversActive, ScanDone
<1>7. NothingBefore'
  BY DEF TabInv, NothingBefore, ScanDone
<1>8. OwnIsKnown'
  BY NoScanIs DEF TabInv, OwnIsKnown, ScanDone
<1>9. OwnIsNotAsked'
  BY DEF TabInv, OwnIsNotAsked, ScanDone
<1>10. ChildHasRecord'
  BY DEF TabInv, TabTypeOK, ChildHasRecord, ScanDone
<1> QED BY <1>1, <1>2, <1>3, <1>4, <1>5, <1>6, <1>7, <1>8, <1>9, <1>10, Zenon DEF TabInv

LEMMA StepWatcherAsks ==
    ASSUME TabInv, NEW t \in Tabs, WatcherAsks(t)
    PROVE  TabInv'
<1>0. [by |-> "watcher", tab |-> t] \in Request
  BY DEF Request
<1>1. TabTypeOK'
  BY <1>0 DEF TabInv, TabTypeOK, WatcherAsks
<1>2. BornFirst'
  BY DEF TabInv, BornFirst, WatcherAsks, Open
<1>3. ScanInUse'
  BY DEF TabInv, ScanInUse, WatcherAsks
<1>4. ActiveIsMade'
  BY DEF TabInv, ActiveIsMade, WatcherAsks
<1>5. MadeIsThere'
  BY DEF TabInv, MadeIsThere, WatcherAsks
<1>6. ScanCoversActive'
  BY DEF TabInv, ScanCoversActive, WatcherAsks
<1>7. NothingBefore'
  BY MineIs DEF TabInv, NothingBefore, WatcherAsks
<1>8. OwnIsKnown'
  BY DEF TabInv, OwnIsKnown, WatcherAsks
<1>9. OwnIsNotAsked'
  BY MineIs DEF TabInv, OwnIsNotAsked, WatcherAsks
<1>10. ChildHasRecord'
  BY DEF TabInv, TabTypeOK, ChildHasRecord, WatcherAsks
<1> QED BY <1>1, <1>2, <1>3, <1>4, <1>5, <1>6, <1>7, <1>8, <1>9, <1>10, Zenon DEF TabInv

LEMMA StepChildEnds ==
    ASSUME TabInv, NEW t \in Tabs, ChildEnds(t)
    PROVE  TabInv'
<1>1. TabTypeOK'
  BY DEF TabInv, TabTypeOK, ChildEnds
<1>2. BornFirst'
  BY DEF TabInv, BornFirst, ChildEnds
<1>3. ScanInUse'
  BY DEF TabInv, ScanInUse, ChildEnds
<1>4. ActiveIsMade'
  BY DEF TabInv, ActiveIsMade, ChildEnds
<1>5. MadeIsThere'
  BY DEF TabInv, MadeIsThere, ChildEnds
<1>6. ScanCoversActive'
  BY DEF TabInv, ScanCoversActive, ChildEnds
<1>7. NothingBefore'
  BY DEF TabInv, NothingBefore, ChildEnds
<1>8. OwnIsKnown'
  BY DEF TabInv, OwnIsKnown, ChildEnds
<1>9. OwnIsNotAsked'
  BY DEF TabInv, OwnIsNotAsked, ChildEnds
<1>10. ChildHasRecord'
  BY DEF TabInv, TabTypeOK, ChildHasRecord, ChildEnds
<1> QED BY <1>1, <1>2, <1>3, <1>4, <1>5, <1>6, <1>7, <1>8, <1>9, <1>10, Zenon DEF TabInv

LEMMA StepChildQuits ==
    ASSUME TabInv, NEW t \in Tabs, ChildQuits(t)
    PROVE  TabInv'
<1>1. TabTypeOK'
  BY DEF TabInv, TabTypeOK, ChildQuits
<1>2. BornFirst'
  BY DEF TabInv, BornFirst, ChildQuits
<1>3. ScanInUse'
  BY DEF TabInv, ScanInUse, ChildQuits
<1>4. ActiveIsMade'
  BY DEF TabInv, ActiveIsMade, ChildQuits
<1>5. MadeIsThere'
  BY DEF TabInv, MadeIsThere, ChildQuits
<1>6. ScanCoversActive'
  BY DEF TabInv, ScanCoversActive, ChildQuits
<1>7. NothingBefore'
  BY DEF TabInv, NothingBefore, ChildQuits
<1>8. OwnIsKnown'
  BY DEF TabInv, OwnIsKnown, ChildQuits
<1>9. OwnIsNotAsked'
  BY DEF TabInv, OwnIsNotAsked, ChildQuits
<1>10. ChildHasRecord'
  BY DEF TabInv, TabTypeOK, ChildHasRecord, ChildQuits
<1> QED BY <1>1, <1>2, <1>3, <1>4, <1>5, <1>6, <1>7, <1>8, <1>9, <1>10, Zenon DEF TabInv

LEMMA StepCleanUpFails ==
    ASSUME TabInv, NEW t \in Tabs, NEW gone \in BOOLEAN, CleanUpFails(t, gone)
    PROVE  TabInv'
<1>1. TabTypeOK'
  BY NoScanIs DEF TabInv, TabTypeOK, CleanUpFails, Fault, NoPane, PaneRecord
<1>2. BornFirst'
  BY NoScanIs DEF TabInv, BornFirst, CleanUpFails
<1>3. ScanInUse'
  BY DEF TabInv, ScanInUse, CleanUpFails
<1>4. ActiveIsMade'
  BY DEF TabInv, ActiveIsMade, CleanUpFails
<1>5. MadeIsThere'
  BY DEF TabInv, MadeIsThere, ScanCoversActive, CleanUpFails, StaleTabs
<1>6. ScanCoversActive'
  BY NoScanIs DEF ScanCoversActive, CleanUpFails
<1>7. NothingBefore'
  BY DEF TabInv, NothingBefore, CleanUpFails, NoPane
<1>8. OwnIsKnown'
  BY NoScanIs DEF TabInv, OwnIsKnown, CleanUpFails
<1>9. OwnIsNotAsked'
  BY DEF TabInv, OwnIsNotAsked, CleanUpFails, NoPane
<1>10. ChildHasRecord'
  BY DEF TabInv, TabTypeOK, ChildHasRecord, CleanUpFails
<1> QED BY <1>1, <1>2, <1>3, <1>4, <1>5, <1>6, <1>7, <1>8, <1>9, <1>10, Zenon DEF TabInv

LEMMA StepEndSeen ==
    ASSUME TabInv, NEW t \in Tabs, NEW left \in {"absent", "ended"}, EndSeen(t, left)
    PROVE  TabInv'
<1>1. TabTypeOK'
  BY DEF TabInv, TabTypeOK, EndSeen, NoPane, PaneRecord
<1>2. BornFirst'
  BY DEF TabInv, BornFirst, EndSeen
<1>3. ScanInUse'
  BY DEF TabInv, ScanInUse, EndSeen
<1>4. ActiveIsMade'
  BY DEF TabInv, ActiveIsMade, EndSeen
<1>5. MadeIsThere'
  BY DEF TabInv, MadeIsThere, EndSeen
<1>6. ScanCoversActive'
  BY DEF TabInv, ScanCoversActive, EndSeen
<1>7. NothingBefore'
  BY DEF TabInv, NothingBefore, EndSeen, NoPane
<1>8. OwnIsKnown'
  BY DEF TabInv, OwnIsKnown, EndSeen
<1>9. OwnIsNotAsked'
  BY DEF TabInv, OwnIsNotAsked, EndSeen, NoPane
<1>10. ChildHasRecord'
  BY DEF TabInv, TabTypeOK, ChildHasRecord, EndSeen
<1> QED BY <1>1, <1>2, <1>3, <1>4, <1>5, <1>6, <1>7, <1>8, <1>9, <1>10, Zenon DEF TabInv

LEMMA StepDaemonCreates ==
    ASSUME TabInv, NEW r \in asked, DaemonCreates(r)
    PROVE  TabInv'
<1>1. TabTypeOK'
  BY MineIs DEF TabInv, TabTypeOK, DaemonCreates, PaneRecord
<1>2. BornFirst'
  BY DEF TabInv, BornFirst, DaemonCreates
<1>3. ScanInUse'
  BY DEF TabInv, ScanInUse, DaemonCreates
<1>4. ActiveIsMade'
  BY DEF TabInv, ActiveIsMade, DaemonCreates
<1>5. MadeIsThere'
  BY MineIs DEF TabInv, TabTypeOK, MadeIsThere, DaemonCreates
<1>6. ScanCoversActive'
  BY DEF TabInv, ScanCoversActive, DaemonCreates
<1>7. NothingBefore'
  BY MineIs DEF TabInv, TabTypeOK, ScanCoversActive, NothingBefore, DaemonCreates
<1>8. OwnIsKnown'
  BY DEF TabInv, OwnIsKnown, DaemonCreates
<1>9. OwnIsNotAsked'
  BY MineIs DEF TabInv, TabTypeOK, ActiveIsMade, MadeIsThere, OwnIsNotAsked, DaemonCreates
<1>10. ChildHasRecord'
  BY MineIs DEF TabInv, TabTypeOK, ChildHasRecord, DaemonCreates
<1> QED BY <1>1, <1>2, <1>3, <1>4, <1>5, <1>6, <1>7, <1>8, <1>9, <1>10, Zenon DEF TabInv

LEMMA StepDaemonRefuses ==
    ASSUME TabInv, NEW r \in asked, DaemonRefuses(r)
    PROVE  TabInv'
<1>1. TabTypeOK'
  BY DEF TabInv, TabTypeOK, DaemonRefuses, Fault
<1>2. BornFirst'
  BY DEF TabInv, BornFirst, DaemonRefuses
<1>3. ScanInUse'
  BY DEF TabInv, ScanInUse, DaemonRefuses
<1>4. ActiveIsMade'
  BY DEF TabInv, ActiveIsMade, DaemonRefuses
<1>5. MadeIsThere'
  BY DEF TabInv, MadeIsThere, DaemonRefuses
<1>6. ScanCoversActive'
  BY DEF TabInv, ScanCoversActive, DaemonRefuses
<1>7. NothingBefore'
  BY DEF TabInv, NothingBefore, DaemonRefuses
<1>8. OwnIsKnown'
  BY DEF TabInv, OwnIsKnown, DaemonRefuses
<1>9. OwnIsNotAsked'
  BY DEF TabInv, OwnIsNotAsked, DaemonRefuses
<1>10. ChildHasRecord'
  BY DEF TabInv, TabTypeOK, ChildHasRecord, DaemonRefuses
<1> QED BY <1>1, <1>2, <1>3, <1>4, <1>5, <1>6, <1>7, <1>8, <1>9, <1>10, Zenon DEF TabInv

LEMMA TabStarts ==
    ASSUME TabInit
    PROVE  TabInv
<1>1. /\ tabs \in [Tabs -> {"unborn", "open"}] /\ own = NoTab /\ phase = "select" /\ scan = NoScan /\ waiting = NoTab
      /\ known = [who \in {"spawner", "watcher"} |-> {}]
      /\ active = {} /\ asked = {} /\ made = {} /\ child = {} /\ quit = {} /\ faults = 0
      /\ panes = [t \in Tabs |-> NoPane]
  BY DEF TabInit
<1>2. \A t \in Tabs : panes[t] \in PaneRecord /\ panes[t].by = "none"
  BY <1>1 DEF NoPane, PaneRecord
<1>3. known \in [{"spawner", "watcher"} -> SUBSET Tabs] /\ panes \in [Tabs -> PaneRecord]
  BY <1>1, <1>2
<1>4. TabTypeOK
  BY <1>1, <1>3, NoScanIs DEF TabTypeOK
<1>5. BornFirst /\ ScanInUse /\ ActiveIsMade /\ MadeIsThere /\ ScanCoversActive
  BY <1>1, NoScanIs DEF BornFirst, ScanInUse, ActiveIsMade, MadeIsThere, ScanCoversActive
<1>6. NothingBefore /\ OwnIsKnown /\ OwnIsNotAsked /\ ChildHasRecord
  BY <1>1, <1>2, TabAssumption DEF NothingBefore, OwnIsKnown, OwnIsNotAsked, ChildHasRecord
<1> QED BY <1>4, <1>5, <1>6, Zenon DEF TabInv

LEMMA TabSteps ==
    ASSUME TabInv, [TabNext]_tabVars
    PROVE  TabInv'
<1>1. CASE UNCHANGED tabVars
  BY <1>1 DEF tabVars, TabInv, TabTypeOK, BornFirst, ScanInUse, ActiveIsMade, MadeIsThere, ScanCoversActive,
             NothingBefore, OwnIsKnown, OwnIsNotAsked, ChildHasRecord
<1>2. CASE SpawnerStep
  BY <1>2, StepTick, StepPaneAnswered, StepScanDone, StepAskForPane, StepCleanUp, Zenon DEF SpawnerStep
<1>3. CASE MarkBaseline \/ SpawnerDisabled \/ TrackerQuits \/ UserQuits \/ PaneFailed
  BY <1>3, StepMarkBaseline, StepSpawnerDisabled, StepTrackerQuits, StepUserQuits, StepPaneFailed, Zenon
<1>4. CASE \E t \in Tabs : OpenTab(t) \/ CloseTab(t) \/ SelectTarget(t)
  BY <1>4, StepOpenTab, StepCloseTab, StepSelectTarget, Zenon
<1>5. CASE \E t \in Tabs, gone \in BOOLEAN : CleanUpFails(t, gone)
  BY <1>5, StepCleanUpFails, Zenon
<1>6. CASE \E t \in Tabs : WatcherAsks(t) \/ ChildEnds(t) \/ ChildQuits(t)
  BY <1>6, StepWatcherAsks, StepChildEnds, StepChildQuits, Zenon
<1>7. CASE \E t \in Tabs, left \in {"absent", "ended"} : EndSeen(t, left)
  BY <1>7, StepEndSeen, Zenon
<1>8. CASE \E r \in asked : DaemonCreates(r) \/ DaemonRefuses(r)
  BY <1>8, StepDaemonCreates, StepDaemonRefuses, Zenon
<1> QED BY <1>1, <1>2, <1>3, <1>4, <1>5, <1>6, <1>7, <1>8, Zenon DEF TabNext

\* The tracker of an open tab goes only when it is quit, and its record stays.
LEMMA TrackersStay ==
    ASSUME TabInv, [TabNext]_tabVars, NEW t \in Tabs, t \in child, tabs[t] = "open"
    PROVE  (t \in child' \/ ChildQuits(t)) /\ panes'[t] = panes[t]
<1>1. CASE UNCHANGED tabVars
  BY <1>1 DEF tabVars
<1>2. CASE Tick \/ PaneAnswered \/ ScanDone \/ \E u \in Tabs : AskForPane(u)
  BY <1>2 DEF Tick, PaneAnswered, ScanDone, AskForPane
<1>3. CASE \E u \in Tabs : CleanUp(u)
  <2>1. PICK u \in Tabs : CleanUp(u)
    BY <1>3
  <2>2. scan.busy /\ u \in StaleTabs /\ child' = child \ {u} /\ panes' = [panes EXCEPT ![u] = NoPane]
    BY <2>1 DEF CleanUp
  <2>3. tabs[u] = "closed"
    BY <2>2 DEF StaleTabs, TabInv, ScanCoversActive
  <2> QED BY <2>2, <2>3 DEF TabInv, TabTypeOK
<1>4. CASE MarkBaseline \/ SpawnerDisabled \/ TrackerQuits \/ UserQuits \/ PaneFailed
  BY <1>4 DEF MarkBaseline, SpawnerDisabled, TrackerQuits, UserQuits, PaneFailed
<1>5. CASE \E u \in Tabs : OpenTab(u) \/ CloseTab(u) \/ SelectTarget(u) \/ WatcherAsks(u)
  BY <1>5 DEF OpenTab, CloseTab, SelectTarget, WatcherAsks
<1>6. CASE \E u \in Tabs, gone \in BOOLEAN : CleanUpFails(u, gone)
  <2>1. PICK u \in Tabs, gone \in BOOLEAN : CleanUpFails(u, gone)
    BY <1>6
  <2>2. /\ scan.busy /\ u \in StaleTabs /\ child' = IF gone THEN child \ {u} ELSE child
        /\ \E x : panes' = [panes EXCEPT ![u] = x]
    BY <2>1 DEF CleanUpFails
  <2>3. tabs[u] = "closed"
    BY <2>2 DEF StaleTabs, TabInv, ScanCoversActive
  <2> QED BY <2>2, <2>3 DEF TabInv, TabTypeOK
<1>7. CASE \E u \in Tabs : ChildEnds(u)
  BY <1>7 DEF ChildEnds
<1>8. CASE \E u \in Tabs : ChildQuits(u)
  BY <1>8 DEF ChildQuits
<1>9. CASE \E u \in Tabs, left \in {"absent", "ended"} : EndSeen(u, left)
  BY <1>9 DEF EndSeen, TabInv, TabTypeOK
<1>10. CASE \E r \in asked : DaemonCreates(r)
  BY <1>10 DEF DaemonCreates, TabInv, ChildHasRecord, TabTypeOK
<1>11. CASE \E r \in asked : DaemonRefuses(r)
  BY <1>11 DEF DaemonRefuses
<1> QED BY <1>1, <1>2, <1>3, <1>4, <1>5, <1>6, <1>7, <1>8, <1>9, <1>10, <1>11, Zenon DEF TabNext, SpawnerStep

\* The panes of tabs (targetPaneSpawner, cleanupClosedTargets), for any number of tabs and of failing calls,
\* trackers that are quit at any time and a scan of any age: the spawner looks after no pane of the
\* watcher's unless its own was quit, the tracker's tab gets no second one, and nothing but being quit ends
\* the tracker of an open tab or changes its record.
THEOREM PanesKept == TabSpec => OpenTabsKeepPanes
<1>1. TabInit => TabInv
  BY TabStarts
<1>2. TabInv /\ [TabNext]_tabVars => TabInv'
  BY TabSteps
<1>3. TabInv => LooksAfterItsOwn
  BY DEF TabInv, TabTypeOK, LooksAfterItsOwn, ActiveIsMade, MadeIsThere, OwnIsNotAsked
<1>4. TabInv /\ [TabNext]_tabVars => [OpenTabUntouched]_tabVars
  BY TrackersStay, Zenon DEF OpenTabUntouched
<1> QED BY <1>1, <1>2, <1>3, <1>4, PTL DEF TabSpec, OpenTabsKeepPanes, OpenTabKeepsPane

-----------------------------------------------------------------------------
(* The runtime dashboard.                                                  *)

\* The dashboard by itself.
RuntimeSpec == RuntimeInit /\ [][RuntimeNext]_runtimeVars

\* The cursor and the window are where they can be.
PlacesOK == cursor \in Nat /\ cursor >= 1 /\ offset \in Nat

RuntimeInv == PlacesOK /\ CursorInView /\ PromptIsItsOwn

\* The tree as it is drawn is a sequence.
LEMMA RowsAre ==
    ASSUME NEW ps, NEW shut
    PROVE  \E n \in Nat : Len(flattenTree(ps, shut)) = n /\ DOMAIN flattenTree(ps, shut) = 1 .. n
<1> DEFINE Kept(n) == IF n \in Panes THEN n \in ps /\ GroupOf[n] \notin shut ELSE \E p \in ps : GroupOf[p] = n
           kept == {i \in DOMAIN NodeOrder : Kept(NodeOrder[i])}
           f == [n \in 1 .. Cardinality(kept) |-> NodeOrder[CHOOSE i \in kept : Cardinality({j \in kept : j <= i}) = n]]
<1>1. flattenTree(ps, shut) = f
  BY Zenon DEF flattenTree
<1>2. PICK m \in Nat : DOMAIN NodeOrder = 1 .. m
  BY RuntimeAssumption
<1>3. IsFiniteSet(1 .. m)
  <2>1. 1 \in Int /\ m \in Int
    BY <1>2
  <2> QED BY <2>1, FS_Interval, Zenon
<1>4. kept \subseteq 1 .. m
  BY <1>2
<1>5. Cardinality(kept) \in Nat
  BY <1>3, <1>4, FS_Subset, FS_CardinalityType, Zenon
<1> HIDE DEF kept
<1>6. DOMAIN f = 1 .. Cardinality(kept)
  BY Zenon
<1>7. Len(f) = Cardinality(kept)
  BY <1>5, <1>6
<1> QED BY <1>1, <1>5, <1>6, <1>7, Zenon

\* The window follows the cursor.
LEMMA WindowFollows ==
    ASSUME NEW off \in Nat, NEW n \in Nat, n > 0, NEW at \in 1 .. n, NEW o, o = ensureVisible(off, at, n)
    PROVE  o \in Nat /\ o < at /\ at <= o + Height /\ o <= viewportMax(n)
<1>1. Height \in Nat /\ Height > 0
  BY RuntimeAssumption
<1>2. PICK top : top = viewportMax(n)
  BY Zenon
<1>2a. top \in Nat /\ top = (IF n <= Height THEN 0 ELSE n - Height)
  BY <1>1, <1>2 DEF viewportMax
<1>3. PICK w \in Nat : w = Between(off, 0, top) /\ w <= top
  BY <1>2a DEF Between
<1>4. o = Between(IF at <= w THEN at - 1 ELSE IF at > w + Height THEN at - Height ELSE w, 0, top)
  <2>1. n # 0
    OBVIOUS
  <2> QED BY <1>2, <1>3, <2>1, Zenon DEF ensureVisible
<1>5. o \in Nat /\ o < at /\ at <= o + Height /\ o <= top
  <2>1. CASE at <= w
    BY <1>1, <1>2a, <1>3, <1>4, <2>1 DEF Between
  <2>2. CASE ~(at <= w) /\ at > w + Height
    BY <1>1, <1>2a, <1>3, <1>4, <2>2 DEF Between
  <2>3. CASE ~(at <= w) /\ ~(at > w + Height)
    BY <1>1, <1>2a, <1>3, <1>4, <2>3 DEF Between
  <2> QED BY <2>1, <2>2, <2>3
<1> QED BY <1>2, <1>5

LEMMA BetweenIs ==
    ASSUME NEW x \in Int, NEW n \in Nat, n > 0
    PROVE  Between(x, 1, n) \in 1 .. n
BY DEF Between

LEMMA WindowIsNat ==
    ASSUME NEW off \in Nat, NEW at
    PROVE  ensureVisible(off, at, 0) = 0
BY DEF ensureVisible

\* Where the cursor comes to lie after the tree was built again: on the row it was on, if that is still there.
LEMMA Rebuilt ==
    ASSUME PlacesOK, NEW ps, NEW shut, rebuildRows(ps, shut), rows' = flattenTree(ps, shut)
    PROVE  /\ PlacesOK' /\ CursorInView'
           /\ cursorKey' # cursorKey => cursorKey \notin {rows'[i] : i \in DOMAIN rows'}
<1> DEFINE new == flattenTree(ps, shut)
           hits == {i \in DOMAIN new : new[i] = cursorKey}
           at == IF hits # {} THEN CHOOSE i \in hits : TRUE ELSE Between(cursor, 1, Len(new))
<1>5. /\ cursor' = IF new = <<>> THEN 1 ELSE at
      /\ cursorKey' = IF new = <<>> THEN "" ELSE new[at]
      /\ offset' = ensureVisible(offset, at, Len(new))
  BY Zenon DEF rebuildRows
<1>1. new = flattenTree(ps, shut)
  OBVIOUS
<1>2. PICK n \in Nat : Len(new) = n /\ DOMAIN new = 1 .. n
  BY RowsAre, Zenon
<1> HIDE DEF new
<1>3. hits = {i \in DOMAIN new : new[i] = cursorKey}
  OBVIOUS
<1> HIDE DEF hits
<1>4. at = IF hits # {} THEN CHOOSE i \in hits : TRUE ELSE Between(cursor, 1, Len(new))
  OBVIOUS
<1> HIDE DEF at
<1>6. cursor \in Int /\ offset \in Nat
  BY DEF PlacesOK
<1>7. rows' = new
  BY <1>1, Zenon
<1>8. CASE n = 0
  <2>1. DOMAIN new = {}
    BY <1>2, <1>8
  <2>2. new = <<>>
    BY <1>1, <1>2, <1>8, <2>1 DEF flattenTree
  <2>3. cursor' = 1 /\ offset' = 0
    BY <1>2, <1>5, <1>6, <1>8, <2>2, WindowIsNat, Zenon
  <2>4. cursorKey \notin {new[i] : i \in DOMAIN new}
    BY <2>1
  <2> QED BY <1>7, <2>2, <2>3, <2>4 DEF PlacesOK, CursorInView
<1>9. CASE n # 0
  <2>1. n > 0 /\ new # <<>>
    BY <1>2, <1>9
  <2>2. at \in 1 .. n /\ (hits # {} => new[at] = cursorKey)
    <3>1. CASE hits # {}
      <4>1. at \in hits
        BY <1>4, <3>1, Zenon
      <4> QED BY <1>2, <1>3, <4>1
    <3>2. CASE hits = {}
      BY <1>2, <1>4, <1>6, <2>1, <3>2, BetweenIs
    <3> QED BY <3>1, <3>2
  <2>3. cursor' = at /\ cursorKey' = new[at] /\ offset' = ensureVisible(offset, at, n)
    BY <1>2, <1>5, <2>1, Zenon
  <2>4. offset' \in Nat /\ offset' < at /\ at <= offset' + Height /\ offset' <= viewportMax(n)
    BY <1>6, <2>1, <2>2, <2>3, WindowFollows
  <2>5. PlacesOK'
    BY <2>2, <2>3, <2>4 DEF PlacesOK
  <2>6. CursorInView'
    BY <1>2, <1>7, <2>2, <2>3, <2>4 DEF CursorInView
  <2>7. hits = {} => cursorKey \notin {new[i] : i \in DOMAIN new}
    BY <1>3, Zenon
  <2> QED BY <1>7, <2>2, <2>3, <2>5, <2>6, <2>7, Zenon
<1> QED BY <1>8, <1>9


\* What is not redrawn stays as it is.
LEMMA TreeKept ==
    ASSUME PlacesOK, CursorInView, UNCHANGED treeState
    PROVE  PlacesOK' /\ CursorInView' /\ cursorKey' = cursorKey
<1>1. /\ listed' = listed /\ closed' = closed /\ cursor' = cursor /\ cursorKey' = cursorKey /\ offset' = offset
  BY DEF treeState
<1>2. rows' = rows
  BY <1>1, Zenon DEF rows
<1>3. PlacesOK'
  BY <1>1 DEF PlacesOK
<1>4. CursorInView'
  BY <1>1, <1>2, Zenon DEF CursorInView
<1> QED BY <1>1, <1>3, <1>4

LEMMA PromptKept ==
    ASSUME PromptIsItsOwn, UNCHANGED promptState
    PROVE  PromptIsItsOwn'
BY DEF PromptIsItsOwn, promptState

\* What a step may do to the selection.
Selects == cursorKey' # cursorKey => rows' = rows \/ cursorKey \notin {rows'[i] : i \in DOMAIN rows'}

LEMMA StepRefreshes ==
    ASSUME RuntimeInv, NEW ps, HandleRefresh(ps)
    PROVE  RuntimeInv' /\ Selects
<1>1. PlacesOK /\ CursorInView /\ PromptIsItsOwn
  BY DEF RuntimeInv
<1>2. listed' = ps /\ rebuildRows(ps, closed') /\ UNCHANGED promptState
  BY Zenon DEF HandleRefresh
<1>3. rows' = flattenTree(ps, closed')
  BY <1>2, Zenon DEF rows
<1>4. PlacesOK' /\ CursorInView' /\ (cursorKey' # cursorKey => cursorKey \notin {rows'[i] : i \in DOMAIN rows'})
  BY <1>1, <1>2, <1>3, Rebuilt, Zenon
<1>5. PromptIsItsOwn'
  BY <1>1, <1>2, PromptKept, Zenon
<1> QED BY <1>4, <1>5, Zenon DEF RuntimeInv, Selects

LEMMA StepToggles ==
    ASSUME RuntimeInv, Toggle
    PROVE  RuntimeInv' /\ Selects
<1>1. PlacesOK /\ CursorInView /\ PromptIsItsOwn
  BY DEF RuntimeInv
<1>2. listed' = listed /\ rebuildRows(listed, closed') /\ UNCHANGED promptState
  BY Zenon DEF Toggle
<1>3. rows' = flattenTree(listed, closed')
  BY <1>2, Zenon DEF rows
<1>4. PlacesOK' /\ CursorInView' /\ (cursorKey' # cursorKey => cursorKey \notin {rows'[i] : i \in DOMAIN rows'})
  BY <1>1, <1>2, <1>3, Rebuilt, Zenon
<1>5. PromptIsItsOwn'
  BY <1>1, <1>2, PromptKept, Zenon
<1> QED BY <1>4, <1>5, Zenon DEF RuntimeInv, Selects

LEMMA StepMoves ==
    ASSUME RuntimeInv, NEW delta \in {-1, 1}, Move(delta)
    PROVE  RuntimeInv' /\ Selects
<1>1. PlacesOK /\ CursorInView /\ PromptIsItsOwn
  BY DEF RuntimeInv
<1>2. /\ rows # <<>> /\ cursor' = Between(cursor + delta, 1, Len(rows)) /\ cursorKey' = rows[cursor']
      /\ offset' = ensureVisible(offset, cursor', Len(rows))
      /\ listed' = listed /\ closed' = closed /\ UNCHANGED promptState
  BY Zenon DEF Move
<1>3. rows' = rows
  BY <1>2, Zenon DEF rows
<1>4. PICK n \in Nat : Len(rows) = n /\ DOMAIN rows = 1 .. n
  BY RowsAre, Zenon DEF rows
<1>5. n > 0
  <2>1. CASE n = 0
    <3>1. DOMAIN rows = {}
      BY <1>4, <2>1
    <3>2. rows = <<>>
      BY <1>4, <2>1, <3>1 DEF rows, flattenTree
    <3> QED BY <1>2, <3>2
  <2> QED BY <1>4, <2>1
<1>6. cursor + delta \in Int /\ offset \in Nat
  BY <1>1 DEF PlacesOK
<1>7. cursor' \in 1 .. n
  BY <1>2, <1>4, <1>5, <1>6, BetweenIs, Zenon
<1>8. offset' \in Nat /\ offset' < cursor' /\ cursor' <= offset' + Height /\ offset' <= viewportMax(n)
  BY <1>2, <1>4, <1>5, <1>6, <1>7, WindowFollows, Zenon
<1>9. PlacesOK'
  BY <1>7, <1>8 DEF PlacesOK
<1>10. CursorInView'
  BY <1>2, <1>3, <1>4, <1>7, <1>8, Zenon DEF CursorInView
<1>11. PromptIsItsOwn'
  BY <1>1, <1>2, PromptKept, Zenon
<1> QED BY <1>3, <1>9, <1>10, <1>11, Zenon DEF RuntimeInv, Selects

\* Requests, answers and prompts leave the tree alone.
LEMMA StepElse ==
    ASSUME RuntimeInv,
           \/ requestRefresh \/ RefreshFails \/ SnapshotKey \/ ClosePrompt \/ Confirm \/ Reconcile
           \/ \E ok \in BOOLEAN : HandleSnapshot(ok) \/ HandleAction(ok)
           \/ \E m \in {"input", "confirm-cleanup", "help"} : OpenPrompt(m)
           \/ UNCHANGED runtimeVars
    PROVE  RuntimeInv' /\ Selects
<1>1. PlacesOK /\ CursorInView /\ PromptIsItsOwn
  BY DEF RuntimeInv
<1>2. UNCHANGED treeState
  <2>1. CASE requestRefresh \/ RefreshFails \/ SnapshotKey \/ ClosePrompt \/ Confirm \/ Reconcile
    BY <2>1 DEF requestRefresh, RefreshFails, SnapshotKey, ClosePrompt, Confirm, Reconcile
  <2>2. CASE \E ok \in BOOLEAN : HandleSnapshot(ok) \/ HandleAction(ok)
    BY <2>2 DEF HandleSnapshot, HandleAction
  <2>3. CASE \E m \in {"input", "confirm-cleanup", "help"} : OpenPrompt(m)
    BY <2>3 DEF OpenPrompt
  <2>4. CASE UNCHANGED runtimeVars
    BY <2>4 DEF runtimeVars, treeState
  <2> QED BY <2>1, <2>2, <2>3, <2>4
<1>3. PromptIsItsOwn'
  <2>1. CASE requestRefresh \/ RefreshFails \/ SnapshotKey
    BY <1>1, <2>1, PromptKept DEF requestRefresh, RefreshFails, SnapshotKey
  <2>2. CASE ClosePrompt
    BY <2>2 DEF ClosePrompt, PromptIsItsOwn
  <2>3. CASE Confirm
    BY <2>3 DEF Confirm, PromptIsItsOwn
  <2>4. CASE Reconcile
    BY <2>4 DEF Reconcile, PromptIsItsOwn
  <2>5. CASE \E ok \in BOOLEAN : HandleSnapshot(ok)
    BY <1>1, <2>5, PromptKept DEF HandleSnapshot
  <2>6. CASE \E ok \in BOOLEAN : HandleAction(ok)
    BY <2>6 DEF HandleAction, PromptIsItsOwn
  <2>7. CASE \E m \in {"input", "confirm-cleanup", "help"} : OpenPrompt(m)
    <3>1. action' = NoAction
      BY <2>7 DEF OpenPrompt
    <3> QED BY <3>1 DEF PromptIsItsOwn
  <2>8. CASE UNCHANGED runtimeVars
    BY <1>1, <2>8, PromptKept DEF runtimeVars, promptState
  <2> QED BY <2>1, <2>2, <2>3, <2>4, <2>5, <2>6, <2>7, <2>8
<1>4. PlacesOK' /\ CursorInView' /\ cursorKey' = cursorKey
  BY <1>1, <1>2, TreeKept, Zenon
<1> QED BY <1>3, <1>4, Zenon DEF RuntimeInv, Selects

LEMMA RuntimeSteps ==
    ASSUME RuntimeInv, [RuntimeNext]_runtimeVars
    PROVE  RuntimeInv' /\ Selects
<1>1. CASE \E ps \in SUBSET Panes : HandleRefresh(ps)
  BY <1>1, StepRefreshes, Zenon
<1>2. CASE Toggle
  BY <1>2, StepToggles, Zenon
<1>3. CASE \E delta \in {-1, 1} : Move(delta)
  BY <1>3, StepMoves, Zenon
<1>4. CASE \/ requestRefresh \/ RefreshFails \/ SnapshotKey \/ ClosePrompt \/ Confirm \/ Reconcile
           \/ \E ok \in BOOLEAN : HandleSnapshot(ok) \/ HandleAction(ok)
           \/ \E m \in {"input", "confirm-cleanup", "help"} : OpenPrompt(m)
           \/ UNCHANGED runtimeVars
  BY <1>4, StepElse, Zenon
<1> QED BY <1>1, <1>2, <1>3, <1>4, Zenon DEF RuntimeNext

LEMMA RuntimeStarts ==
    ASSUME RuntimeInit
    PROVE  RuntimeInv
<1>1. cursor = 1 /\ cursorKey = "" /\ offset = 0 /\ action = NoAction
  BY Zenon DEF RuntimeInit
<1>2. PlacesOK
  <2>1. cursor = 1 /\ offset = 0
    BY <1>1
  <2> QED BY <2>1 DEF PlacesOK
<1>3. CursorInView /\ PromptIsItsOwn
  BY <1>1, Zenon DEF CursorInView, PromptIsItsOwn
<1> QED BY <1>2, <1>3, Zenon DEF RuntimeInv

\* The dashboard's selection (restoreSelection, ensureVisible, updateActionOrNormalKey), for any tree and
\* any window: what commands act on is the row under the cursor, in view; a row that is still there
\* after a refresh or a fold stays selected; and an answer closes only the prompt it came from.
THEOREM SelectionKept == RuntimeSpec => SelectionIsKept
<1>1. RuntimeInit => RuntimeInv
  BY RuntimeStarts
<1>2. RuntimeInv /\ [RuntimeNext]_runtimeVars => RuntimeInv'
  BY RuntimeSteps
<1>3. RuntimeInv /\ [RuntimeNext]_runtimeVars =>
         [cursorKey' # cursorKey => rows' = rows \/ cursorKey \notin {rows'[i] : i \in DOMAIN rows'}]_runtimeVars
  BY RuntimeSteps, Zenon DEF Selects
<1>4. RuntimeInv => CursorInView /\ PromptIsItsOwn
  BY DEF RuntimeInv
<1> QED BY <1>1, <1>2, <1>3, <1>4, PTL DEF RuntimeSpec, SelectionIsKept, SelectionStays

-----------------------------------------------------------------------------
(* Spoken notifications.                                                   *)

\* The voice service with its clients and the idle loop, by themselves.
VoiceSpec == VoiceInit /\ [][VoiceNext]_vars

AgentRecord == [state: AgentStates \union {"gone"}, changes: 0 .. MaxChanges, notify: BOOLEAN]
VoiceRecord == [queue: Seq(Requests), active: SUBSET Requests, recent: Seq(Requests), closed: BOOLEAN,
                speaking: Requests \union {Nothing}]
StateEvent == [agent: VoiceAgents, previous: AgentStates, state: AgentStates]
StateItem == [n: Nat, event: StateEvent]
StateChan == [state: {"none", "open", "closed"}, buf: Seq(StateItem), lost: BOOLEAN]

\* The bus; what its history holds does not matter here.
LoopBus(b) ==
    /\ \E k, h, f : b = [count |-> k, history |-> h, chan |-> f]
    /\ b.count \in Nat /\ b.chan \in [Subscribers -> StateChan]

\* What the idle loop has still to handle.
Unheard(b) == b.chan[Loop].buf

\* The variables keep their types.
VoiceTypeOK ==
    /\ LoopBus(bus)
    /\ agent \in [VoiceAgents -> AgentRecord]
    /\ voice \in VoiceRecord
    /\ announced \in [VoiceAgents -> Nat] /\ finished \in [VoiceAgents -> Nat]
    /\ spoken \in [Requests -> Nat] /\ forgotten \in [Requests -> Nat]

\* What is active is queued, once, or being spoken; there are no more active requests
\* than that, so that a service with room in its queue has a request to evict.
QueueOK(v) ==
    /\ \A i \in 1 .. Len(v.queue) : v.queue[i] \in v.active /\ v.queue[i] # v.speaking
    /\ \A i, j \in 1 .. Len(v.queue) : v.queue[i] = v.queue[j] => i = j
    /\ v.speaking # Nothing => v.speaking \in v.active
    /\ \A i \in 1 .. Len(v.recent) : v.recent[i] \notin v.active
    /\ IsFiniteSet(v.active)
    /\ Cardinality(v.active) <= Len(v.queue) + (IF v.speaking = Nothing THEN 0 ELSE 1)

\* A request was spoken once more than it was forgotten only if it is remembered.
IsRemembered(v, r) == r = v.speaking \/ \E i \in 1 .. Len(v.recent) : v.recent[i] = r
MemoryOK(v, sp, fg) == \A r \in Requests : sp[r] <= fg[r] + (IF IsRemembered(v, r) THEN 1 ELSE 0)

\* The event says that a has finished something.
Finishes(event, a) == event.agent = a /\ ComesToRest(event.previous, event.state)

\* Every event that is still to be handled can be given a number of its own among the
\* times its agent finished and was not announced yet, in the order of the events.
NumberedBy(f, buf, a, lo, hi) ==
    /\ \A i \in 1 .. Len(buf) : Finishes(buf[i].event, a) => lo < f[i] /\ f[i] <= hi
    /\ \A i, j \in 1 .. Len(buf) :
          i < j /\ Finishes(buf[i].event, a) /\ Finishes(buf[j].event, a) => f[i] < f[j]
Numbered(buf, a, lo, hi) ==
    lo <= hi /\ \E f \in [1 .. Len(buf) -> 0 .. hi] : NumberedBy(f, buf, a, lo, hi)

AnnouncementsOK == \A a \in VoiceAgents : Numbered(Unheard(bus), a, announced[a], finished[a])

\* The service keeps its accounts until it is closed.
ServesOK == ~voice.closed => QueueOK(voice) /\ MemoryOK(voice, spoken, forgotten)

VoiceInv == VoiceTypeOK /\ ServesOK /\ SpokenOnce /\ AnnouncementsOK


LEMMA NothingIsNone == Nothing \notin Requests
BY VoiceAssumption DEF Nothing, Requests

LEMMA VoiceFields ==
    ASSUME NEW v \in VoiceRecord
    PROVE  /\ v.queue \in Seq(Requests) /\ v.active \in SUBSET Requests /\ v.recent \in Seq(Requests)
           /\ v.closed \in BOOLEAN /\ v.speaking \in Requests \union {Nothing}
BY DEF VoiceRecord

LEMMA TailIs ==
    ASSUME NEW S, NEW s \in Seq(S), s # <<>>
    PROVE  /\ Tail(s) \in Seq(S) /\ Head(s) \in S /\ Head(s) = s[1]
           /\ Len(s) \in Nat /\ Len(s) >= 1 /\ Len(Tail(s)) = Len(s) - 1
           /\ \A i \in 1 .. Len(Tail(s)) : Tail(s)[i] = s[i + 1]
<1>1. Len(s) \in Nat /\ Len(s) # 0
  BY EmptySeq
<1>2. Len(s) >= 1
  BY <1>1
<1>3. /\ Tail(s) \in Seq(S) /\ Head(s) \in S /\ Len(Tail(s)) = Len(s) - 1
  BY HeadTailProperties
<1>4. Head(s) = s[1]
  OBVIOUS
<1>5. \A i \in 1 .. Len(Tail(s)) : Tail(s)[i] = s[i + 1]
  BY <1>1, <1>2
<1> QED BY <1>1, <1>2, <1>3, <1>4, <1>5

LEMMA AppendIs ==
    ASSUME NEW S, NEW s \in Seq(S), NEW e \in S
    PROVE  /\ Append(s, e) \in Seq(S) /\ Len(s) \in Nat /\ Len(Append(s, e)) = Len(s) + 1
           /\ \A i \in 1 .. Len(s) : Append(s, e)[i] = s[i]
           /\ Append(s, e)[Len(s) + 1] = e
OBVIOUS

-----------------------------------------------------------------------------
(* What the service remembers.                                             *)

\* The oldest request is forgotten.
LEMMA EvictedMemory ==
    ASSUME NEW v \in VoiceRecord, NEW w \in VoiceRecord, v.recent # <<>>, w.recent = Tail(v.recent),
           w.speaking = v.speaking, NEW sp \in [Requests -> Nat], NEW fg \in [Requests -> Nat],
           MemoryOK(v, sp, fg)
    PROVE  /\ [fg EXCEPT ![Head(v.recent)] = @ + 1] \in [Requests -> Nat]
           /\ MemoryOK(w, sp, [fg EXCEPT ![Head(v.recent)] = @ + 1])
           /\ \A r \in Requests : fg[r] <= [fg EXCEPT ![Head(v.recent)] = @ + 1][r]
<1>1. PICK R : R = v.recent
  BY Zenon
<1>2. R \in Seq(Requests) /\ R # <<>>
  BY <1>1, VoiceFields
<1>3. PICK h \in Requests : h = Head(R) /\ h = R[1]
  BY <1>2, TailIs
<1>4. PICK g : g = [fg EXCEPT ![h] = @ + 1]
  BY Zenon
<1>5. g \in [Requests -> Nat] /\ g[h] = fg[h] + 1 /\ \A r \in Requests : r # h => g[r] = fg[r]
  BY <1>3, <1>4
<1>6. ASSUME NEW r \in Requests PROVE sp[r] <= g[r] + (IF IsRemembered(w, r) THEN 1 ELSE 0)
  <2>1. sp[r] <= fg[r] + (IF IsRemembered(v, r) THEN 1 ELSE 0)
    BY <1>6, Zenon DEF MemoryOK
  <2>2. sp[r] \in Nat /\ fg[r] \in Nat
    BY <1>6
  <2>3. CASE r = h
    BY <1>5, <2>1, <2>2, <2>3
  <2>4. CASE r # h
    <3>1. IsRemembered(v, r) => IsRemembered(w, r)
      <4>1. ASSUME NEW i \in 1 .. Len(R), R[i] = r PROVE \E j \in 1 .. Len(Tail(R)) : Tail(R)[j] = r
        <5>1. Len(R) \in Nat /\ Len(Tail(R)) = Len(R) - 1 /\ \A j \in 1 .. Len(Tail(R)) : Tail(R)[j] = R[j + 1]
          BY <1>2, TailIs
        <5>2. i # 1
          BY <1>3, <2>4, <4>1
        <5>3. i - 1 \in 1 .. Len(Tail(R)) /\ (i - 1) + 1 = i
          BY <4>1, <5>1, <5>2
        <5> QED BY <4>1, <5>1, <5>3
      <4>2. w.recent = Tail(R)
        BY <1>1
      <4> QED BY <1>1, <4>1, <4>2, Zenon DEF IsRemembered
    <3>2. g[r] = fg[r]
      BY <1>5, <1>6, <2>4
    <3> QED BY <2>1, <2>2, <3>1, <3>2
  <2> QED BY <2>3, <2>4
<1>7. \A r \in Requests : fg[r] <= g[r]
  BY <1>5
<1>8. g = [fg EXCEPT ![Head(v.recent)] = @ + 1]
  BY <1>1, <1>3, <1>4, Zenon
<1>9. MemoryOK(w, sp, g)
  BY <1>6, Zenon DEF MemoryOK
<1> QED BY <1>5, <1>7, <1>8, <1>9, Zenon

\* A request is queued.
LEMMA QueuedOK ==
    ASSUME NEW v \in VoiceRecord, NEW w \in VoiceRecord, QueueOK(v), NEW r \in Requests,
           r \notin v.active, \A i \in 1 .. Len(v.recent) : v.recent[i] # r,
           w.queue = Append(v.queue, r), w.active = v.active \union {r}, w.speaking = v.speaking,
           \A i \in 1 .. Len(w.recent) : \E j \in 1 .. Len(v.recent) : w.recent[i] = v.recent[j]
    PROVE  QueueOK(w)
<1>1. PICK q, p : q = v.queue /\ p = w.queue
  BY Zenon
<1>2. q \in Seq(Requests) /\ p = Append(q, r)
  BY <1>1, VoiceFields
<1>3. /\ Len(q) \in Nat /\ Len(p) = Len(q) + 1
      /\ \A i \in 1 .. Len(q) : p[i] = q[i]
      /\ p[Len(q) + 1] = r
  BY <1>2, AppendIs
<1>4. r # v.speaking
  BY NothingIsNone DEF QueueOK
<1>5. \A i \in 1 .. Len(q) : q[i] \in v.active /\ q[i] # v.speaking
  BY <1>1, Zenon DEF QueueOK
<1>6. \A i \in 1 .. Len(p) : i \in 1 .. Len(q) \/ i = Len(q) + 1
  BY <1>3
<1>7. \A i \in 1 .. Len(p) : p[i] \in w.active /\ p[i] # w.speaking
  BY <1>3, <1>4, <1>5, <1>6
<1>8. \A i, j \in 1 .. Len(q) : q[i] = q[j] => i = j
  BY <1>1, Zenon DEF QueueOK
<1>9. \A i, j \in 1 .. Len(p) : p[i] = p[j] => i = j
  BY <1>3, <1>5, <1>6, <1>8
<1>10. w.speaking # Nothing => w.speaking \in w.active
  BY DEF QueueOK
<1>11. \A i \in 1 .. Len(w.recent) : w.recent[i] \notin w.active
  BY DEF QueueOK
<1>12. /\ IsFiniteSet(v.active)
       /\ Cardinality(v.active) <= Len(q) + (IF v.speaking = Nothing THEN 0 ELSE 1)
  BY <1>1, Zenon DEF QueueOK
<1>13. IsFiniteSet(w.active) /\ Cardinality(w.active) = Cardinality(v.active) + 1
  BY <1>12, FS_AddElement
<1>14. Cardinality(v.active) \in Nat
  BY <1>12, FS_CardinalityType
<1>15. Cardinality(w.active) <= Len(p) + (IF w.speaking = Nothing THEN 0 ELSE 1)
  BY <1>3, <1>12, <1>13, <1>14
<1> QED BY <1>1, <1>7, <1>9, <1>10, <1>11, <1>13, <1>15, Zenon DEF QueueOK

\* The first of the queue is spoken.
LEMMA SpokenOK ==
    ASSUME NEW v \in VoiceRecord, NEW w \in VoiceRecord, QueueOK(v), v.queue # <<>>, v.speaking = Nothing,
           w.queue = Tail(v.queue), w.active = v.active, w.recent = v.recent, w.speaking = Head(v.queue)
    PROVE  QueueOK(w)
<1>1. PICK q, p : q = v.queue /\ p = w.queue
  BY Zenon
<1>2. q \in Seq(Requests) /\ q # <<>> /\ p = Tail(q)
  BY <1>1, VoiceFields
<1>3. /\ Head(q) \in Requests /\ Head(q) = q[1] /\ Len(q) \in Nat /\ Len(q) >= 1
      /\ Len(p) = Len(q) - 1 /\ \A i \in 1 .. Len(p) : p[i] = q[i + 1]
  BY <1>2, TailIs
<1>4. w.speaking = q[1] /\ w.speaking # Nothing
  BY <1>1, <1>3, NothingIsNone
<1>5. \A i \in 1 .. Len(q) : q[i] \in v.active
  BY <1>1, Zenon DEF QueueOK
<1>6. \A i, j \in 1 .. Len(q) : q[i] = q[j] => i = j
  BY <1>1, Zenon DEF QueueOK
<1>7. \A i \in 1 .. Len(p) : i + 1 \in 1 .. Len(q) /\ i + 1 # 1
  BY <1>3
<1>8. 1 \in 1 .. Len(q)
  BY <1>3
<1>9. \A i \in 1 .. Len(p) : p[i] \in w.active /\ p[i] # w.speaking
  BY <1>3, <1>4, <1>5, <1>6, <1>7, <1>8
<1>10. \A i, j \in 1 .. Len(p) : p[i] = p[j] => i = j
  <2>1. ASSUME NEW i \in 1 .. Len(p), NEW j \in 1 .. Len(p), p[i] = p[j] PROVE i = j
    <3>1. i + 1 = j + 1
      BY <1>3, <1>6, <1>7, <2>1
    <3> QED BY <2>1, <3>1
  <2> QED BY <2>1
<1>11. w.speaking \in w.active
  BY <1>4, <1>5, <1>8
<1>12. \A i \in 1 .. Len(w.recent) : w.recent[i] \notin w.active
  BY DEF QueueOK
<1>13. IsFiniteSet(v.active) /\ Cardinality(v.active) <= Len(q)
  <2>1. Cardinality(v.active) <= Len(q) + 0
    BY <1>1, Zenon DEF QueueOK
  <2>2. IsFiniteSet(v.active)
    BY Zenon DEF QueueOK
  <2> QED BY <1>3, <2>1, <2>2
<1>14. Cardinality(w.active) <= Len(p) + 1
  BY <1>3, <1>13
<1>15. IsFiniteSet(w.active)
  BY <1>13
<1> QED BY <1>1, <1>4, <1>9, <1>10, <1>11, <1>12, <1>14, <1>15, Zenon DEF QueueOK

\* The speech is over.
LEMMA FinishedOK ==
    ASSUME NEW v \in VoiceRecord, NEW w \in VoiceRecord, QueueOK(v), v.speaking # Nothing,
           w.queue = v.queue, w.active = v.active \ {v.speaking}, w.speaking = Nothing,
           \A i \in 1 .. Len(w.recent) :
              w.recent[i] = v.speaking \/ \E j \in 1 .. Len(v.recent) : w.recent[i] = v.recent[j]
    PROVE  QueueOK(w)
<1>1. \A i \in 1 .. Len(w.queue) : w.queue[i] \in w.active /\ w.queue[i] # w.speaking
  <2>1. v.queue \in Seq(Requests)
    BY VoiceFields
  <2>2. \A i \in 1 .. Len(v.queue) : v.queue[i] # Nothing
    BY <2>1, NothingIsNone
  <2> QED BY <2>2 DEF QueueOK
<1>2. \A i, j \in 1 .. Len(w.queue) : w.queue[i] = w.queue[j] => i = j
  BY DEF QueueOK
<1>3. \A i \in 1 .. Len(w.recent) : w.recent[i] \notin w.active
  BY DEF QueueOK
<1>4. v.speaking \in v.active /\ IsFiniteSet(v.active)
  BY Zenon DEF QueueOK
<1>5. Cardinality(v.active) <= Len(v.queue) + 1
  BY Zenon DEF QueueOK
<1>6. IsFiniteSet(w.active) /\ Cardinality(w.active) = Cardinality(v.active) - 1
  BY <1>4, FS_RemoveElement
<1>7. Cardinality(v.active) \in Nat /\ Len(v.queue) \in Nat
  BY <1>4, FS_CardinalityType, VoiceFields
<1>8. Cardinality(w.active) <= Len(w.queue) + 0
  BY <1>5, <1>6, <1>7
<1> QED BY <1>1, <1>2, <1>3, <1>6, <1>8, Zenon DEF QueueOK

-----------------------------------------------------------------------------
(* The service's steps.                                                    *)

\* A request is refused, or queued, with the oldest one forgotten where there is no room.
LEMMA EnqueueDoes ==
    ASSUME VoiceTypeOK, ServesOK, NEW r \in Requests, Enqueue(r)
    PROVE  \/ voice' = voice /\ forgotten' = forgotten
           \/ /\ ~voice.closed /\ Accepts(r) /\ voice' \in VoiceRecord
              /\ voice'.queue = Append(voice.queue, r) /\ voice'.active = voice.active \union {r}
              /\ voice'.speaking = voice.speaking /\ voice'.closed = FALSE
              /\ \/ voice'.recent = voice.recent /\ forgotten' = forgotten
                 \/ /\ voice.recent # <<>> /\ voice'.recent = Tail(voice.recent)
                    /\ forgotten' = [forgotten EXCEPT ![Head(voice.recent)] = @ + 1]
<1>0. voice \in VoiceRecord
  BY Zenon DEF VoiceTypeOK
<1>1. CASE voice.closed \/ Duplicate(r) \/ Full
  BY <1>1 DEF Enqueue
<1>2. CASE ~(voice.closed \/ Duplicate(r) \/ Full)
  <2>1. /\ voice' = [Evict(voice, RecentLimit - 1) EXCEPT !.queue = Append(@, r), !.active = @ \union {r}]
        /\ forgotten' = IF Evicts(voice, RecentLimit - 1) THEN [forgotten EXCEPT ![Head(voice.recent)] = @ + 1] ELSE forgotten
    BY <1>2, Zenon DEF Enqueue
  <2>2. Accepts(r) /\ ~voice.closed
    BY <1>2, Zenon DEF Accepts
  <2>3. PICK q, A, R, s :
           voice = [queue |-> q, active |-> A, recent |-> R, closed |-> FALSE, speaking |-> s]
    BY <1>0, <2>2 DEF VoiceRecord
  <2>4. /\ q \in Seq(Requests) /\ A \in SUBSET Requests /\ R \in Seq(Requests) /\ s \in Requests \union {Nothing}
        /\ q = voice.queue /\ A = voice.active /\ R = voice.recent /\ s = voice.speaking
    BY <1>0, <2>3, VoiceFields
  <2>5. PICK p : p = Append(q, r)
    BY Zenon
  <2>6. p \in Seq(Requests)
    BY <2>4, <2>5, AppendIs
  <2>7. CASE ~Evicts(voice, RecentLimit - 1)
    <3>1. voice' = [voice EXCEPT !.queue = Append(@, r), !.active = @ \union {r}]
      BY <2>1, <2>7, Zenon DEF Evict
    <3>2. voice' = [queue |-> p, active |-> A \union {r}, recent |-> R, closed |-> FALSE, speaking |-> s]
      BY <2>3, <2>5, <3>1
    <3>3. voice' \in VoiceRecord
      BY <2>4, <2>6, <3>2 DEF VoiceRecord
    <3>4. /\ voice'.queue = p /\ voice'.active = A \union {r} /\ voice'.speaking = s /\ voice'.closed = FALSE
          /\ voice'.recent = R
      BY <3>2
    <3>5. forgotten' = forgotten
      BY <2>1, <2>7, Zenon
    <3> QED BY <2>2, <2>4, <2>5, <3>3, <3>4, <3>5, Zenon
  <2>8. CASE Evicts(voice, RecentLimit - 1)
    <3>1. voice' = [EvictOldest(voice) EXCEPT !.queue = Append(@, r), !.active = @ \union {r}]
      BY <2>1, <2>8, Zenon DEF Evict
    <3>2. PICK t : t = Tail(R)
      BY Zenon
    <3>3. R # <<>>
      <4>1. Cardinality(A) + Len(R) > RecentLimit - 1
        BY <2>4, <2>8, Zenon DEF Evicts, Remembered
      <4>2. ~(Len(q) >= Capacity)
        BY <1>2, <2>4 DEF Full
      <4>3. /\ Cardinality(A) <= Len(q) + (IF s = Nothing THEN 0 ELSE 1) /\ IsFiniteSet(A)
        BY <2>2, <2>4, Zenon DEF ServesOK, QueueOK
      <4>4. Cardinality(A) \in Nat /\ Len(q) \in Nat /\ Len(R) \in Nat
        BY <2>4, <4>3, FS_CardinalityType
      <4>5. Cardinality(A) <= Len(q) + 1
        BY <4>3, <4>4
      <4>6. Len(R) > 0
        BY <4>1, <4>2, <4>4, <4>5, VoiceAssumption
      <4> QED BY <4>6, EmptySeq
    <3>4. t \in Seq(Requests)
      BY <2>4, <3>2, <3>3, TailIs
    <3>5. voice' = [queue |-> p, active |-> A \union {r}, recent |-> t, closed |-> FALSE, speaking |-> s]
      BY <2>3, <2>5, <3>1, <3>2 DEF EvictOldest
    <3>6. voice' \in VoiceRecord
      BY <2>4, <2>6, <3>4, <3>5 DEF VoiceRecord
    <3>7. /\ voice'.queue = p /\ voice'.active = A \union {r} /\ voice'.speaking = s /\ voice'.closed = FALSE
          /\ voice'.recent = t
      BY <3>5
    <3>8. forgotten' = [forgotten EXCEPT ![Head(voice.recent)] = @ + 1]
      BY <2>1, <2>8, Zenon
    <3> QED BY <2>2, <2>4, <2>5, <3>2, <3>3, <3>6, <3>7, <3>8, Zenon
  <2> QED BY <2>7, <2>8
<1> QED BY <1>1, <1>2

\* What Enqueue leaves of the invariant.
LEMMA EnqueueKeeps ==
    ASSUME VoiceTypeOK, ServesOK, SpokenOnce, NEW r \in Requests, Enqueue(r), spoken' = spoken
    PROVE  voice' \in VoiceRecord /\ forgotten' \in [Requests -> Nat] /\ ServesOK' /\ SpokenOnce'
<1>0. /\ voice \in VoiceRecord /\ spoken \in [Requests -> Nat] /\ forgotten \in [Requests -> Nat]
  BY Zenon DEF VoiceTypeOK
<1>1. CASE voice' = voice /\ forgotten' = forgotten
  <2>1. voice' \in VoiceRecord /\ forgotten' \in [Requests -> Nat]
    BY <1>0, <1>1
  <2>2. ServesOK'
    BY <1>1, Zenon DEF ServesOK
  <2>3. SpokenOnce'
    BY <1>1, Zenon DEF SpokenOnce
  <2> QED BY <2>1, <2>2, <2>3
<1>2. CASE /\ ~voice.closed /\ Accepts(r) /\ voice' \in VoiceRecord
           /\ voice'.queue = Append(voice.queue, r) /\ voice'.active = voice.active \union {r}
           /\ voice'.speaking = voice.speaking /\ voice'.closed = FALSE
           /\ \/ voice'.recent = voice.recent /\ forgotten' = forgotten
              \/ /\ voice.recent # <<>> /\ voice'.recent = Tail(voice.recent)
                 /\ forgotten' = [forgotten EXCEPT ![Head(voice.recent)] = @ + 1]
  <2>1. QueueOK(voice) /\ MemoryOK(voice, spoken, forgotten)
    BY <1>2, Zenon DEF ServesOK
  <2>2. r \notin voice.active /\ \A i \in 1 .. Len(voice.recent) : voice.recent[i] # r
    <3>1. ~Duplicate(r)
      BY <1>2, Zenon DEF Accepts
    <3>2. voice.recent \in Seq(Requests)
      BY <1>0, VoiceFields
    <3>3. DOMAIN voice.recent = 1 .. Len(voice.recent)
      BY <3>2
    <3> QED BY <3>1, <3>3, Zenon DEF Duplicate, ToSet
  <2>3. \A i \in 1 .. Len(voice'.recent) : \E j \in 1 .. Len(voice.recent) : voice'.recent[i] = voice.recent[j]
    <3>1. CASE voice'.recent = voice.recent
      BY <3>1, Zenon
    <3>2. CASE voice.recent # <<>> /\ voice'.recent = Tail(voice.recent)
      <4>1. PICK R, t : R = voice.recent /\ t = voice'.recent
        BY Zenon
      <4>2. R \in Seq(Requests)
        BY <1>0, <4>1, VoiceFields
      <4>3. Len(R) \in Nat /\ Len(t) = Len(R) - 1 /\ \A i \in 1 .. Len(t) : t[i] = R[i + 1]
        BY <3>2, <4>1, <4>2, TailIs
      <4>4. \A i \in 1 .. Len(t) : i + 1 \in 1 .. Len(R) /\ t[i] = R[i + 1]
        BY <4>3
      <4> QED BY <4>1, <4>4, Zenon
    <3> QED BY <1>2, <3>1, <3>2
  <2>4. QueueOK(voice')
    <3>1. PICK v, w : v = voice /\ w = voice'
      BY Zenon
    <3>2. /\ v \in VoiceRecord /\ w \in VoiceRecord /\ QueueOK(v)
          /\ r \notin v.active /\ \A i \in 1 .. Len(v.recent) : v.recent[i] # r
          /\ w.queue = Append(v.queue, r) /\ w.active = v.active \union {r} /\ w.speaking = v.speaking
          /\ \A i \in 1 .. Len(w.recent) : \E j \in 1 .. Len(v.recent) : w.recent[i] = v.recent[j]
      BY <1>0, <1>2, <2>1, <2>2, <2>3, <3>1, Zenon
    <3>3. QueueOK(w)
      BY <3>2, QueuedOK, Zenon
    <3> QED BY <3>1, <3>3, Zenon
  <2>5. CASE voice'.recent = voice.recent /\ forgotten' = forgotten
    <3>1. \A x \in Requests : IsRemembered(voice, x) <=> IsRemembered(voice', x)
      BY <1>2, <2>5, Zenon DEF IsRemembered
    <3>2. MemoryOK(voice', spoken, forgotten)
      BY <2>1, <3>1, Zenon DEF MemoryOK
    <3>3. ServesOK'
      BY <2>4, <2>5, <3>2, Zenon DEF ServesOK
    <3>4. SpokenOnce'
      BY <2>5, Zenon DEF SpokenOnce
    <3>5. forgotten' \in [Requests -> Nat]
      BY <1>0, <2>5
    <3> QED BY <1>2, <3>3, <3>4, <3>5
  <2>6. CASE /\ voice.recent # <<>> /\ voice'.recent = Tail(voice.recent)
             /\ forgotten' = [forgotten EXCEPT ![Head(voice.recent)] = @ + 1]
    <3>1. PICK v, w, g : v = voice /\ w = voice' /\ g = forgotten'
      BY Zenon
    <3>2. /\ v \in VoiceRecord /\ w \in VoiceRecord /\ v.recent # <<>> /\ w.recent = Tail(v.recent)
          /\ w.speaking = v.speaking /\ MemoryOK(v, spoken, forgotten)
          /\ g = [forgotten EXCEPT ![Head(v.recent)] = @ + 1]
      BY <1>0, <1>2, <2>1, <2>6, <3>1, Zenon
    <3>3. g \in [Requests -> Nat] /\ MemoryOK(w, spoken, g) /\ \A x \in Requests : forgotten[x] <= g[x]
      BY <1>0, <3>2, EvictedMemory, Zenon
    <3>4. ServesOK'
      BY <2>4, <3>1, <3>3, Zenon DEF ServesOK
    <3>5. \A x \in Requests : spoken[x] <= 1 + g[x]
      <4>1. ASSUME NEW x \in Requests PROVE spoken[x] <= 1 + g[x]
        <5>1. spoken[x] <= 1 + forgotten[x] /\ forgotten[x] <= g[x]
          BY <3>3, <4>1, Zenon DEF SpokenOnce
        <5>2. spoken[x] \in Nat /\ forgotten[x] \in Nat /\ g[x] \in Nat
          BY <1>0, <3>3, <4>1
        <5> QED BY <5>1, <5>2
      <4> QED BY <4>1
    <3>6. SpokenOnce'
      BY <3>1, <3>5, Zenon DEF SpokenOnce
    <3> QED BY <1>2, <3>1, <3>3, <3>4, <3>6, Zenon
  <2> QED BY <1>2, <2>5, <2>6
<1> QED BY <1>1, <1>2, EnqueueDoes, Zenon

LEMMA SpeakKeeps ==
    ASSUME VoiceTypeOK, ServesOK, SpokenOnce, SpeakNext
    PROVE  voice' \in VoiceRecord /\ spoken' \in [Requests -> Nat] /\ ServesOK' /\ SpokenOnce'
<1>0. /\ voice \in VoiceRecord /\ spoken \in [Requests -> Nat] /\ forgotten \in [Requests -> Nat]
  BY Zenon DEF VoiceTypeOK
<1>1. /\ ~voice.closed /\ voice.queue # <<>> /\ voice.speaking = Nothing /\ forgotten' = forgotten
      /\ voice' = [voice EXCEPT !.queue = Tail(@), !.speaking = Head(voice.queue)]
      /\ spoken' = [spoken EXCEPT ![Head(voice.queue)] = @ + 1]
  BY Zenon DEF SpeakNext
<1>2. QueueOK(voice) /\ MemoryOK(voice, spoken, forgotten)
  BY <1>1, Zenon DEF ServesOK
<1>3. voice.queue \in Seq(Requests) /\ voice.queue # <<>>
  BY <1>0, <1>1, VoiceFields
<1>4. PICK h \in Requests, t \in Seq(Requests) : h = Head(voice.queue) /\ h = voice.queue[1] /\ t = Tail(voice.queue)
  BY <1>3, TailIs
<1>5. 1 \in 1 .. Len(voice.queue)
  BY <1>3, TailIs
<1>6. voice' = [voice EXCEPT !.queue = t, !.speaking = h]
  BY <1>1, <1>4, Zenon
<1>7. voice' \in VoiceRecord
  BY <1>0, <1>6 DEF VoiceRecord
<1>8. voice'.queue = t /\ voice'.active = voice.active /\ voice'.recent = voice.recent /\ voice'.speaking = h
  BY <1>0, <1>6 DEF VoiceRecord
<1>9. QueueOK(voice')
  <2>1. PICK v, w : v = voice /\ w = voice'
    BY Zenon
  <2>2. /\ v \in VoiceRecord /\ w \in VoiceRecord /\ QueueOK(v) /\ v.queue # <<>> /\ v.speaking = Nothing
        /\ w.queue = Tail(v.queue) /\ w.active = v.active /\ w.recent = v.recent /\ w.speaking = Head(v.queue)
    BY <1>0, <1>1, <1>2, <1>4, <1>7, <1>8, <2>1, Zenon
  <2>3. QueueOK(w)
    BY <2>2, SpokenOK, Zenon
  <2> QED BY <2>1, <2>3, Zenon
<1>10. PICK g : g = spoken'
  BY Zenon
<1>11. g \in [Requests -> Nat] /\ g[h] = spoken[h] + 1 /\ \A r \in Requests : r # h => g[r] = spoken[r]
  BY <1>0, <1>1, <1>4, <1>10
<1>12. ~IsRemembered(voice, h) /\ IsRemembered(voice', h)
  <2>1. h \in voice.active
    BY <1>2, <1>4, <1>5, Zenon DEF QueueOK
  <2>2. h # voice.speaking
    BY <1>1, <1>4, NothingIsNone
  <2>3. \A i \in 1 .. Len(voice.recent) : voice.recent[i] # h
    BY <1>2, <2>1, Zenon DEF QueueOK
  <2> QED BY <1>8, <2>2, <2>3, Zenon DEF IsRemembered
<1>13. ASSUME NEW r \in Requests, r # h PROVE IsRemembered(voice, r) <=> IsRemembered(voice', r)
  <2>1. r # voice.speaking
    BY <1>1, <1>13, NothingIsNone
  <2> QED BY <1>8, <1>13, <2>1, Zenon DEF IsRemembered
<1>14. ASSUME NEW r \in Requests PROVE g[r] <= forgotten[r] + (IF IsRemembered(voice', r) THEN 1 ELSE 0)
  <2>1. spoken[r] <= forgotten[r] + (IF IsRemembered(voice, r) THEN 1 ELSE 0)
    BY <1>2, <1>14, Zenon DEF MemoryOK
  <2>2. spoken[r] \in Nat /\ forgotten[r] \in Nat
    BY <1>0, <1>14
  <2>3. CASE r = h
    BY <1>11, <1>12, <2>1, <2>2, <2>3
  <2>4. CASE r # h
    BY <1>11, <1>13, <1>14, <2>1, <2>2, <2>4
  <2> QED BY <2>3, <2>4
<1>15. MemoryOK(voice', g, forgotten)
  BY <1>14, Zenon DEF MemoryOK
<1>16. ServesOK'
  BY <1>1, <1>9, <1>10, <1>15, Zenon DEF ServesOK
<1>17. \A r \in Requests : g[r] <= 1 + forgotten[r]
  <2>1. ASSUME NEW r \in Requests PROVE g[r] <= 1 + forgotten[r]
    <3>1. g[r] \in Nat /\ forgotten[r] \in Nat
      BY <1>0, <1>11, <2>1
    <3> QED BY <1>14, <2>1, <3>1
  <2> QED BY <2>1
<1>18. SpokenOnce'
  BY <1>1, <1>10, <1>17, Zenon DEF SpokenOnce
<1> QED BY <1>7, <1>10, <1>11, <1>16, <1>18, Zenon

LEMMA FinishKeeps ==
    ASSUME VoiceTypeOK, ServesOK, SpokenOnce, Finish
    PROVE  voice' \in VoiceRecord /\ forgotten' \in [Requests -> Nat] /\ ServesOK' /\ SpokenOnce'
<1>0. /\ voice \in VoiceRecord /\ spoken \in [Requests -> Nat] /\ forgotten \in [Requests -> Nat]
  BY Zenon DEF VoiceTypeOK
<1> DEFINE r == voice.speaking
           idle == [voice EXCEPT !.speaking = Nothing, !.active = @ \ {r}]
           kept == [idle EXCEPT !.recent = Append(@, r)]
<1>1. /\ r # Nothing /\ spoken' = spoken
      /\ voice' = IF voice.closed THEN idle ELSE Evict(kept, RecentLimit)
      /\ forgotten' = IF ~voice.closed /\ Evicts(kept, RecentLimit)
                      THEN [forgotten EXCEPT ![Head(kept.recent)] = @ + 1] ELSE forgotten
  BY Zenon DEF Finish
<1>2. r \in Requests
  BY <1>0, <1>1, VoiceFields
<1>3. idle \in VoiceRecord
  BY <1>0 DEF VoiceRecord
<1>4. /\ idle.queue = voice.queue /\ idle.active = voice.active \ {r} /\ idle.recent = voice.recent
      /\ idle.closed = voice.closed /\ idle.speaking = Nothing
  BY <1>0 DEF VoiceRecord
<1>5. PICK R : R = Append(voice.recent, r)
  BY Zenon
<1>6. voice.recent \in Seq(Requests)
  BY <1>0, VoiceFields
<1>7. /\ R \in Seq(Requests) /\ Len(voice.recent) \in Nat /\ Len(R) = Len(voice.recent) + 1
      /\ \A i \in 1 .. Len(voice.recent) : R[i] = voice.recent[i]
      /\ R[Len(voice.recent) + 1] = r
  BY <1>2, <1>5, <1>6, AppendIs
<1>8. R # <<>>
  BY <1>7, EmptySeq
<1>9. kept = [idle EXCEPT !.recent = R]
  BY <1>4, <1>5, Zenon
<1>10. kept \in VoiceRecord
  BY <1>3, <1>7, <1>9 DEF VoiceRecord
<1>11. /\ kept.queue = voice.queue /\ kept.active = voice.active \ {r} /\ kept.recent = R
       /\ kept.closed = voice.closed /\ kept.speaking = Nothing
  BY <1>3, <1>4, <1>9 DEF VoiceRecord
<1>20. r = voice.speaking
  OBVIOUS
<1> HIDE DEF r, idle, kept
<1>12. PICK d, e : d = idle /\ e = kept
  BY Zenon
<1>13. PICK x : x = r
  BY Zenon
<1>14. /\ x \in Requests /\ x # Nothing /\ x = voice.speaking
       /\ d \in VoiceRecord /\ d.closed = voice.closed
       /\ e \in VoiceRecord /\ e.queue = voice.queue /\ e.active = voice.active \ {x} /\ e.recent = R
       /\ e.closed = voice.closed /\ e.speaking = Nothing
       /\ voice' = (IF voice.closed THEN d ELSE Evict(e, RecentLimit))
       /\ forgotten' = IF ~voice.closed /\ Evicts(e, RecentLimit)
                       THEN [forgotten EXCEPT ![Head(e.recent)] = @ + 1] ELSE forgotten
  BY <1>1, <1>2, <1>3, <1>4, <1>10, <1>11, <1>12, <1>13, <1>20, Zenon
<1>15. R[Len(voice.recent) + 1] = x
  BY <1>7, <1>13, Zenon
<1>16. CASE voice.closed
  <2>1. voice' = d /\ forgotten' = forgotten
    BY <1>14, <1>16, Zenon
  <2>2. voice' \in VoiceRecord /\ forgotten' \in [Requests -> Nat]
    BY <1>0, <1>14, <2>1, Zenon
  <2>3. ServesOK'
    BY <1>14, <1>16, <2>1, Zenon DEF ServesOK
  <2>4. SpokenOnce'
    BY <1>1, <2>1, Zenon DEF SpokenOnce
  <2> QED BY <2>2, <2>3, <2>4
<1>17. CASE ~voice.closed
  <2>1. QueueOK(voice) /\ MemoryOK(voice, spoken, forgotten)
    BY <1>17, Zenon DEF ServesOK
  <2>2. \A i \in 1 .. Len(R) : R[i] = x \/ \E j \in 1 .. Len(voice.recent) : R[i] = voice.recent[j]
    <3>1. \A i \in 1 .. Len(R) : i \in 1 .. Len(voice.recent) \/ i = Len(voice.recent) + 1
      BY <1>7
    <3> QED BY <1>7, <1>15, <3>1, Zenon
  <2>3. ASSUME NEW y \in Requests PROVE IsRemembered(voice, y) <=> IsRemembered(e, y)
    <3>1. y # Nothing
      BY <2>3, NothingIsNone
    <3>2. Len(voice.recent) + 1 \in 1 .. Len(R) /\ \A i \in 1 .. Len(voice.recent) : i \in 1 .. Len(R)
      BY <1>7
    <3>3. IsRemembered(voice, y) <=> (y = x \/ \E i \in 1 .. Len(voice.recent) : voice.recent[i] = y)
      BY <1>14, Zenon DEF IsRemembered
    <3>4. IsRemembered(e, y) <=> \E i \in 1 .. Len(R) : R[i] = y
      BY <1>14, <3>1, Zenon DEF IsRemembered
    <3> QED BY <1>7, <1>15, <2>2, <3>2, <3>3, <3>4, Zenon
  <2>4. MemoryOK(e, spoken, forgotten)
    BY <2>1, <2>3, Zenon DEF MemoryOK
  <2>5. CASE ~Evicts(e, RecentLimit)
    <3>1. voice' = e /\ forgotten' = forgotten
      BY <1>14, <1>17, <2>5, Zenon DEF Evict
    <3>2. QueueOK(e)
      <4>1. PICK v : v = voice
        BY Zenon
      <4>2. /\ v \in VoiceRecord /\ QueueOK(v) /\ v.speaking # Nothing
            /\ e.queue = v.queue /\ e.active = v.active \ {v.speaking} /\ e.speaking = Nothing
            /\ \A i \in 1 .. Len(e.recent) :
                  e.recent[i] = v.speaking \/ \E j \in 1 .. Len(v.recent) : e.recent[i] = v.recent[j]
        BY <1>0, <1>14, <2>1, <2>2, <4>1, Zenon
      <4> QED BY <1>14, <4>2, FinishedOK, Zenon
    <3>3. ServesOK'
      BY <1>1, <2>4, <3>1, <3>2, Zenon DEF ServesOK
    <3>4. SpokenOnce'
      BY <1>1, <3>1, Zenon DEF SpokenOnce
    <3> QED BY <1>0, <1>14, <3>1, <3>3, <3>4, Zenon
  <2>6. CASE Evicts(e, RecentLimit)
    <3>1. voice' = EvictOldest(e) /\ forgotten' = [forgotten EXCEPT ![Head(e.recent)] = @ + 1]
      BY <1>14, <1>17, <2>6, Zenon DEF Evict
    <3>2. PICK t : t = Tail(R)
      BY Zenon
    <3>3. /\ t \in Seq(Requests) /\ Len(t) = Len(R) - 1 /\ Len(R) \in Nat
          /\ \A i \in 1 .. Len(t) : t[i] = R[i + 1]
      BY <1>7, <1>8, <3>2, TailIs
    <3>4. PICK w : w = voice'
      BY Zenon
    <3>5. w = [e EXCEPT !.recent = t]
      BY <1>14, <3>1, <3>2, <3>4, Zenon DEF EvictOldest
    <3>6. w \in VoiceRecord
      BY <1>14, <3>3, <3>5 DEF VoiceRecord
    <3>7. w.queue = e.queue /\ w.active = e.active /\ w.recent = t /\ w.speaking = e.speaking
      BY <1>14, <3>5 DEF VoiceRecord
    <3>8. \A i \in 1 .. Len(t) : t[i] = x \/ \E j \in 1 .. Len(voice.recent) : t[i] = voice.recent[j]
      <4>1. \A i \in 1 .. Len(t) : i + 1 \in 1 .. Len(R)
        BY <3>3
      <4> QED BY <2>2, <3>3, <4>1, Zenon
    <3>9. QueueOK(w)
      <4>1. PICK v : v = voice
        BY Zenon
      <4>2. /\ v \in VoiceRecord /\ QueueOK(v) /\ v.speaking # Nothing
            /\ w.queue = v.queue /\ w.active = v.active \ {v.speaking} /\ w.speaking = Nothing
            /\ \A i \in 1 .. Len(w.recent) :
                  w.recent[i] = v.speaking \/ \E j \in 1 .. Len(v.recent) : w.recent[i] = v.recent[j]
        BY <1>0, <1>14, <2>1, <3>7, <3>8, <4>1, Zenon
      <4> QED BY <3>6, <4>2, FinishedOK, Zenon
    <3>10. PICK g : g = forgotten'
      BY Zenon
    <3>11. /\ e.recent # <<>> /\ w.recent = Tail(e.recent) /\ w.speaking = e.speaking
           /\ g = [forgotten EXCEPT ![Head(e.recent)] = @ + 1]
      BY <1>8, <1>14, <3>1, <3>2, <3>7, <3>10, Zenon
    <3>12. g \in [Requests -> Nat] /\ MemoryOK(w, spoken, g) /\ \A y \in Requests : forgotten[y] <= g[y]
      BY <1>0, <1>14, <2>4, <3>6, <3>11, EvictedMemory, Zenon
    <3>13. ServesOK'
      BY <1>1, <3>4, <3>9, <3>10, <3>12, Zenon DEF ServesOK
    <3>14. \A y \in Requests : spoken[y] <= 1 + g[y]
      <4>1. ASSUME NEW y \in Requests PROVE spoken[y] <= 1 + g[y]
        <5>1. spoken[y] <= 1 + forgotten[y] /\ forgotten[y] <= g[y]
          BY <3>12, <4>1, Zenon DEF SpokenOnce
        <5>2. spoken[y] \in Nat /\ forgotten[y] \in Nat /\ g[y] \in Nat
          BY <1>0, <3>12, <4>1
        <5> QED BY <5>1, <5>2
      <4> QED BY <4>1
    <3>15. SpokenOnce'
      BY <1>1, <3>10, <3>14, Zenon DEF SpokenOnce
    <3> QED BY <3>4, <3>6, <3>10, <3>12, <3>13, <3>15, Zenon
  <2> QED BY <2>5, <2>6
<1> QED BY <1>16, <1>17

-----------------------------------------------------------------------------
(* The idle loop's channel.                                                *)

LEMMA LoopChannel ==
    ASSUME NEW b, LoopBus(b)
    PROVE  b.chan[Loop] \in StateChan /\ Unheard(b) \in Seq(StateItem)
<1>1. b.chan \in [Subscribers -> StateChan]
  BY Zenon DEF LoopBus
<1>2. b.chan[Loop] \in StateChan
  BY <1>1, LoopAssumption
<1> QED BY <1>2 DEF StateChan, Unheard

\* What Publish does to one channel.
OfferedTo(ch, item) ==
    IF ch.state # "open" THEN ch
    ELSE IF Len(ch.buf) < BufferN THEN [ch EXCEPT !.buf = Append(@, item)] ELSE [ch EXCEPT !.lost = TRUE]

LEMMA OfferedToIs ==
    ASSUME NEW ch \in StateChan, NEW item \in StateItem
    PROVE  /\ OfferedTo(ch, item) \in StateChan
           /\ OfferedTo(ch, item).buf = ch.buf \/ OfferedTo(ch, item).buf = Append(ch.buf, item)
<1>0. ch.buf \in Seq(StateItem)
  BY DEF StateChan
<1>1. CASE ch.state # "open"
  <2>1. OfferedTo(ch, item) = ch
    BY <1>1, Zenon DEF OfferedTo
  <2> QED BY <2>1, Zenon
<1>2. CASE ch.state = "open" /\ Len(ch.buf) < BufferN
  <2>1. PICK a : a = Append(ch.buf, item)
    BY Zenon
  <2>2. a \in Seq(StateItem)
    BY <1>0, <2>1, AppendIs
  <2>3. PICK v : v = OfferedTo(ch, item)
    BY Zenon
  <2>4. v = [ch EXCEPT !.buf = a]
    BY <1>2, <2>1, <2>3, Zenon DEF OfferedTo
  <2>5. v \in StateChan /\ v.buf = a
    BY <2>2, <2>4 DEF StateChan
  <2> QED BY <2>1, <2>3, <2>5, Zenon
<1>3. CASE ch.state = "open" /\ ~(Len(ch.buf) < BufferN)
  <2>1. PICK v : v = OfferedTo(ch, item)
    BY Zenon
  <2>2. v = [ch EXCEPT !.lost = TRUE]
    BY <1>3, <2>1, Zenon DEF OfferedTo
  <2>3. v \in StateChan /\ v.buf = ch.buf
    BY <2>2 DEF StateChan
  <2> QED BY <2>1, <2>3, Zenon
<1> QED BY <1>1, <1>2, <1>3, Zenon

\* A change is published: it is the last one to be handled, or it was dropped.
LEMMA LoopHears ==
    ASSUME NEW b, LoopBus(b), NEW event \in StateEvent
    PROVE  /\ LoopBus(Published(b, event))
           /\ \/ Unheard(Published(b, event)) = Unheard(b)
              \/ \E item \in StateItem : item.event = event /\ Unheard(Published(b, event)) = Append(Unheard(b), item)
<1>1. PICK x, y, z : b = [count |-> x, history |-> y, chan |-> z]
  BY Zenon DEF LoopBus
<1>2. b.count = x /\ b.history = y /\ b.chan = z
  BY <1>1
<1>3. x \in Nat /\ z \in [Subscribers -> StateChan]
  BY <1>2, Zenon DEF LoopBus
<1>4. PICK k \in Nat : k = x + 1
  BY <1>3
<1>5. PICK item : item = [n |-> k, event |-> event]
  BY Zenon
<1>6. item \in StateItem /\ item.event = event
  BY <1>4, <1>5 DEF StateItem
<1>7. PICK h : h = IF Len(Append(y, item)) > HistoryN THEN LastOf(Append(y, item), HistoryN) ELSE Append(y, item)
  BY Zenon
<1>8. PICK f : f = [c \in Subscribers |-> OfferedTo(z[c], item)]
  BY Zenon
<1>9. PICK w : w = Published(b, event)
  BY Zenon
<1>10. w = [b EXCEPT !.count = k, !.history = h, !.chan = f]
  BY <1>2, <1>4, <1>5, <1>7, <1>8, <1>9, Zenon DEF Published, OfferedTo
<1>11. w = [count |-> k, history |-> h, chan |-> f]
  BY <1>1, <1>10
<1>12. w.count = k /\ w.chan = f
  BY <1>11
<1>13. f \in [Subscribers -> StateChan]
  <2>1. \A c \in Subscribers : OfferedTo(z[c], item) \in StateChan
    BY <1>3, <1>6, OfferedToIs
  <2> QED BY <1>8, <2>1, Zenon
<1>14. LoopBus(w)
  BY <1>4, <1>11, <1>12, <1>13, Zenon DEF LoopBus
<1>15. f[Loop] = OfferedTo(z[Loop], item)
  BY <1>8, LoopAssumption, Zenon
<1>16. z[Loop] \in StateChan
  BY <1>3, LoopAssumption
<1>17. f[Loop].buf = z[Loop].buf \/ f[Loop].buf = Append(z[Loop].buf, item)
  BY <1>6, <1>15, <1>16, OfferedToIs, Zenon
<1>18. Unheard(b) = z[Loop].buf /\ Unheard(w) = f[Loop].buf
  BY <1>2, <1>12, Zenon DEF Unheard
<1> QED BY <1>6, <1>9, <1>14, <1>17, <1>18, Zenon

\* Something happens to the loop's channel alone.
LEMMA LoopAt ==
    ASSUME NEW b, LoopBus(b), NEW ch \in StateChan
    PROVE  LoopBus([b EXCEPT !.chan[Loop] = ch]) /\ Unheard([b EXCEPT !.chan[Loop] = ch]) = ch.buf
<1>1. PICK x, y, z : b = [count |-> x, history |-> y, chan |-> z]
  BY Zenon DEF LoopBus
<1>2. b.count = x /\ b.chan = z
  BY <1>1
<1>3. x \in Nat /\ z \in [Subscribers -> StateChan]
  BY <1>2, Zenon DEF LoopBus
<1>4. PICK f : f = [z EXCEPT ![Loop] = ch]
  BY Zenon
<1>5. f \in [Subscribers -> StateChan] /\ f[Loop] = ch
  BY <1>3, <1>4, LoopAssumption
<1>6. PICK w : w = [b EXCEPT !.chan[Loop] = ch]
  BY Zenon
<1>7. w = [count |-> x, history |-> y, chan |-> f]
  BY <1>1, <1>4, <1>6
<1>8. w.count = x /\ w.chan = f
  BY <1>7
<1>9. LoopBus(w)
  BY <1>3, <1>5, <1>7, <1>8, Zenon DEF LoopBus
<1>10. Unheard(w) = ch.buf
  BY <1>5, <1>8, Zenon DEF Unheard
<1> QED BY <1>6, <1>9, <1>10, Zenon

LEMMA LoopLeaves ==
    ASSUME NEW b, LoopBus(b)
    PROVE  LoopBus(Unregistered(b, Loop)) /\ Unheard(Unregistered(b, Loop)) = Unheard(b)
<1>1. PICK ch : ch = b.chan[Loop]
  BY Zenon
<1>2. ch \in StateChan
  BY <1>1, LoopChannel, Zenon
<1>3. PICK v : v = IF ch.state = "open" THEN "closed" ELSE ch.state
  BY Zenon
<1>4. v \in {"none", "open", "closed"}
  BY <1>2, <1>3 DEF StateChan
<1>5. PICK d : d = [ch EXCEPT !.state = v]
  BY Zenon
<1>6. d \in StateChan /\ d.buf = ch.buf
  BY <1>2, <1>4, <1>5 DEF StateChan
<1>7. Unregistered(b, Loop) = [b EXCEPT !.chan[Loop] = d]
  BY <1>1, <1>3, <1>5, Zenon DEF Unregistered
<1>8. Unheard(b) = ch.buf
  BY <1>1, Zenon DEF Unheard
<1>9. LoopBus([b EXCEPT !.chan[Loop] = d]) /\ Unheard([b EXCEPT !.chan[Loop] = d]) = d.buf
  BY <1>6, LoopAt, Zenon
<1> QED BY <1>6, <1>7, <1>8, <1>9, Zenon

LEMMA LoopReceives ==
    ASSUME NEW b, LoopBus(b), Pending(b, Loop)
    PROVE  /\ LoopBus(Rest(b, Loop)) /\ Unheard(Rest(b, Loop)) = Tail(Unheard(b)) /\ Unheard(b) # <<>>
           /\ Received(b, Loop) = Unheard(b)[1].event
<1>1. PICK ch : ch = b.chan[Loop]
  BY Zenon
<1>2. ch \in StateChan /\ ch.buf \in Seq(StateItem)
  BY <1>1, LoopChannel, Zenon DEF Unheard
<1>3. ch.buf # <<>> /\ Unheard(b) = ch.buf
  BY <1>1, Zenon DEF Pending, Unheard
<1>4. PICK t : t = Tail(ch.buf)
  BY Zenon
<1>5. t \in Seq(StateItem) /\ Head(ch.buf) = ch.buf[1]
  BY <1>2, <1>3, <1>4, TailIs
<1>6. PICK d : d = [ch EXCEPT !.buf = t]
  BY Zenon
<1>7. d \in StateChan /\ d.buf = t
  BY <1>2, <1>5, <1>6 DEF StateChan
<1>8. Rest(b, Loop) = [b EXCEPT !.chan[Loop] = d]
  BY <1>1, <1>4, <1>6, Zenon DEF Rest
<1>9. LoopBus([b EXCEPT !.chan[Loop] = d]) /\ Unheard([b EXCEPT !.chan[Loop] = d]) = d.buf
  BY <1>7, LoopAt, Zenon
<1>10. Received(b, Loop) = ch.buf[1].event
  BY <1>1, <1>5, Zenon DEF Received
<1> QED BY <1>3, <1>4, <1>7, <1>8, <1>9, <1>10, Zenon

-----------------------------------------------------------------------------
(* The numbers of the events.                                              *)

\* An agent finished and the event was dropped.
LEMMA MoreFinished ==
    ASSUME NEW buf \in Seq(StateItem), NEW a, NEW lo \in Nat, NEW hi \in Nat, NEW top \in Nat, hi <= top,
           Numbered(buf, a, lo, hi)
    PROVE  Numbered(buf, a, lo, top)
<1>1. PICK f \in [1 .. Len(buf) -> 0 .. hi] : NumberedBy(f, buf, a, lo, hi)
  BY Zenon DEF Numbered
<1>2. f \in [1 .. Len(buf) -> 0 .. top]
  BY <1>1
<1>3. \A i \in 1 .. Len(buf) : Finishes(buf[i].event, a) => lo < f[i] /\ f[i] <= top
  BY <1>1 DEF NumberedBy
<1>4. NumberedBy(f, buf, a, lo, top)
  BY <1>1, <1>3, Zenon DEF NumberedBy
<1>5. lo <= top
  BY DEF Numbered
<1> QED BY <1>2, <1>4, <1>5, Zenon DEF Numbered

\* The event is the last of the channel.
LEMMA LastNumbered ==
    ASSUME NEW buf \in Seq(StateItem), NEW item \in StateItem, NEW a, NEW lo \in Nat, NEW hi \in Nat, NEW top \in Nat,
           Numbered(buf, a, lo, hi), hi <= top, Finishes(item.event, a) => top = hi + 1
    PROVE  Numbered(Append(buf, item), a, lo, top)
<1>1. PICK f \in [1 .. Len(buf) -> 0 .. hi] : NumberedBy(f, buf, a, lo, hi)
  BY Zenon DEF Numbered
<1>2. PICK p : p = Append(buf, item)
  BY Zenon
<1>3. PICK n \in Nat : n = Len(buf)
  OBVIOUS
<1>4. /\ Len(p) = n + 1 /\ p[n + 1] = item
      /\ \A i \in 1 .. n : p[i] = buf[i]
  BY <1>2, <1>3, AppendIs
<1>5. PICK g : g = [i \in 1 .. n + 1 |-> IF i = n + 1 THEN top ELSE f[i]]
  BY Zenon
<1>6. \A i \in 1 .. n : i # n + 1 /\ i \in 1 .. n + 1 /\ g[i] = f[i]
  BY <1>5
<1>7. g[n + 1] = top /\ n + 1 \in 1 .. n + 1 /\ \A i \in 1 .. n + 1 : i \in 1 .. n \/ i = n + 1
  BY <1>5
<1>8. \A i \in 1 .. n : f[i] \in 0 .. hi
  BY <1>1, <1>3
<1>9. g \in [1 .. n + 1 -> 0 .. top]
  <2>1. \A i \in 1 .. n + 1 : g[i] \in 0 .. top
    BY <1>6, <1>7, <1>8
  <2>2. g = [i \in 1 .. n + 1 |-> g[i]]
    BY <1>5
  <2> QED BY <2>1, <2>2
<1>10. lo <= hi
  BY Zenon DEF Numbered
<1>11. \A i \in 1 .. n : Finishes(buf[i].event, a) => lo < f[i] /\ f[i] <= hi
  BY <1>1, <1>3, Zenon DEF NumberedBy
<1>12. \A i, j \in 1 .. n : i < j /\ Finishes(buf[i].event, a) /\ Finishes(buf[j].event, a) => f[i] < f[j]
  BY <1>1, <1>3, Zenon DEF NumberedBy
<1>13. ASSUME NEW i \in 1 .. n + 1, Finishes(p[i].event, a) PROVE lo < g[i] /\ g[i] <= top
  <2>1. CASE i \in 1 .. n
    <3>1. Finishes(buf[i].event, a)
      BY <1>4, <1>13, <2>1, Zenon
    <3>2. lo < f[i] /\ f[i] <= hi /\ f[i] \in 0 .. hi
      BY <1>8, <1>11, <2>1, <3>1, Zenon
    <3> QED BY <1>6, <2>1, <3>2
  <2>2. CASE i = n + 1
    <3>1. Finishes(item.event, a)
      BY <1>4, <1>13, <2>2, Zenon
    <3> QED BY <1>7, <1>10, <2>2, <3>1
  <2> QED BY <1>7, <1>13, <2>1, <2>2
<1>14. ASSUME NEW i \in 1 .. n + 1, NEW j \in 1 .. n + 1, i < j, Finishes(p[i].event, a), Finishes(p[j].event, a)
       PROVE  g[i] < g[j]
  <2>1. i \in 1 .. n
    BY <1>14
  <2>2. Finishes(buf[i].event, a)
    BY <1>4, <1>14, <2>1, Zenon
  <2>3. CASE j \in 1 .. n
    <3>1. Finishes(buf[j].event, a)
      BY <1>4, <1>14, <2>3, Zenon
    <3>2. f[i] < f[j]
      BY <1>12, <1>14, <2>1, <2>2, <2>3, <3>1, Zenon
    <3> QED BY <1>6, <2>1, <2>3, <3>2
  <2>4. CASE j = n + 1
    <3>1. Finishes(item.event, a)
      BY <1>4, <1>14, <2>4, Zenon
    <3>2. f[i] \in 0 .. hi
      BY <1>8, <2>1
    <3>3. top = hi + 1
      BY <3>1, Zenon
    <3>4. g[i] = f[i] /\ g[j] = top
      BY <1>6, <1>7, <2>1, <2>4, Zenon
    <3> QED BY <3>2, <3>3, <3>4
  <2> QED BY <1>7, <1>14, <2>3, <2>4
<1>15. NumberedBy(g, p, a, lo, top)
  <2>1. \A i \in 1 .. Len(p) : Finishes(p[i].event, a) => lo < g[i] /\ g[i] <= top
    BY <1>4, <1>13, Zenon
  <2>2. \A i, j \in 1 .. Len(p) : i < j /\ Finishes(p[i].event, a) /\ Finishes(p[j].event, a) => g[i] < g[j]
    BY <1>4, <1>14, Zenon
  <2> QED BY <2>1, <2>2, Zenon DEF NumberedBy
<1>16. lo <= top
  BY <1>10
<1>17. g \in [1 .. Len(p) -> 0 .. top]
  BY <1>4, <1>9, Zenon
<1> QED BY <1>2, <1>15, <1>16, <1>17, Zenon DEF Numbered

\* The first event is handled, and announced or not.
LEMMA FirstNumbered ==
    ASSUME NEW buf \in Seq(StateItem), buf # <<>>, NEW a, NEW lo \in Nat, NEW hi \in Nat, NEW low \in Nat,
           Numbered(buf, a, lo, hi), low = lo \/ (low = lo + 1 /\ Finishes(buf[1].event, a))
    PROVE  Numbered(Tail(buf), a, low, hi)
<1>1. PICK f \in [1 .. Len(buf) -> 0 .. hi] : NumberedBy(f, buf, a, lo, hi)
  BY Zenon DEF Numbered
<1>2. PICK t : t = Tail(buf)
  BY Zenon
<1>3. PICK n \in Nat : n = Len(t)
  BY <1>2, TailIs
<1>4. Len(buf) = n + 1 /\ \A i \in 1 .. n : t[i] = buf[i + 1]
  BY <1>2, <1>3, TailIs
<1>5. PICK g : g = [i \in 1 .. n |-> f[i + 1]]
  BY Zenon
<1>6. /\ \A i \in 1 .. n : i + 1 \in 1 .. n + 1 /\ 1 < i + 1 /\ g[i] = f[i + 1]
      /\ 1 \in 1 .. n + 1
  BY <1>3, <1>5
<1>7. \A i \in 1 .. n + 1 : f[i] \in 0 .. hi
  BY <1>1, <1>4
<1>8. g \in [1 .. n -> 0 .. hi]
  BY <1>5, <1>6, <1>7
<1>9. \A i \in 1 .. n + 1 : Finishes(buf[i].event, a) => lo < f[i] /\ f[i] <= hi
  BY <1>1, <1>4, Zenon DEF NumberedBy
<1>10. \A i, j \in 1 .. n + 1 : i < j /\ Finishes(buf[i].event, a) /\ Finishes(buf[j].event, a) => f[i] < f[j]
  BY <1>1, <1>4, Zenon DEF NumberedBy
<1>11. lo <= hi
  BY Zenon DEF Numbered
<1>12. low <= hi
  <2>1. CASE low = lo
    BY <1>11, <2>1
  <2>2. CASE low = lo + 1 /\ Finishes(buf[1].event, a)
    <3>1. lo < f[1] /\ f[1] <= hi /\ f[1] \in 0 .. hi
      BY <1>6, <1>7, <1>9, <2>2, Zenon
    <3> QED BY <2>2, <3>1
  <2> QED BY <2>1, <2>2
<1>13. ASSUME NEW i \in 1 .. n, Finishes(t[i].event, a) PROVE low < g[i] /\ g[i] <= hi
  <2>1. Finishes(buf[i + 1].event, a)
    BY <1>4, <1>13, Zenon
  <2>2. lo < f[i + 1] /\ f[i + 1] <= hi /\ f[i + 1] \in 0 .. hi
    BY <1>6, <1>7, <1>9, <1>13, <2>1
  <2>3. CASE low = lo
    BY <1>6, <1>13, <2>2, <2>3
  <2>4. CASE low = lo + 1 /\ Finishes(buf[1].event, a)
    <3>1. lo < f[1] /\ f[1] \in 0 .. hi
      BY <1>6, <1>7, <1>9, <2>4, Zenon
    <3>2. f[1] < f[i + 1]
      BY <1>6, <1>10, <1>13, <2>1, <2>4
    <3>3. g[i] = f[i + 1]
      BY <1>6, <1>13
    <3> QED BY <2>2, <2>4, <3>1, <3>2, <3>3
  <2> QED BY <2>3, <2>4
<1>14. ASSUME NEW i \in 1 .. n, NEW j \in 1 .. n, i < j, Finishes(t[i].event, a), Finishes(t[j].event, a)
       PROVE  g[i] < g[j]
  <2>1. i + 1 < j + 1 /\ i + 1 \in 1 .. n + 1 /\ j + 1 \in 1 .. n + 1
    BY <1>3, <1>14
  <2>2. Finishes(buf[i + 1].event, a) /\ Finishes(buf[j + 1].event, a)
    BY <1>4, <1>14, Zenon
  <2>3. f[i + 1] < f[j + 1]
    BY <1>10, <2>1, <2>2, Zenon
  <2> QED BY <1>6, <1>14, <2>3
<1>15. NumberedBy(g, t, a, low, hi)
  <2>1. \A i \in 1 .. Len(t) : Finishes(t[i].event, a) => low < g[i] /\ g[i] <= hi
    BY <1>3, <1>13, Zenon
  <2>2. \A i, j \in 1 .. Len(t) : i < j /\ Finishes(t[i].event, a) /\ Finishes(t[j].event, a) => g[i] < g[j]
    BY <1>3, <1>14, Zenon
  <2> QED BY <2>1, <2>2, Zenon DEF NumberedBy
<1>16. g \in [1 .. Len(t) -> 0 .. hi]
  BY <1>3, <1>8, Zenon
<1> QED BY <1>2, <1>12, <1>15, <1>16, Zenon DEF Numbered

-----------------------------------------------------------------------------
(* The steps.                                                              *)

LEMMA StepSpeak ==
    ASSUME VoiceInv, SpeakNext
    PROVE  VoiceInv'
<1>1. /\ bus' = bus /\ agent' = agent /\ announced' = announced /\ finished' = finished /\ forgotten' = forgotten
  BY Zenon DEF SpeakNext
<1>2. VoiceTypeOK /\ ServesOK /\ SpokenOnce /\ AnnouncementsOK
  BY Zenon DEF VoiceInv
<1>3. voice' \in VoiceRecord /\ spoken' \in [Requests -> Nat] /\ ServesOK' /\ SpokenOnce'
  BY <1>2, SpeakKeeps, Zenon
<1>4. VoiceTypeOK'
  BY <1>1, <1>2, <1>3, Zenon DEF VoiceTypeOK
<1>5. AnnouncementsOK'
  BY <1>1, <1>2, Zenon DEF AnnouncementsOK
<1> QED BY <1>3, <1>4, <1>5, Zenon DEF VoiceInv

LEMMA StepFinish ==
    ASSUME VoiceInv, Finish
    PROVE  VoiceInv'
<1>1. /\ bus' = bus /\ agent' = agent /\ announced' = announced /\ finished' = finished /\ spoken' = spoken
  BY Zenon DEF Finish
<1>2. VoiceTypeOK /\ ServesOK /\ SpokenOnce /\ AnnouncementsOK
  BY Zenon DEF VoiceInv
<1>3. voice' \in VoiceRecord /\ forgotten' \in [Requests -> Nat] /\ ServesOK' /\ SpokenOnce'
  BY <1>2, FinishKeeps, Zenon
<1>4. VoiceTypeOK'
  BY <1>1, <1>2, <1>3, Zenon DEF VoiceTypeOK
<1>5. AnnouncementsOK'
  BY <1>1, <1>2, Zenon DEF AnnouncementsOK
<1> QED BY <1>3, <1>4, <1>5, Zenon DEF VoiceInv

LEMMA StepClose ==
    ASSUME VoiceInv, CloseVoice
    PROVE  VoiceInv'
<1>1. /\ agent' = agent /\ announced' = announced /\ finished' = finished /\ spoken' = spoken /\ forgotten' = forgotten
      /\ bus' = Unregistered(bus, Loop)
      /\ voice' = [voice EXCEPT !.closed = TRUE, !.queue = <<>>, !.active = {}]
  BY Zenon DEF CloseVoice
<1>2. VoiceTypeOK /\ ServesOK /\ SpokenOnce /\ AnnouncementsOK
  BY Zenon DEF VoiceInv
<1>3. voice \in VoiceRecord /\ LoopBus(bus)
  BY <1>2, Zenon DEF VoiceTypeOK
<1>4. voice' \in VoiceRecord /\ voice'.closed = TRUE
  <2>1. <<>> \in Seq(Requests) /\ {} \in SUBSET Requests
    OBVIOUS
  <2>2. voice' \in VoiceRecord
    BY <1>1, <1>3, <2>1 DEF VoiceRecord
  <2>3. voice'.closed = TRUE
    BY <1>1, <1>3 DEF VoiceRecord
  <2> QED BY <2>2, <2>3
<1>5. LoopBus(bus') /\ Unheard(bus') = Unheard(bus)
  BY <1>1, <1>3, LoopLeaves, Zenon
<1>6. VoiceTypeOK'
  BY <1>1, <1>2, <1>4, <1>5, Zenon DEF VoiceTypeOK
<1>7. ServesOK'
  BY <1>4, Zenon DEF ServesOK
<1>8. SpokenOnce'
  BY <1>1, <1>2, Zenon DEF SpokenOnce
<1>9. AnnouncementsOK'
  BY <1>1, <1>2, <1>5, Zenon DEF AnnouncementsOK
<1> QED BY <1>6, <1>7, <1>8, <1>9, Zenon DEF VoiceInv

LEMMA StepPosts ==
    ASSUME VoiceInv, NEW t \in Tickets, QueueVoiceNotification(t)
    PROVE  VoiceInv'
<1>1. /\ bus' = bus /\ agent' = agent /\ announced' = announced /\ finished' = finished /\ spoken' = spoken
      /\ Enqueue(<<t, 0>>)
  BY Zenon DEF QueueVoiceNotification
<1>2. VoiceTypeOK /\ ServesOK /\ SpokenOnce /\ AnnouncementsOK
  BY Zenon DEF VoiceInv
<1>3. <<t, 0>> \in Requests
  BY DEF Requests
<1>4. voice' \in VoiceRecord /\ forgotten' \in [Requests -> Nat] /\ ServesOK' /\ SpokenOnce'
  BY <1>1, <1>2, <1>3, EnqueueKeeps, Zenon
<1>5. VoiceTypeOK'
  BY <1>1, <1>2, <1>4, Zenon DEF VoiceTypeOK
<1>6. AnnouncementsOK'
  BY <1>1, <1>2, Zenon DEF AnnouncementsOK
<1> QED BY <1>4, <1>5, <1>6, Zenon DEF VoiceInv

LEMMA StepRemoved ==
    ASSUME VoiceInv, NEW a \in VoiceAgents, AgentRemoved(a)
    PROVE  VoiceInv'
<1>1. /\ bus' = bus /\ voice' = voice /\ announced' = announced /\ finished' = finished /\ spoken' = spoken
      /\ forgotten' = forgotten /\ agent' = [agent EXCEPT ![a].state = "gone"]
  BY Zenon DEF AgentRemoved
<1>2. VoiceTypeOK /\ ServesOK /\ SpokenOnce /\ AnnouncementsOK
  BY Zenon DEF VoiceInv
<1>3. agent \in [VoiceAgents -> AgentRecord]
  BY <1>2, Zenon DEF VoiceTypeOK
<1>4. agent' \in [VoiceAgents -> AgentRecord]
  BY <1>1, <1>3 DEF AgentRecord
<1>5. VoiceTypeOK'
  BY <1>1, <1>2, <1>4, Zenon DEF VoiceTypeOK
<1>6. ServesOK' /\ SpokenOnce'
  BY <1>1, <1>2, Zenon DEF ServesOK, SpokenOnce
<1>7. AnnouncementsOK'
  BY <1>1, <1>2, Zenon DEF AnnouncementsOK
<1> QED BY <1>5, <1>6, <1>7, Zenon DEF VoiceInv

LEMMA StepChanges ==
    ASSUME VoiceInv, NEW a \in VoiceAgents, NEW state \in AgentStates, StateChanges(a, state)
    PROVE  VoiceInv'
<1>1. /\ voice' = voice /\ announced' = announced /\ spoken' = spoken /\ forgotten' = forgotten
      /\ agent[a].state # "gone" /\ agent[a].changes < MaxChanges
      /\ agent' = [agent EXCEPT ![a].state = state, ![a].changes = @ + 1]
      /\ bus' = Published(bus, [agent |-> a, previous |-> agent[a].state, state |-> state])
      /\ finished' = [finished EXCEPT ![a] = IF ComesToRest(agent[a].state, state) THEN @ + 1 ELSE @]
  BY DEF StateChanges
<1>2. VoiceTypeOK /\ ServesOK /\ SpokenOnce /\ AnnouncementsOK
  BY Zenon DEF VoiceInv
<1>3. /\ agent \in [VoiceAgents -> AgentRecord] /\ LoopBus(bus)
      /\ announced \in [VoiceAgents -> Nat] /\ finished \in [VoiceAgents -> Nat]
  BY <1>2, Zenon DEF VoiceTypeOK
<1>4. agent[a].state \in AgentStates /\ agent[a].changes \in 0 .. MaxChanges
  BY <1>1, <1>3 DEF AgentRecord
<1>5. agent[a].changes + 1 \in 0 .. MaxChanges
  BY <1>1, <1>4, VoiceAssumption
<1>6. agent' \in [VoiceAgents -> AgentRecord]
  BY <1>1, <1>3, <1>5 DEF AgentRecord
<1>7. PICK event : event = [agent |-> a, previous |-> agent[a].state, state |-> state]
  BY Zenon
<1>8. event \in StateEvent /\ event.agent = a /\ event.previous = agent[a].state /\ event.state = state
  BY <1>4, <1>7 DEF StateEvent
<1>9. bus' = Published(bus, event)
  BY <1>1, <1>7, Zenon
<1>10. /\ LoopBus(bus')
       /\ \/ Unheard(bus') = Unheard(bus)
          \/ \E item \in StateItem : item.event = event /\ Unheard(bus') = Append(Unheard(bus), item)
  BY <1>3, <1>8, <1>9, LoopHears, Zenon
<1>11. finished' \in [VoiceAgents -> Nat]
  BY <1>1, <1>3
<1>12. VoiceTypeOK'
  BY <1>1, <1>2, <1>6, <1>10, <1>11, Zenon DEF VoiceTypeOK
<1>13. ServesOK' /\ SpokenOnce'
  BY <1>1, <1>2, Zenon DEF ServesOK, SpokenOnce
<1>14. ASSUME NEW b \in VoiceAgents PROVE Numbered(Unheard(bus'), b, announced[b], finished'[b])
  <2>1. PICK lo \in Nat, hi \in Nat, top \in Nat : lo = announced[b] /\ hi = finished[b] /\ top = finished'[b]
    BY <1>3, <1>11, <1>14
  <2>2. hi <= top
    BY <1>1, <1>3, <1>14, <2>1
  <2>3. Finishes(event, b) => top = hi + 1
    BY <1>1, <1>3, <1>8, <1>14, <2>1 DEF Finishes
  <2>4. Numbered(Unheard(bus), b, lo, hi)
    BY <1>2, <1>14, <2>1, Zenon DEF AnnouncementsOK
  <2>5. Unheard(bus) \in Seq(StateItem)
    BY <1>3, LoopChannel, Zenon
  <2>6. CASE Unheard(bus') = Unheard(bus)
    <3>1. Numbered(Unheard(bus), b, lo, top)
      BY <2>2, <2>4, <2>5, MoreFinished, Zenon
    <3> QED BY <2>1, <2>6, <3>1, Zenon
  <2>7. CASE \E item \in StateItem : item.event = event /\ Unheard(bus') = Append(Unheard(bus), item)
    <3>1. PICK item \in StateItem : item.event = event /\ Unheard(bus') = Append(Unheard(bus), item)
      BY <2>7, Zenon
    <3>2. Finishes(item.event, b) => top = hi + 1
      BY <2>3, <3>1, Zenon
    <3>3. Numbered(Append(Unheard(bus), item), b, lo, top)
      BY <2>2, <2>4, <2>5, <3>2, LastNumbered, Zenon
    <3> QED BY <2>1, <3>1, <3>3, Zenon
  <2> QED BY <1>10, <2>6, <2>7, Zenon
<1>15. AnnouncementsOK'
  BY <1>1, <1>14, Zenon DEF AnnouncementsOK
<1> QED BY <1>12, <1>13, <1>15, Zenon DEF VoiceInv

LEMMA StepHandles ==
    ASSUME VoiceInv, HandleIdleEvent
    PROVE  VoiceInv'
<1> DEFINE event == Received(bus, Loop)
           a == event.agent
           r == <<a, agent[a].changes>>
<1>1. /\ Pending(bus, Loop) /\ bus' = Rest(bus, Loop) /\ agent' = agent /\ finished' = finished /\ spoken' = spoken
      /\ IF IdleTransition(event) /\ agent[a].state # "gone" /\ agent[a].notify
         THEN /\ Enqueue(r)
              /\ announced' = IF Accepts(r) THEN [announced EXCEPT ![a] = @ + 1] ELSE announced
         ELSE voice' = voice /\ forgotten' = forgotten /\ announced' = announced
  BY DEF HandleIdleEvent
<1>2. PICK e, c, q : e = event /\ c = a /\ q = r
  BY Zenon
<1>3. /\ e = Received(bus, Loop) /\ c = e.agent /\ q = <<c, agent[c].changes>>
      /\ \/ IdleTransition(e) /\ Enqueue(q) /\ announced' = [announced EXCEPT ![c] = @ + 1]
         \/ Enqueue(q) /\ announced' = announced
         \/ voice' = voice /\ forgotten' = forgotten /\ announced' = announced
  BY <1>1, <1>2, Zenon
<1> HIDE DEF event, a, r
<1>4. VoiceTypeOK /\ ServesOK /\ SpokenOnce /\ AnnouncementsOK
  BY Zenon DEF VoiceInv
<1>5. /\ agent \in [VoiceAgents -> AgentRecord] /\ LoopBus(bus) /\ voice \in VoiceRecord
      /\ announced \in [VoiceAgents -> Nat] /\ finished \in [VoiceAgents -> Nat] /\ forgotten \in [Requests -> Nat]
  BY <1>4, Zenon DEF VoiceTypeOK
<1>6. /\ LoopBus(bus') /\ Unheard(bus') = Tail(Unheard(bus)) /\ Unheard(bus) # <<>> /\ e = Unheard(bus)[1].event
  BY <1>1, <1>3, <1>5, LoopReceives, Zenon
<1>7. PICK buf \in Seq(StateItem) : buf = Unheard(bus)
  BY <1>5, LoopChannel, Zenon
<1>8. e \in StateEvent /\ buf # <<>> /\ e = buf[1].event
  <2>1. buf # <<>> /\ e = buf[1].event
    BY <1>6, <1>7, Zenon
  <2>2. buf[1] \in StateItem
    BY <2>1, TailIs
  <2> QED BY <2>1, <2>2 DEF StateItem
<1>9. c \in VoiceAgents /\ q \in Requests
  <2>1. c \in VoiceAgents
    BY <1>3, <1>8 DEF StateEvent
  <2>2. agent[c].changes \in 0 .. MaxChanges
    BY <1>5, <2>1 DEF AgentRecord
  <2> QED BY <1>3, <2>1, <2>2 DEF Requests
<1>10. voice' \in VoiceRecord /\ forgotten' \in [Requests -> Nat] /\ ServesOK' /\ SpokenOnce'
  <2>1. CASE Enqueue(q)
    BY <1>1, <1>4, <1>9, <2>1, EnqueueKeeps, Zenon
  <2>2. CASE voice' = voice /\ forgotten' = forgotten
    BY <1>1, <1>4, <1>5, <2>2, Zenon DEF ServesOK, SpokenOnce
  <2> QED BY <1>3, <2>1, <2>2, Zenon
<1>11. announced' \in [VoiceAgents -> Nat]
  BY <1>3, <1>5, <1>9
<1>12. VoiceTypeOK'
  BY <1>1, <1>4, <1>6, <1>10, <1>11, Zenon DEF VoiceTypeOK
<1>13. ASSUME NEW b \in VoiceAgents PROVE Numbered(Tail(buf), b, announced'[b], finished[b])
  <2>1. PICK lo \in Nat, hi \in Nat, low \in Nat : lo = announced[b] /\ hi = finished[b] /\ low = announced'[b]
    BY <1>5, <1>11, <1>13
  <2>2. Numbered(buf, b, lo, hi)
    BY <1>4, <1>7, <1>13, <2>1, Zenon DEF AnnouncementsOK
  <2>3. low = lo \/ (low = lo + 1 /\ Finishes(e, b))
    <3>1. CASE announced' = announced
      BY <2>1, <3>1, Zenon
    <3>2. CASE IdleTransition(e) /\ announced' = [announced EXCEPT ![c] = @ + 1]
      <4>1. Finishes(e, c)
        BY <1>3, <1>8, <3>2 DEF IdleTransition, Finishes, ComesToRest, StateEvent, AgentStates
      <4>2. CASE b = c
        <5>1. low = lo + 1
          BY <1>5, <1>9, <2>1, <3>2, <4>2
        <5> QED BY <4>1, <4>2, <5>1, Zenon
      <4>3. CASE b # c
        BY <1>5, <1>13, <2>1, <3>2, <4>3
      <4> QED BY <4>2, <4>3
    <3> QED BY <1>3, <3>1, <3>2, Zenon
  <2>4. low = lo \/ (low = lo + 1 /\ Finishes(buf[1].event, b))
    BY <1>8, <2>3, Zenon
  <2>5. Numbered(Tail(buf), b, low, hi)
    BY <1>8, <2>2, <2>4, FirstNumbered, Zenon
  <2> QED BY <2>1, <2>5, Zenon
<1>14. AnnouncementsOK'
  <2>1. Unheard(bus') = Tail(buf)
    BY <1>6, <1>7, Zenon
  <2> QED BY <1>1, <1>13, <2>1, Zenon DEF AnnouncementsOK
<1> QED BY <1>10, <1>12, <1>14, Zenon DEF VoiceInv

LEMMA VoiceSteps == VoiceInv /\ [VoiceNext]_vars => VoiceInv'
<1> SUFFICES ASSUME VoiceInv, [VoiceNext]_vars PROVE VoiceInv'
  OBVIOUS
<1>1. CASE SpeakNext
  BY <1>1, StepSpeak, Zenon
<1>2. CASE Finish
  BY <1>2, StepFinish, Zenon
<1>3. CASE CloseVoice
  BY <1>3, StepClose, Zenon
<1>4. CASE HandleIdleEvent
  BY <1>4, StepHandles, Zenon
<1>5. CASE \E t \in Tickets : QueueVoiceNotification(t)
  BY <1>5, StepPosts, Zenon
<1>6. CASE \E a \in VoiceAgents : AgentRemoved(a)
  BY <1>6, StepRemoved, Zenon
<1>7. CASE \E a \in VoiceAgents : \E state \in AgentStates : StateChanges(a, state)
  BY <1>7, StepChanges, Zenon
<1>8. CASE UNCHANGED vars
  <2>1. /\ bus' = bus /\ agent' = agent /\ voice' = voice /\ announced' = announced /\ finished' = finished
        /\ spoken' = spoken /\ forgotten' = forgotten
    BY <1>8, Zenon DEF vars, voiceVars
  <2> QED BY <2>1, Zenon DEF VoiceInv, VoiceTypeOK, ServesOK, SpokenOnce, AnnouncementsOK
<1> QED BY <1>1, <1>2, <1>3, <1>4, <1>5, <1>6, <1>7, <1>8, Zenon DEF VoiceNext

LEMMA VoiceStarts == VoiceInit => VoiceInv
<1> SUFFICES ASSUME VoiceInit PROVE VoiceInv
  OBVIOUS
<1>1. LoopBus(NewBus)
  <2>1. PICK f : f = [c \in Subscribers |-> Unsubscribed]
    BY Zenon
  <2>2. Unsubscribed \in StateChan
    BY DEF Unsubscribed, StateChan
  <2>3. f \in [Subscribers -> StateChan]
    BY <2>1, <2>2
  <2>4. PICK w : w = NewBus
    BY Zenon
  <2>5. w = [count |-> 0, history |-> <<>>, chan |-> f]
    BY <2>1, <2>4, Zenon DEF NewBus
  <2>6. w.count = 0 /\ w.chan = f
    BY <2>5
  <2>7. 0 \in Nat
    OBVIOUS
  <2> QED BY <2>3, <2>4, <2>5, <2>6, <2>7, Zenon DEF LoopBus
<1>2. PICK ch : ch = [Unsubscribed EXCEPT !.state = "open"]
  BY Zenon
<1>3. ch \in StateChan /\ ch.buf = <<>>
  <2>1. ch = [state |-> "open", buf |-> <<>>, lost |-> FALSE]
    BY <1>2 DEF Unsubscribed
  <2> QED BY <2>1 DEF StateChan
<1>4. bus = [NewBus EXCEPT !.chan[Loop] = ch]
  BY <1>2, Zenon DEF VoiceInit, Subscribed
<1>5. LoopBus(bus) /\ Unheard(bus) = <<>>
  BY <1>1, <1>3, <1>4, LoopAt, Zenon
<1>6. agent \in [VoiceAgents -> AgentRecord]
  BY VoiceAssumption DEF VoiceInit, AgentRecord, AgentStates
<1>7. /\ voice = [queue |-> <<>>, active |-> {}, recent |-> <<>>, closed |-> FALSE, speaking |-> Nothing]
      /\ announced = [b \in VoiceAgents |-> 0] /\ finished = [b \in VoiceAgents |-> 0]
      /\ spoken = [q \in Requests |-> 0] /\ forgotten = [q \in Requests |-> 0]
  BY Zenon DEF VoiceInit
<1>8. /\ announced \in [VoiceAgents -> Nat] /\ finished \in [VoiceAgents -> Nat]
      /\ spoken \in [Requests -> Nat] /\ forgotten \in [Requests -> Nat]
  BY <1>7
<1>9. voice \in VoiceRecord
  BY <1>7 DEF VoiceRecord
<1>10. VoiceTypeOK
  BY <1>5, <1>6, <1>8, <1>9, Zenon DEF VoiceTypeOK
<1>11. voice.queue = <<>> /\ voice.active = {} /\ voice.recent = <<>> /\ voice.speaking = Nothing
  BY <1>7
<1>12. QueueOK(voice)
  <2>1. IsFiniteSet({}) /\ Cardinality({}) = 0
    BY FS_EmptySet
  <2>2. /\ \A i \in 1 .. Len(voice.queue) : FALSE
        /\ \A i \in 1 .. Len(voice.recent) : FALSE
    BY <1>11
  <2>3. Cardinality(voice.active) <= Len(voice.queue) + 0
    BY <1>11, <2>1
  <2>4. IsFiniteSet(voice.active)
    BY <1>11, <2>1, Zenon
  <2> QED BY <1>11, <2>2, <2>3, <2>4, Zenon DEF QueueOK
<1>13. MemoryOK(voice, spoken, forgotten)
  <2>1. ASSUME NEW q \in Requests PROVE spoken[q] <= forgotten[q] + (IF IsRemembered(voice, q) THEN 1 ELSE 0)
    BY <1>7, <2>1
  <2> QED BY <2>1, Zenon DEF MemoryOK
<1>14. ServesOK
  BY <1>12, <1>13, Zenon DEF ServesOK
<1>15. SpokenOnce
  BY <1>7 DEF SpokenOnce
<1>16. ASSUME NEW b \in VoiceAgents PROVE Numbered(<<>>, b, announced[b], finished[b])
  <2>1. announced[b] = 0 /\ finished[b] = 0
    BY <1>7, <1>16
  <2>2. PICK f : f = [i \in 1 .. Len(<<>>) |-> 0]
    BY Zenon
  <2>3. f \in [1 .. Len(<<>>) -> 0 .. 0] /\ \A i \in 1 .. Len(<<>>) : FALSE
    BY <2>2
  <2>4. NumberedBy(f, <<>>, b, 0, 0)
    BY <2>3, Zenon DEF NumberedBy
  <2>5. 0 <= 0
    OBVIOUS
  <2>6. Numbered(<<>>, b, 0, 0)
    BY <2>3, <2>4, <2>5, Zenon DEF Numbered
  <2> QED BY <2>1, <2>6, Zenon
<1>17. AnnouncementsOK
  BY <1>5, <1>16, Zenon DEF AnnouncementsOK
<1> QED BY <1>10, <1>14, <1>15, <1>17, Zenon DEF VoiceInv

\* The voice service and the idle loop (Enqueue, run, finish, handleAgentIdleVoiceEvent), for any
\* number of agents and clients and any limits NewService accepts: no request is spoken twice while it is
\* remembered, and no agent is announced more often than it came to rest after working or having been
\* blocked.
THEOREM SpokenOnceEach == VoiceSpec => []FinishedIsSpokenOnce
<1>1. VoiceInit => VoiceInv
  BY VoiceStarts
<1>2. VoiceInv /\ [VoiceNext]_vars => VoiceInv'
  BY VoiceSteps
<1>3. VoiceInv => FinishedIsSpokenOnce
  BY Zenon DEF VoiceInv, AnnouncementsOK, Numbered, FinishedIsSpokenOnce, AnnouncedOnlyWhenFinished
<1> QED BY <1>1, <1>2, <1>3, PTL DEF VoiceSpec

=============================================================================
